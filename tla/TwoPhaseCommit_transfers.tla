---------------------- MODULE TwoPhaseCommit_transfers ----------------------
(***************************************************************************)
(* A cross-shard transfer from its debit to the end, where every message   *)
(* that is retried has one copy of itself under way, the prepare phase     *)
(* does not time out, and no two transfers agree in items and amount: it   *)
(* is debited once, voted on once, decided once, and holds the locks of    *)
(* what it has changed until commit or abort executes.  It follows that    *)
(* two clusters with a lock and a WAL each implement AtomicTransfer: the   *)
(* preimage that a WAL entry holds is still what an abort has to put back. *)
(*                                                                         *)
(* The last part has copies that overlap, and timeouts, and transfers      *)
(* that share no item with another: one debit, one decision, and a sender  *)
(* who gets back what is not committed.                                    *)
(***************************************************************************)
EXTENDS TwoPhaseCommit_proofs, FiniteSums

\* prepareOutcome tells transfers apart by their items and amounts alone.
SingleCopies ==
    /\ MaxCopies <= 1
    /\ ~PrepareMayTimeOut
    /\ \A t, u \in Transfer : <<t.x, t.y, t.amt>> = <<u.x, u.y, u.amt>> => t = u

-----------------------------------------------------------------------------
(***************************************************************************)
(* Per operation and transfer, how many are to be executed, how many of    *)
(* those are agreed on, and how many are on record.                        *)
(***************************************************************************)
Todo(op, t) == Live(HomeOf(Op(op, t)), {Op(op, t)})
Agreed(op, t) == Copies(inflight[HomeOf(Op(op, t))], {Op(op, t)})
Done(op, t) == Copies(datastore[HomeOf(Op(op, t))], {Op(op, t)})

TodoSame == \A op : \A t \in Transfer : Todo(op, t)' = Todo(op, t)
AgreedSame == \A op : \A t \in Transfer : Agreed(op, t)' = Agreed(op, t)
DoneSame == \A op : \A t \in Transfer : Done(op, t)' = Done(op, t)

TodoMore(op, t) ==
    /\ Todo(op, t)' = Todo(op, t) + 1
    /\ \A p : \A u \in Transfer : p # op \/ u # t => Todo(p, u)' = Todo(p, u)

TodoLess(op, t) ==
    /\ Todo(op, t) = Todo(op, t)' + 1
    /\ \A p : \A u \in Transfer : p # op \/ u # t => Todo(p, u)' = Todo(p, u)

AgreedMore(op, t) ==
    /\ Agreed(op, t)' = Agreed(op, t) + 1
    /\ \A p : \A u \in Transfer : p # op \/ u # t => Agreed(p, u)' = Agreed(p, u)

AgreedLess(op, t) ==
    /\ Agreed(op, t) = Agreed(op, t)' + 1
    /\ \A p : \A u \in Transfer : p # op \/ u # t => Agreed(p, u)' = Agreed(p, u)

DoneMore(op, t) ==
    /\ Done(op, t)' = Done(op, t) + 1
    /\ \A p : \A u \in Transfer : p # op \/ u # t => Done(p, u)' = Done(p, u)

LEMMA WALType ==
    ASSUME TypeOK
    PROVE  wal \in [Cluster -> [Transfer -> Nat \cup {NoPreimage}]]
BY DEF TypeOK

LEMMA OpsDiffer ==
    ASSUME NEW op, NEW t, NEW p, NEW u
    PROVE  Op(op, t) \in {Op(p, u)} <=> p = op /\ u = t
BY DEF Op

LEMMA HomesAreClusters ==
    ASSUME NEW op, NEW t \in Transfer
    PROVE  HomeOf(Op(op, t)) \in Cluster
BY TransferFields DEF HomeOf, Op

LEMMA CountTypes ==
    ASSUME TypeOK
    PROVE  \A op : \A t \in Transfer :
               /\ Todo(op, t) \in Nat /\ Agreed(op, t) \in Nat /\ Done(op, t) \in Nat
               /\ Agreed(op, t) <= Todo(op, t)
<1> SUFFICES ASSUME NEW op, NEW t \in Transfer
             PROVE  /\ Todo(op, t) \in Nat /\ Agreed(op, t) \in Nat /\ Done(op, t) \in Nat
                    /\ Agreed(op, t) <= Todo(op, t)
    OBVIOUS
<1> DEFINE c == HomeOf(Op(op, t))
           E == {Op(op, t)}
<1>1. c \in Cluster
    BY HomesAreClusters
<1> HIDE DEF c, E
<1>2. /\ Copies(clientQueue[c], E) \in Nat /\ Copies(internalQueue[c], E) \in Nat
      /\ Copies(starting[c], E) \in Nat /\ Copies(inflight[c], E) \in Nat
    BY <1>1, LiveType
<1>3. datastore[c] \in Seq(Operation)
    BY <1>1 DEF TypeOK
<1>4. Copies(datastore[c], E) \in Nat
    BY <1>3, CopiesType
<1>5. Live(c, E) \in Nat /\ Copies(inflight[c], E) <= Live(c, E)
    BY <1>2 DEF Live
<1>6. QED
    BY <1>2, <1>4, <1>5 DEF Todo, Agreed, Done, c, E

LEMMA CountTypesNext ==
    ASSUME TypeOK'
    PROVE  \A op : \A t \in Transfer :
               Todo(op, t)' \in Nat /\ Agreed(op, t)' \in Nat /\ Done(op, t)' \in Nat
<1> SUFFICES ASSUME NEW op, NEW t \in Transfer
             PROVE  Todo(op, t)' \in Nat /\ Agreed(op, t)' \in Nat /\ Done(op, t)' \in Nat
    OBVIOUS
<1> DEFINE c == HomeOf(Op(op, t))
           E == {Op(op, t)}
<1>1. c \in Cluster
    BY HomesAreClusters
<1> HIDE DEF c, E
<1>2. inflight'[c] \in Seq(Operation) /\ datastore'[c] \in Seq(Operation)
    BY <1>1 DEF TypeOK
<1>3. ASSUME NEW s \in Seq(Operation) PROVE Copies(s, E) \in Nat
    BY CopiesType
<1>4. Live(c, E)' \in Nat
    BY <1>1, LiveTypeNext
<1>5. Copies(inflight'[c], E) \in Nat /\ Copies(datastore'[c], E) \in Nat
    BY <1>2, <1>3
<1>6. QED
    BY <1>4, <1>5 DEF Todo, Agreed, Done, c, E

LEMMA AtHome ==
    ASSUME NEW op, NEW t \in Transfer, NEW p, NEW u \in Transfer
    PROVE  One(HomeOf(Op(p, u)) = HomeOf(Op(op, t)) /\ Op(op, t) \in {Op(p, u)}) =
               IF p = op /\ u = t THEN 1 ELSE 0
<1>1. Op(op, t) \in {Op(p, u)} <=> p = op /\ u = t
    BY OpsDiffer
<1>2. CASE p = op /\ u = t
    BY <1>1, <1>2 DEF One
<1>3. CASE ~(p = op /\ u = t)
    BY <1>1, <1>3 DEF One
<1>4. QED
    BY <1>2, <1>3

LEMMA MoreToDo ==
    ASSUME TypeOK, TypeOK', NEW op, NEW t \in Transfer,
           \A d \in Cluster : \A E :
               Live(d, E)' = Live(d, E) + One(d = HomeOf(Op(op, t)) /\ Op(op, t) \in E)
    PROVE  TodoMore(op, t)
<1>1. ASSUME NEW p, NEW u \in Transfer
      PROVE  Todo(p, u)' = Todo(p, u) + IF p = op /\ u = t THEN 1 ELSE 0
    BY AtHome, HomesAreClusters DEF Todo
<1>2. QED
    BY <1>1, CountTypes DEF TodoMore

LEMMA LessToDo ==
    ASSUME TypeOK, TypeOK', NEW op, NEW t \in Transfer,
           \A d \in Cluster : \A E :
               Live(d, E) = Live(d, E)' + One(d = HomeOf(Op(op, t)) /\ Op(op, t) \in E)
    PROVE  TodoLess(op, t)
<1>1. ASSUME NEW p, NEW u \in Transfer
      PROVE  Todo(p, u) = Todo(p, u)' + IF p = op /\ u = t THEN 1 ELSE 0
    BY AtHome, HomesAreClusters DEF Todo
<1>2. QED
    BY <1>1, CountTypesNext DEF TodoLess

LEMMA QueuesUnchanged ==
    ASSUME UNCHANGED <<clientQueue, internalQueue, starting, inflight>>
    PROVE  TodoSame /\ AgreedSame
BY LiveUnchanged DEF TodoSame, AgreedSame, Todo, Agreed

LEMMA RecordsUnchanged ==
    ASSUME UNCHANGED datastore
    PROVE  DoneSame
BY DEF DoneSame, Done

LEMMA Submitted ==
    ASSUME TypeOK, TypeOK', NEW op, NEW t \in Transfer,
           Op(op, t) \in Operation, Submits(HomeOf(Op(op, t)), Op(op, t))
    PROVE  TodoMore(op, t) /\ AgreedSame
<1>1. TodoMore(op, t)
    BY MoreToDo, SubmissionMoves, HomesAreClusters
<1>2. UNCHANGED inflight
    BY DEF Submits
<1>3. QED
    BY <1>1, <1>2 DEF AgreedSame, Agreed

LEMMA Handed ==
    ASSUME TypeOK, TypeOK', NEW op, NEW t \in Transfer,
           Op(op, t) \in Operation, Enqueues(HomeOf(Op(op, t)), <<Op(op, t)>>)
    PROVE  TodoMore(op, t) /\ AgreedSame
<1>1. TodoMore(op, t)
    BY MoreToDo, EnqueueMoves, HomesAreClusters
<1>2. UNCHANGED inflight
    BY DEF Enqueues
<1>3. QED
    BY <1>1, <1>2 DEF AgreedSame, Agreed

LEMMA HandedNothing ==
    ASSUME TypeOK, TypeOK', NEW c \in Cluster, Enqueues(c, <<>>)
    PROVE  TodoSame /\ AgreedSame
<1>1. internalQueue[c] \o <<>> = internalQueue[c]
    BY ConcatEmptySeq DEF TypeOK
<1>2. internalQueue' = internalQueue
    BY <1>1 DEF Enqueues, TypeOK
<1>3. QED
    BY <1>2, QueuesUnchanged DEF Enqueues

LEMMA Executed ==
    ASSUME TypeOK, TypeOK', NEW op, NEW t \in Transfer,
           ExecutesNext(HomeOf(Op(op, t)), Op(op, t))
    PROVE  TodoLess(op, t) /\ AgreedLess(op, t)
<1> DEFINE c == HomeOf(Op(op, t))
<1>1. c \in Cluster
    BY HomesAreClusters
<1>2. TodoLess(op, t)
    BY <1>1, LessToDo, ExecutionMoves
<1>3. ASSUME NEW d \in Cluster, NEW E
      PROVE  Copies(inflight[d], E) = Copies(inflight'[d], E) + One(d = c /\ Op(op, t) \in E)
    <2>1. inflight[d] \in Seq(Operation) /\ inflight'[d] \in Seq(Operation)
        BY DEF TypeOK
    <2>2. Copies(inflight[d], E) \in Nat /\ Copies(inflight'[d], E) \in Nat
        BY <2>1, CopiesType
    <2>3. CASE d # c
        BY <2>2, <2>3 DEF ExecutesNext, TypeOK, One
    <2>4. CASE d = c
        <3>1. /\ inflight[d] # <<>> /\ Head(inflight[d]) = Op(op, t)
              /\ inflight'[d] = Tail(inflight[d])
            BY <2>4 DEF ExecutesNext, TypeOK
        <3>2. Copies(inflight[d], E) = Copies(Tail(inflight[d]), E)
                                           + IF Head(inflight[d]) \in E THEN 1 ELSE 0
            BY <2>1, <3>1, CopiesTail
        <3>3. QED
            BY <2>4, <3>1, <3>2 DEF One
    <2>5. QED
        BY <2>3, <2>4
<1>4. ASSUME NEW p, NEW u \in Transfer
      PROVE  Agreed(p, u) = Agreed(p, u)' + IF p = op /\ u = t THEN 1 ELSE 0
    <2>1. HomeOf(Op(p, u)) \in Cluster
        BY HomesAreClusters
    <2>2. QED
        BY <1>3, <2>1, AtHome DEF Agreed
<1>5. QED
    BY <1>2, <1>4, CountTypesNext DEF AgreedLess

LEMMA AppendedRecord ==
    ASSUME TypeOK, TypeOK', NEW op, NEW t \in Transfer, Op(op, t) \in Operation,
           datastore' = Appended(HomeOf(Op(op, t)), Op(op, t))
    PROVE  DoneMore(op, t)
<1> DEFINE c == HomeOf(Op(op, t))
<1>1. c \in Cluster
    BY HomesAreClusters
<1>2. ASSUME NEW d \in Cluster, NEW E
      PROVE  Copies(datastore'[d], E) = Copies(datastore[d], E) + One(d = c /\ Op(op, t) \in E)
    <2>1. datastore[d] \in Seq(Operation)
        BY DEF TypeOK
    <2>2. Copies(datastore[d], E) \in Nat
        BY <2>1, CopiesType
    <2>3. CASE d # c
        BY <2>2, <2>3 DEF Appended, TypeOK, One
    <2>4. CASE d = c
        <3>1. datastore'[d] = Append(datastore[d], Op(op, t))
            BY <2>4 DEF Appended, TypeOK
        <3>2. Copies(Append(datastore[d], Op(op, t)), E) = Copies(datastore[d], E)
                                           + IF Op(op, t) \in E THEN 1 ELSE 0
            BY <2>1, CopiesAppend
        <3>3. QED
            BY <2>4, <3>1, <3>2 DEF One
    <2>5. QED
        BY <2>3, <2>4
<1>3. ASSUME NEW p, NEW u \in Transfer
      PROVE  Done(p, u)' = Done(p, u) + IF p = op /\ u = t THEN 1 ELSE 0
    <2>1. HomeOf(Op(p, u)) \in Cluster
        BY HomesAreClusters
    <2>2. QED
        BY <1>2, <2>1, AtHome DEF Done
<1>4. QED
    BY <1>3, CountTypes DEF DoneMore

\* What a queue holds is at home and counts.
LEMMA Starting ==
    ASSUME TypeOK, HomeInv, NEW c \in Cluster, NEW e \in Operation, starting[c] = <<e>>
    PROVE  /\ e = Op(e.op, e.txn) /\ e.txn \in Transfer
           /\ c = HomeOf(e) /\ Todo(e.op, e.txn) > 0
<1>1. e = Op(e.op, e.txn) /\ e.txn \in Transfer
    BY DEF Operation, Op
<1>2. e \in OpsOf(starting[c])
    BY OpsOfSmall
<1>3. Live(c, {e}) # 0 /\ Live(c, {e}) \in Nat
    BY <1>2, LiveType
<1>4. c = HomeOf(e)
    BY <1>3 DEF HomeInv
<1>5. Todo(e.op, e.txn) = Live(c, {e})
    BY <1>1, <1>4 DEF Todo
<1>6. QED
    BY <1>1, <1>3, <1>4, <1>5

LEMMA InFlight ==
    ASSUME TypeOK, HomeInv, NEW c \in Cluster, NEW e \in OpsOf(inflight[c])
    PROVE  /\ e = Op(e.op, e.txn) /\ e.txn \in Transfer
           /\ c = HomeOf(e) /\ Agreed(e.op, e.txn) > 0
<1>1. e \in Operation /\ inflight[c] \in Seq(Operation)
    BY DEF TypeOK, OpsOf
<1>2. e = Op(e.op, e.txn) /\ e.txn \in Transfer
    BY <1>1 DEF Operation, Op
<1>3. Live(c, {e}) # 0 /\ Live(c, {e}) \in Nat
    BY LiveType
<1>4. c = HomeOf(e)
    BY <1>1, <1>3 DEF HomeInv
<1>5. Copies(inflight[c], {e}) # 0 /\ Copies(inflight[c], {e}) \in Nat
    BY <1>1, CopiesType
<1>6. Agreed(e.op, e.txn) = Copies(inflight[c], {e})
    BY <1>2, <1>4 DEF Agreed
<1>7. QED
    BY <1>2, <1>4, <1>5, <1>6

LEMMA Proposed ==
    ASSUME TypeOK, TypeOK', HomeInv, NEW c \in Cluster, NEW e \in Operation, Proposes(c, e, e)
    PROVE  TodoSame /\ AgreedMore(e.op, e.txn)
<1>1. /\ e = Op(e.op, e.txn) /\ e.txn \in Transfer /\ c = HomeOf(e)
    BY Starting DEF Proposes
<1>2. ASSUME NEW p, NEW u \in Transfer
      PROVE  /\ Todo(p, u)' = Todo(p, u)
             /\ Agreed(p, u)' = Agreed(p, u) + IF p = e.op /\ u = e.txn THEN 1 ELSE 0
    <2> DEFINE d == HomeOf(Op(p, u))
               E == {Op(p, u)}
    <2>1. d \in Cluster
        BY HomesAreClusters
    <2>2. One(d = c /\ e \in E) = IF p = e.op /\ u = e.txn THEN 1 ELSE 0
        BY <1>1, AtHome
    <2>3. Todo(p, u) = Live(d, E) /\ Todo(p, u)' = Live(d, E)'
        BY DEF Todo
    <2>4. Agreed(p, u) = Copies(inflight[d], E) /\ Agreed(p, u)' = Copies(inflight'[d], E)
        BY DEF Agreed
    <2> HIDE DEF d, E
    <2>5. Live(d, E)' + One(d = c /\ e \in E) = Live(d, E) + One(d = c /\ e \in E)
        BY <2>1, ProposalMoves DEF One
    <2>6. Live(d, E) \in Nat /\ Live(d, E)' \in Nat
        BY <2>1, LiveType, LiveTypeNext
    <2>7. inflight[d] \in Seq(Operation)
        BY <2>1 DEF TypeOK
    <2>8. Copies(inflight[d], E) \in Nat
        BY <2>7, CopiesType
    <2>9. Copies(inflight'[d], E) = Copies(inflight[d], E) + One(d = c /\ e \in E)
        <3>1. CASE d # c
            BY <2>1, <2>8, <3>1 DEF Proposes, TypeOK, One
        <3>2. CASE d = c
            <4>1. inflight'[d] = Append(inflight[d], e)
                BY <3>2 DEF Proposes, TypeOK
            <4>2. Copies(Append(inflight[d], e), E) = Copies(inflight[d], E)
                                                         + IF e \in E THEN 1 ELSE 0
                BY <2>7, CopiesAppend
            <4>3. QED
                BY <3>2, <4>1, <4>2 DEF One
        <3>3. QED
            BY <3>1, <3>2
    <2>10. Live(d, E)' = Live(d, E)
        BY <2>5, <2>6 DEF One
    <2>11. QED
        BY <2>2, <2>3, <2>4, <2>9, <2>10
<1>3. QED
    BY <1>1, <1>2, CountTypes DEF TodoSame, AgreedMore

LEMMA Refused ==
    ASSUME TypeOK, TypeOK', NEW c \in Cluster, NEW e \in Operation, Refuses(c, e)
    PROVE  /\ \A p : \A u \in Transfer : Todo(p, u)' <= Todo(p, u)
           /\ AgreedSame
<1>1. ASSUME NEW d \in Cluster, NEW E PROVE Live(d, E)' <= Live(d, E)
    <2>1. Live(d, E) = Live(d, E)' + One(d = c /\ e \in E)
        BY RefusalMoves
    <2>2. QED
        BY <2>1, LiveTypeNext DEF One
<1>2. QED
    BY <1>1, HomesAreClusters DEF Refuses, Todo, AgreedSame, Agreed

LEMMA Reclaimed ==
    ASSUME TypeOK, TypeOK', HomeInv, NEW c \in Cluster, NEW i \in DOMAIN inflight[c],
           Reclaims(c, i), NEW e, e = inflight[c][i]
    PROVE  /\ e.txn \in Transfer /\ e \in Operation
           /\ TodoLess(e.op, e.txn) /\ AgreedLess(e.op, e.txn)
<1>1. e \in OpsOf(inflight[c]) /\ e \in Operation
    BY DEF OpsOf, TypeOK
<1>2. e = Op(e.op, e.txn) /\ e.txn \in Transfer /\ c = HomeOf(e)
    BY <1>1, InFlight
<1>3. ASSUME NEW d \in Cluster, NEW E
      PROVE  Live(d, E) = Live(d, E)' + One(d = c /\ e \in E)
    BY ReclaimMoves DEF One
<1>4. TodoLess(e.op, e.txn)
    BY <1>2, <1>3, LessToDo
<1>5. ASSUME NEW d \in Cluster, NEW E
      PROVE  Copies(inflight[d], E) = Copies(inflight'[d], E) + One(d = c /\ e \in E)
    <2>1. inflight[d] \in Seq(Operation) /\ inflight'[d] \in Seq(Operation)
        BY DEF TypeOK
    <2>2. Copies(inflight[d], E) \in Nat /\ Copies(inflight'[d], E) \in Nat
        BY <2>1, CopiesType
    <2>3. CASE d # c
        BY <2>2, <2>3 DEF Reclaims, TypeOK, One
    <2>4. CASE d = c
        <3>1. inflight'[d] = RemoveAt(inflight[d], i)
            BY <2>4 DEF Reclaims, TypeOK
        <3>2. Copies(inflight[d], E) = Copies(RemoveAt(inflight[d], i), E)
                                           + IF inflight[d][i] \in E THEN 1 ELSE 0
            BY <2>1, <2>4, CopiesRemoveAt
        <3>3. QED
            BY <2>4, <3>1, <3>2 DEF One
    <2>5. QED
        BY <2>3, <2>4
<1>6. ASSUME NEW p, NEW u \in Transfer
      PROVE  Agreed(p, u) = Agreed(p, u)' + IF p = e.op /\ u = e.txn THEN 1 ELSE 0
    <2>1. HomeOf(Op(p, u)) \in Cluster
        BY HomesAreClusters
    <2>2. Agreed(p, u) = Agreed(p, u)'
              + One(HomeOf(Op(p, u)) = c /\ e \in {Op(p, u)})
        BY <1>5, <2>1 DEF Agreed
    <2>3. One(HomeOf(Op(p, u)) = c /\ e \in {Op(p, u)}) =
              IF p = e.op /\ u = e.txn THEN 1 ELSE 0
        BY <1>2, AtHome
    <2>4. QED
        BY <2>2, <2>3
<1>7. AgreedLess(e.op, e.txn)
    <2>1. Agreed(e.op, e.txn) = Agreed(e.op, e.txn)' + 1
        BY <1>2, <1>6
    <2>2. ASSUME NEW p, NEW u \in Transfer, p # e.op \/ u # e.txn
          PROVE  Agreed(p, u)' = Agreed(p, u)
        <3>1. Agreed(p, u)' \in Nat
            BY CountTypesNext
        <3>2. QED
            BY <1>6, <2>2, <3>1
    <2>3. QED
        BY <2>1, <2>2 DEF AgreedLess
<1>8. QED
    BY <1>1, <1>2, <1>4, <1>7

-----------------------------------------------------------------------------
(***************************************************************************)
(* The course of a transfer, by the operations, records, messages and      *)
(* goroutines that it has.                                                 *)
(***************************************************************************)
Voting(t) ==
    preparing[t] + Todo("PART_PREPARE_COMMIT", t) + Todo("PART_PREPARE_ABORT", t)

InPrepare(t) ==
    net[PrepareMsg(t)] + net[ReplyMsg(t, "commit", "coord")]
        + net[ReplyMsg(t, "abort", "coord")] + Voting(t)

Voted(t) == Done("PART_PREPARE_COMMIT", t) + Done("PART_PREPARE_ABORT", t) > 0

Replies(t) == net[ReplyMsg(t, "commit", "part")] + net[ReplyMsg(t, "abort", "part")]

\* One debit, whose preimage is kept until the decision is on record.
DebitFlow(t) ==
    /\ watch[t] # "aborting"
    /\ watch[t] = "preparing" => Done("COORD_PREPARE", t) > 0
    /\ HasWAL(Coord(t), t) <=> /\ Done("COORD_PREPARE", t) > 0
                               /\ Done("COORD_COMMIT", t) = 0
                               /\ Done("COORD_ABORT", t) = 0
    /\ Todo("COORD_PREPARE", t) + Done("COORD_PREPARE", t) <= 1

\* One PREPARE of what is debited, one vote, one reply.
VoteFlow(t) ==
    /\ InPrepare(t) <= 1
    /\ InPrepare(t) > 0 \/ Voted(t) => Done("COORD_PREPARE", t) > 0
    /\ Voting(t) > 0 => ~Voted(t)
    /\ Done("PART_PREPARE_COMMIT", t) = 0 \/ Done("PART_PREPARE_ABORT", t) = 0
    /\ HasWAL(Part(t), t) => Done("PART_PREPARE_COMMIT", t) > 0
    /\ Replies(t) <= 1
    /\ Replies(t) > 0 => t \notin commitStarted
    /\ net[ReplyMsg(t, "commit", "part")] > 0 => Done("PART_PREPARE_COMMIT", t) > 0
    /\ net[ReplyMsg(t, "abort", "part")] > 0 => Done("PART_PREPARE_ABORT", t) > 0

\* One decision, for which the participant has voted.
DecisionFlow(t) ==
    /\ t \in commitStarted => Voted(t)
    /\ Todo("COORD_COMMIT", t) + Todo("COORD_ABORT", t) <= 1
    /\ Todo("COORD_COMMIT", t) + Todo("COORD_ABORT", t) > 0 =>
           t \in commitStarted /\ HasWAL(Coord(t), t)
    /\ Done("COORD_COMMIT", t) + Done("COORD_ABORT", t) > 0 => t \in commitStarted
    /\ Todo("COORD_COMMIT", t) + Done("COORD_COMMIT", t) > 0 =>
           Done("PART_PREPARE_COMMIT", t) > 0
    /\ Todo("COORD_ABORT", t) + Done("COORD_ABORT", t) > 0 =>
           Done("PART_PREPARE_ABORT", t) > 0

\* One commit at the participant, and never an abort: what is aborted has
\* been voted down.
OutcomeFlow(t) ==
    /\ Todo("PART_ABORT", t) = 0 /\ Todo("HOLE", t) = 0
    /\ net[DecisionMsg(t, "commit")] + Todo("PART_COMMIT", t) <= 1
    /\ net[DecisionMsg(t, "commit")] + Todo("PART_COMMIT", t) > 0 => Done("COORD_COMMIT", t) > 0
    /\ net[DecisionMsg(t, "abort")] > 0 => Done("COORD_ABORT", t) > 0

Flow(t) == DebitFlow(t) /\ VoteFlow(t) /\ DecisionFlow(t) /\ OutcomeFlow(t)

FlowInv == \A t \in Transfer : Flow(t)

LEMMA MessagesDiffer ==
    ASSUME NEW t, NEW o, NEW s, NEW p, NEW r
    PROVE  /\ PrepareMsg(t).txn = t /\ AckMsg(t).txn = t
           /\ ReplyMsg(t, o, s).txn = t /\ DecisionMsg(t, o).txn = t
           /\ PrepareMsg(t) # AckMsg(t) /\ PrepareMsg(t) # ReplyMsg(t, o, s)
           /\ PrepareMsg(t) # DecisionMsg(t, o) /\ AckMsg(t) # ReplyMsg(t, o, s)
           /\ AckMsg(t) # DecisionMsg(t, o) /\ ReplyMsg(t, o, s) # DecisionMsg(t, p)
           /\ ReplyMsg(t, o, s) = ReplyMsg(t, p, r) <=> o = p /\ s = r
           /\ DecisionMsg(t, o) = DecisionMsg(t, p) <=> o = p
BY DEF PrepareMsg, AckMsg, ReplyMsg, DecisionMsg

\* What the messages of a transfer count.
LEMMA MessageCounts ==
    ASSUME TypeOK, NEW t \in Transfer
    PROVE  /\ net[PrepareMsg(t)] \in Nat /\ preparing[t] \in Nat
           /\ \A o \in Outcome : /\ net[ReplyMsg(t, o, "coord")] \in Nat
                                 /\ net[ReplyMsg(t, o, "part")] \in Nat
                                 /\ net[DecisionMsg(t, o)] \in Nat
BY MessageTypes DEF TypeOK

LEMMA MessagesOf ==
    ASSUME NEW t \in Transfer
    PROVE  /\ PrepareMsg(t) \in Message /\ AckMsg(t) \in Message
           /\ \A o \in {"commit", "abort"} :
                  /\ ReplyMsg(t, o, "coord") \in Message
                  /\ ReplyMsg(t, o, "part") \in Message
                  /\ DecisionMsg(t, o) \in Message
BY MessageTypes DEF Outcome

\* A transfer from which a step only takes something goes on as before.
NothingNew(t) ==
    /\ \A op : Todo(op, t)' <= Todo(op, t)
    /\ \A op : Done(op, t)' = Done(op, t)
    /\ \A m \in Message : m.txn = t => net'[m] <= net[m]
    /\ preparing'[t] = preparing[t]
    /\ watch'[t] = watch[t] \/ watch'[t] = "off"
    /\ t \in commitStarted' <=> t \in commitStarted
    /\ HasWAL(Coord(t), t)' <=> HasWAL(Coord(t), t)
    /\ HasWAL(Part(t), t)' <=> HasWAL(Part(t), t)

LEMMA FlowNothingNew ==
    ASSUME TypeOK, TypeOK', NEW t \in Transfer, Flow(t), NothingNew(t)
    PROVE  Flow(t)'
<1>1. \A op : /\ Todo(op, t) \in Nat /\ Todo(op, t)' \in Nat /\ Done(op, t) \in Nat
              /\ Todo(op, t)' <= Todo(op, t) /\ Done(op, t)' = Done(op, t)
    BY CountTypes, CountTypesNext DEF NothingNew
<1>2. \A m \in Message : net[m] \in Nat /\ net'[m] \in Nat
    BY DEF TypeOK
<1>3. /\ net'[PrepareMsg(t)] <= net[PrepareMsg(t)]
      /\ net[PrepareMsg(t)] \in Nat /\ net'[PrepareMsg(t)] \in Nat
      /\ \A o \in {"commit", "abort"} :
            /\ net'[ReplyMsg(t, o, "coord")] <= net[ReplyMsg(t, o, "coord")]
            /\ net'[ReplyMsg(t, o, "part")] <= net[ReplyMsg(t, o, "part")]
            /\ net'[DecisionMsg(t, o)] <= net[DecisionMsg(t, o)]
            /\ net[ReplyMsg(t, o, "coord")] \in Nat /\ net'[ReplyMsg(t, o, "coord")] \in Nat
            /\ net[ReplyMsg(t, o, "part")] \in Nat /\ net'[ReplyMsg(t, o, "part")] \in Nat
            /\ net[DecisionMsg(t, o)] \in Nat /\ net'[DecisionMsg(t, o)] \in Nat
    BY <1>2, MessagesDiffer, MessagesOf DEF NothingNew
<1>4. preparing[t] \in Nat
    BY DEF TypeOK
<1>5. /\ Voting(t)' <= Voting(t) /\ Voting(t) \in Nat /\ Voting(t)' \in Nat
      /\ InPrepare(t)' <= InPrepare(t) /\ InPrepare(t) \in Nat /\ InPrepare(t)' \in Nat
      /\ Voted(t)' <=> Voted(t)
      /\ Replies(t)' <= Replies(t) /\ Replies(t) \in Nat /\ Replies(t)' \in Nat
    BY <1>1, <1>3, <1>4 DEF Voting, InPrepare, Voted, Replies, NothingNew
<1>6. DebitFlow(t)'
    BY <1>1 DEF NothingNew, Flow, DebitFlow
<1>7. VoteFlow(t)'
    BY <1>1, <1>3, <1>5 DEF NothingNew, Flow, VoteFlow
<1>8. DecisionFlow(t)'
    BY <1>1, <1>5 DEF NothingNew, Flow, DecisionFlow
<1>9. OutcomeFlow(t)'
    BY <1>1, <1>3 DEF NothingNew, Flow, OutcomeFlow
<1>10. QED
    BY <1>6, <1>7, <1>8, <1>9 DEF Flow

LEMMA ElsewhereNothingNew ==
    ASSUME TypeOK, NEW t \in Transfer,
           \A op : \A u \in Transfer : u # t => /\ Todo(op, u)' <= Todo(op, u)
                                                /\ Done(op, u)' = Done(op, u),
           \A m \in Message : m.txn # t => net'[m] = net[m],
           \A u \in Transfer : u # t => /\ preparing'[u] = preparing[u]
                                        /\ watch'[u] = watch[u]
                                        /\ u \in commitStarted' <=> u \in commitStarted,
           \A c \in Cluster, u \in Transfer : u # t => wal'[c][u] = wal[c][u]
    PROVE  \A u \in Transfer : u # t => NothingNew(u)
<1>1. \A m \in Message : net[m] \in Nat
    BY DEF TypeOK
<1>2. QED
    BY <1>1, TransferFields DEF NothingNew, HasWAL

LEMMA FlowStep ==
    ASSUME TypeOK, TypeOK', FlowInv, NEW t \in Transfer, Flow(t)',
           \A u \in Transfer : u # t => NothingNew(u)
    PROVE  FlowInv'
BY FlowNothingNew DEF FlowInv

LEMMA FlowQuiet ==
    ASSUME TypeOK, TypeOK', FlowInv,
           \A op : \A u \in Transfer : Todo(op, u)' <= Todo(op, u),
           UNCHANGED <<wal, datastore, commitStarted, watch, preparing, net>>
    PROVE  FlowInv'
<1>1. \A u \in Transfer : NothingNew(u)
    <2>1. \A m \in Message : net'[m] <= net[m]
        BY DEF TypeOK
    <2>2. QED
        BY <2>1, RecordsUnchanged DEF NothingNew, HasWAL, DoneSame
<1>2. QED
    BY <1>1, FlowNothingNew DEF FlowInv

LEMMA SentCounts ==
    ASSUME TypeOK, NEW m \in Message, net' = Sent(m)
    PROVE  /\ net'[m] = net[m] + 1
           /\ \A n \in Message : n # m => net'[n] = net[n]
BY DEF TypeOK, Sent

LEMMA ReceivedCounts ==
    ASSUME TypeOK, NEW m \in Message, net' = Received(m)
    PROVE  /\ net'[m] = net[m] - 1
           /\ \A n \in Message : n # m => net'[n] = net[n]
BY DEF TypeOK, Received

\* What is counted of a transfer, as natural numbers.
LEMMA CountsOf ==
    ASSUME TypeOK, NEW t \in Transfer
    PROVE  /\ \A op : Todo(op, t) \in Nat /\ Done(op, t) \in Nat
           /\ net[PrepareMsg(t)] \in Nat /\ preparing[t] \in Nat
           /\ net[ReplyMsg(t, "commit", "coord")] \in Nat
           /\ net[ReplyMsg(t, "abort", "coord")] \in Nat
           /\ net[ReplyMsg(t, "commit", "part")] \in Nat
           /\ net[ReplyMsg(t, "abort", "part")] \in Nat
           /\ net[DecisionMsg(t, "commit")] \in Nat
           /\ net[DecisionMsg(t, "abort")] \in Nat
           /\ Voting(t) \in Nat /\ InPrepare(t) \in Nat /\ Replies(t) \in Nat
<1>1. "commit" \in Outcome /\ "abort" \in Outcome
    BY DEF Outcome
<1>2. /\ \A op : Todo(op, t) \in Nat /\ Done(op, t) \in Nat
      /\ net[PrepareMsg(t)] \in Nat /\ preparing[t] \in Nat
      /\ net[ReplyMsg(t, "commit", "coord")] \in Nat
      /\ net[ReplyMsg(t, "abort", "coord")] \in Nat
      /\ net[ReplyMsg(t, "commit", "part")] \in Nat
      /\ net[ReplyMsg(t, "abort", "part")] \in Nat
      /\ net[DecisionMsg(t, "commit")] \in Nat
      /\ net[DecisionMsg(t, "abort")] \in Nat
    BY <1>1, MessageCounts, CountTypes
<1>3. QED
    BY <1>2 DEF Voting, InPrepare, Replies

-----------------------------------------------------------------------------
(***************************************************************************)
(* The steps of the coordinator's clients and of the ingress loop.         *)
(***************************************************************************)
\* The handler has the cross-shard slot, so there is no other prepare.
LEMMA StartIsAlone ==
    ASSUME TypeOK, SlotInv, NEW t \in Transfer, NEW k \in Handler, StartPrepare(t, k)
    PROVE  Todo("COORD_PREPARE", t) = 0
<1>0. Coord(t) \in Cluster /\ HomeOf(Op("COORD_PREPARE", t)) = Coord(t)
    BY TransferFields, OperationNames DEF CoordOp
<1>1. Prepares(Coord(t)) = 0
    BY <1>0 DEF SlotInv, Waits, StartPrepare
<1>2. Op("COORD_PREPARE", t) \in CoordPrepares
    BY DEF CoordPrepares
<1>3. Live(Coord(t), {Op("COORD_PREPARE", t)}) = 0
    BY <1>0, <1>1, <1>2, LiveType DEF Prepares
<1>4. QED
    BY <1>0, <1>3 DEF Todo

\* StartPrepare comes before any debit and has no other copy.
LEMMA StartIsFirst ==
    ASSUME TypeOK, SlotInv, FlowInv, NEW t \in Transfer, NEW k \in Handler,
           StartPrepare(t, k), HasWAL(Coord(t), t) => lock[t.x] = t
    PROVE  Todo("COORD_PREPARE", t) = 0 /\ Done("COORD_PREPARE", t) = 0
<1>1. Todo("COORD_PREPARE", t) = 0
    BY StartIsAlone
<1>2. Done("COORD_PREPARE", t) = 0
    <2>1. t \notin commitStarted /\ lock[t.x] = NoTransfer
        BY DEF StartPrepare, StartableByClient
    <2>2. ~HasWAL(Coord(t), t)
        BY <2>1, TransferAssumption
    <2>3. Done("COORD_COMMIT", t) = 0 /\ Done("COORD_ABORT", t) = 0
        BY <2>1, CountsOf DEF FlowInv, Flow, DecisionFlow
    <2>4. QED
        BY <2>2, <2>3, CountsOf DEF FlowInv, Flow, DebitFlow
<1>3. QED
    BY <1>1, <1>2

LEMMA StartPrepareMoves ==
    ASSUME TypeOK, TypeOK', NEW t \in Transfer, NEW k \in Handler, StartPrepare(t, k)
    PROVE  TodoMore("COORD_PREPARE", t) /\ AgreedSame
<1>1. /\ Op("COORD_PREPARE", t) \in Operation
      /\ HomeOf(Op("COORD_PREPARE", t)) = Coord(t)
    BY OperationTypes, OperationNames DEF CoordOp
<1>2. Submits(HomeOf(Op("COORD_PREPARE", t)), Op("COORD_PREPARE", t))
    BY <1>1 DEF StartPrepare, Submits
<1>3. QED
    BY <1>1, <1>2, Submitted

LEMMA FlowClients ==
    ASSUME TypeOK, TypeOK', SlotInv, FlowInv, NEW t \in Transfer, NEW k \in Handler,
           HasWAL(Coord(t), t) => lock[t.x] = t,
           Submit(t, k) \/ ClientHandler(t, k)
    PROVE  FlowInv'
<1>1. CASE StartPrepare(t, k)
    <2>1. UNCHANGED <<wal, datastore, commitStarted, watch, preparing, net>>
        BY <1>1 DEF StartPrepare, storeVars
    <2>2. DoneSame
        BY <2>1, RecordsUnchanged
    <2>3. TodoMore("COORD_PREPARE", t)
        BY <1>1, StartPrepareMoves
    <2>4. \A u \in Transfer : u # t => NothingNew(u)
        <3>1. \A op : \A u \in Transfer : u # t => Todo(op, u)' = Todo(op, u)
                                                   /\ Todo(op, u) \in Nat
            BY <2>3, CountTypes DEF TodoMore
        <3>2. QED
            BY <2>1, <2>2, <3>1, ElsewhereNothingNew DEF DoneSame
    <2>5. Todo("COORD_PREPARE", t) = 0 /\ Done("COORD_PREPARE", t) = 0
        BY <1>1, StartIsFirst
    <2>6. \A op : Done(op, t)' = Done(op, t)
        BY <2>2 DEF DoneSame
    <2>7. \A op : op # "COORD_PREPARE" => Todo(op, t)' = Todo(op, t)
        BY <2>3 DEF TodoMore
    <2>8. Todo("COORD_PREPARE", t)' = 1
        BY <2>3, <2>5 DEF TodoMore
    <2>9. Flow(t)
        BY DEF FlowInv
    <2>10. DebitFlow(t)'
        BY <2>1, <2>5, <2>6, <2>8, <2>9 DEF Flow, DebitFlow, HasWAL
    <2>11. VoteFlow(t)'
        <3>1. /\ Voting(t)' = Voting(t) /\ InPrepare(t)' = InPrepare(t)
              /\ Voted(t)' <=> Voted(t)
              /\ Replies(t)' = Replies(t)
            BY <2>1, <2>6, <2>7 DEF Voting, InPrepare, Voted, Replies
        <3>2. HasWAL(Part(t), t)' <=> HasWAL(Part(t), t)
            BY <2>1 DEF HasWAL
        <3>3. QED
            BY <2>1, <2>6, <2>9, <3>1, <3>2 DEF Flow, VoteFlow
    <2>12. DecisionFlow(t)'
        BY <2>1, <2>6, <2>7, <2>9 DEF Flow, DecisionFlow, HasWAL, Voted
    <2>13. OutcomeFlow(t)'
        BY <2>1, <2>6, <2>7, <2>9 DEF Flow, OutcomeFlow
    <2>14. QED
        BY <2>4, <2>10, <2>11, <2>12, <2>13, FlowStep DEF Flow
<1>2. CASE Submit(t, k) \/ AcquireCrossSlot(t, k) \/ CrossSlotExpires(t, k)
               \/ DropClientRequest(t, k)
    <2>1. /\ UNCHANGED <<clientQueue, internalQueue, starting, inflight>>
          /\ UNCHANGED <<wal, datastore, commitStarted, watch, preparing, net>>
        BY <1>2 DEF Submit, AcquireCrossSlot, CrossSlotExpires, DropClientRequest, engineVars,
                    storeVars
    <2>2. \A op : \A u \in Transfer : Todo(op, u)' <= Todo(op, u)
        BY <2>1, QueuesUnchanged, CountTypes DEF TodoSame
    <2>3. QED
        BY <2>1, <2>2, FlowQuiet
<1>3. QED
    BY <1>1, <1>2 DEF ClientHandler

\* No sequence number is burnt.
LEMMA NothingBurnt ==
    ASSUME TypeOK, HomeInv, FlowInv, NEW c \in Cluster
    PROVE  ~BurnSequence(c)
<1> SUFFICES ASSUME NEW e \in Operation, starting[c] = <<e>>, ~LocksHeld(e)
             PROVE  FALSE
    BY DEF BurnSequence
<1>1. e.op = "PART_ABORT"
    BY DEF LocksHeld
<1>2. e.txn \in Transfer /\ Todo(e.op, e.txn) > 0
    BY Starting
<1>3. QED
    BY <1>1, <1>2 DEF FlowInv, Flow, OutcomeFlow

LEMMA FlowIngress ==
    ASSUME TypeOK, TypeOK', HomeInv, FlowInv, NEW c \in Cluster, Ingress(c)
    PROVE  FlowInv'
<1>1. UNCHANGED <<wal, datastore, commitStarted, watch, preparing, net>>
    BY NothingBurnt DEF Ingress, Take, Propose, Refuse, storeVars, coordVars
<1>2. SUFFICES \A op : \A u \in Transfer : Todo(op, u)' <= Todo(op, u)
    BY <1>1, FlowQuiet
<1>3. CASE Take(c)
    <2>1. \A op : \A u \in Transfer : Todo(op, u)' = Todo(op, u)
        BY <1>3, TakeMoves, HomesAreClusters DEF Todo
    <2>2. QED
        BY <2>1, CountTypes
<1>4. CASE Propose(c)
    <2>1. \E e \in Operation : Proposes(c, e, e)
        BY <1>4 DEF Propose, Proposes
    <2>2. TodoSame
        BY <2>1, Proposed
    <2>3. QED
        BY <2>2, CountTypes DEF TodoSame
<1>5. CASE Refuse(c)
    <2>1. \E e \in Operation : Refuses(c, e)
        BY <1>5 DEF Refuse, Refuses
    <2>2. QED
        BY <2>1, Refused
<1>6. QED
    BY <1>3, <1>4, <1>5, NothingBurnt DEF Ingress

LEMMA FlowReclaim ==
    ASSUME TypeOK, TypeOK', HomeInv, FlowInv, NEW c \in Cluster, Reclaim(c)
    PROVE  FlowInv'
<1>1. PICK i \in DOMAIN inflight[c] : Reclaims(c, i)
    BY DEF Reclaim, Reclaims
<1>2. UNCHANGED <<wal, datastore, commitStarted, watch, preparing, net>>
    BY DEF Reclaim
<1>3. PICK op, t : t \in Transfer /\ TodoLess(op, t)
    BY <1>1, Reclaimed
<1>4. \A p : \A u \in Transfer : Todo(p, u)' <= Todo(p, u)
    BY <1>3, CountTypes, CountTypesNext DEF TodoLess
<1>5. QED
    BY <1>2, <1>4, FlowQuiet

-----------------------------------------------------------------------------
(***************************************************************************)
(* Execution.                                                              *)
(***************************************************************************)
LEMMA CoordPrepareMoves ==
    ASSUME TypeOK, TypeOK', NEW t \in Transfer, ExecuteCoordPrepare(t)
    PROVE  TodoLess("COORD_PREPARE", t) /\ AgreedLess("COORD_PREPARE", t)
<1>1. HomeOf(Op("COORD_PREPARE", t)) = Coord(t)
    BY OperationNames DEF CoordOp
<1>2. ExecutesNext(HomeOf(Op("COORD_PREPARE", t)), Op("COORD_PREPARE", t))
    BY <1>1 DEF ExecuteCoordPrepare
<1>3. QED
    BY <1>2, Executed

LEMMA FlowCoordPrepare ==
    ASSUME TypeOK, TypeOK', FlowInv, NEW t \in Transfer, ExecuteCoordPrepare(t)
    PROVE  FlowInv'
<1>1. TodoLess("COORD_PREPARE", t)
    BY CoordPrepareMoves
<1>2. \A op : \A u \in Transfer : u # t => Todo(op, u)' <= Todo(op, u)
    BY <1>1, CountTypes DEF TodoLess
<1>3. UNCHANGED <<commitStarted, preparing>>
    BY DEF ExecuteCoordPrepare
<1>4. CASE bal[t.x] >= t.amt
    <2>1. /\ datastore' = Appended(Coord(t), Op("COORD_PREPARE", t))
          /\ wal' = [wal EXCEPT ![Coord(t)][t] = bal[t.x]]
          /\ watch' = [watch EXCEPT ![t] = "preparing"]
          /\ net' = Sent(PrepareMsg(t))
        BY <1>4 DEF ExecuteCoordPrepare
    <2>2. DoneMore("COORD_PREPARE", t)
        <3>1. /\ HomeOf(Op("COORD_PREPARE", t)) = Coord(t)
              /\ Op("COORD_PREPARE", t) \in Operation
            BY OperationNames, OperationTypes DEF CoordOp
        <3>2. QED
            BY <2>1, <3>1, AppendedRecord
    <2>3. /\ net'[PrepareMsg(t)] = net[PrepareMsg(t)] + 1
          /\ \A n \in Message : n # PrepareMsg(t) => net'[n] = net[n]
        BY <2>1, MessagesOf, SentCounts
    <2>4. \A u \in Transfer : u # t => NothingNew(u)
        <3>1. \A op : \A u \in Transfer : u # t => Done(op, u)' = Done(op, u)
            BY <2>2 DEF DoneMore
        <3>2. \A m \in Message : m.txn # t => net'[m] = net[m]
            BY <2>3, MessagesDiffer
        <3>3. \A u \in Transfer : u # t => watch'[u] = watch[u]
            BY <2>1 DEF TypeOK
        <3>4. \A c \in Cluster, u \in Transfer : u # t => wal'[c][u] = wal[c][u]
            BY <2>1, WALType
        <3>5. QED
            BY <1>2, <1>3, <3>1, <3>2, <3>3, <3>4, ElsewhereNothingNew
    <2>5. Flow(t)
        BY DEF FlowInv
    <2>6. /\ watch'[t] = "preparing"
          /\ HasWAL(Coord(t), t)'
          /\ HasWAL(Part(t), t)' <=> HasWAL(Part(t), t)
        <3>1. Coord(t) \in Cluster /\ Part(t) \in Cluster /\ Coord(t) # Part(t)
            BY TransferFields, OperationNames
        <3>2. bal[t.x] \in Nat
            BY TransferFields DEF TypeOK
        <3>3. wal'[Coord(t)][t] = bal[t.x] /\ wal'[Part(t)][t] = wal[Part(t)][t]
            BY <2>1, <3>1, WALType
        <3>4. wal'[Coord(t)][t] # NoPreimage
            BY <3>2, <3>3 DEF NoPreimage
        <3>5. watch'[t] = "preparing"
            BY <2>1 DEF TypeOK
        <3>6. QED
            BY <3>3, <3>4, <3>5 DEF HasWAL
    <2>7. Todo("COORD_PREPARE", t)' = 0 /\ Done("COORD_PREPARE", t) = 0
        BY <1>1, <2>5, CountsOf, CountTypesNext DEF TodoLess, Flow, DebitFlow
    <2>8. Done("COORD_PREPARE", t)' = 1
        BY <2>2, <2>7 DEF DoneMore
    <2>9. /\ \A op : op # "COORD_PREPARE" => Todo(op, t)' = Todo(op, t)
          /\ \A op : op # "COORD_PREPARE" => Done(op, t)' = Done(op, t)
        BY <1>1, <2>2 DEF TodoLess, DoneMore
    \* What is not debited has nothing else.
    <2>10. ~Voted(t) /\ InPrepare(t) = 0 /\ t \notin commitStarted
        BY <2>5, <2>7, CountsOf DEF Flow, VoteFlow, DecisionFlow
    <2>11. /\ Todo("COORD_COMMIT", t) = 0 /\ Todo("COORD_ABORT", t) = 0
           /\ Done("COORD_COMMIT", t) = 0 /\ Done("COORD_ABORT", t) = 0
        BY <2>5, <2>10, CountsOf DEF Flow, DecisionFlow
    <2>12. /\ Voting(t)' = Voting(t) /\ InPrepare(t)' = InPrepare(t) + 1
           /\ Voted(t)' <=> Voted(t)
           /\ Replies(t)' = Replies(t)
        BY <1>3, <2>3, <2>9, MessagesOf, MessagesDiffer, CountsOf
           DEF Voting, InPrepare, Voted, Replies
    <2>13. /\ net'[ReplyMsg(t, "commit", "part")] = net[ReplyMsg(t, "commit", "part")]
           /\ net'[ReplyMsg(t, "abort", "part")] = net[ReplyMsg(t, "abort", "part")]
           /\ net'[DecisionMsg(t, "commit")] = net[DecisionMsg(t, "commit")]
           /\ net'[DecisionMsg(t, "abort")] = net[DecisionMsg(t, "abort")]
        BY <2>3, MessagesOf, MessagesDiffer
    <2>14. DebitFlow(t)'
        BY <2>6, <2>7, <2>8, <2>9, <2>11 DEF DebitFlow
    <2>15. VoteFlow(t)'
        BY <1>3, <2>5, <2>6, <2>8, <2>9, <2>10, <2>12, <2>13 DEF Flow, VoteFlow
    <2>16. DecisionFlow(t)'
        BY <1>3, <2>6, <2>9, <2>10, <2>11 DEF DecisionFlow
    <2>17. OutcomeFlow(t)'
        BY <2>5, <2>9, <2>13 DEF Flow, OutcomeFlow
    <2>18. QED
        BY <2>4, <2>14, <2>15, <2>16, <2>17, FlowStep DEF Flow
<1>5. CASE ~(bal[t.x] >= t.amt)
    <2>1. UNCHANGED <<wal, datastore, watch, net>>
        BY <1>5 DEF ExecuteCoordPrepare
    <2>2. \A op : \A u \in Transfer : Todo(op, u)' <= Todo(op, u)
        BY <1>1, CountTypes, CountTypesNext DEF TodoLess
    <2>3. QED
        BY <1>3, <2>1, <2>2, FlowQuiet
<1>6. QED
    BY <1>4, <1>5

\* The vote of the participant executes and is sent as reply o.
LEMMA FlowVote ==
    ASSUME TypeOK, TypeOK', FlowInv, NEW t \in Transfer, NEW o \in Outcome, NEW op,
           op = IF o = "commit" THEN "PART_PREPARE_COMMIT" ELSE "PART_PREPARE_ABORT",
           TodoLess(op, t), DoneMore(op, t), net' = Sent(ReplyMsg(t, o, "part")),
           UNCHANGED <<commitStarted, watch, preparing>>,
           \A c \in Cluster, u \in Transfer :
               c # Part(t) \/ u # t \/ o = "abort" => wal'[c][u] = wal[c][u]
    PROVE  FlowInv'
<1>1. /\ net'[ReplyMsg(t, o, "part")] = net[ReplyMsg(t, o, "part")] + 1
      /\ \A n \in Message : n # ReplyMsg(t, o, "part") => net'[n] = net[n]
    BY MessagesOf, SentCounts DEF Outcome
<1>2. \A u \in Transfer : u # t => NothingNew(u)
    <2>1. \A p : \A u \in Transfer : u # t => /\ Todo(p, u)' <= Todo(p, u)
                                              /\ Done(p, u)' = Done(p, u)
        BY CountTypes DEF TodoLess, DoneMore
    <2>2. \A m \in Message : m.txn # t => net'[m] = net[m]
        BY <1>1, MessagesDiffer
    <2>3. QED
        BY <2>1, <2>2, ElsewhereNothingNew
<1>3. Flow(t)
    BY DEF FlowInv
<1>4. /\ HasWAL(Coord(t), t)' <=> HasWAL(Coord(t), t)
      /\ o = "abort" => (HasWAL(Part(t), t)' <=> HasWAL(Part(t), t))
    BY TransferFields, OperationNames DEF HasWAL
<1>5. /\ \A p : p # op => Todo(p, t)' = Todo(p, t) /\ Done(p, t)' = Done(p, t)
      /\ Todo(op, t) = Todo(op, t)' + 1 /\ Done(op, t)' = Done(op, t) + 1
      /\ \A p : Todo(p, t)' \in Nat
    BY CountTypesNext DEF TodoLess, DoneMore
<1>6. Voting(t) = 1 /\ InPrepare(t) = 1 /\ Todo(op, t) = 1
    BY <1>3, <1>5, CountsOf DEF Flow, VoteFlow, InPrepare, Voting
<1>7. /\ ~Voted(t) /\ Replies(t) = 0 /\ t \notin commitStarted
      /\ Done("COORD_PREPARE", t) > 0 /\ ~HasWAL(Part(t), t)
    BY <1>3, <1>6, CountsOf DEF Flow, VoteFlow, DecisionFlow, Voted, Replies
<1>8. /\ Todo("COORD_COMMIT", t) = 0 /\ Todo("COORD_ABORT", t) = 0
      /\ Done("COORD_COMMIT", t) = 0 /\ Done("COORD_ABORT", t) = 0
    BY <1>3, <1>7, CountsOf DEF Flow, DecisionFlow
<1>9. /\ net'[PrepareMsg(t)] = net[PrepareMsg(t)]
      /\ net'[ReplyMsg(t, "commit", "coord")] = net[ReplyMsg(t, "commit", "coord")]
      /\ net'[ReplyMsg(t, "abort", "coord")] = net[ReplyMsg(t, "abort", "coord")]
      /\ net'[DecisionMsg(t, "commit")] = net[DecisionMsg(t, "commit")]
      /\ net'[DecisionMsg(t, "abort")] = net[DecisionMsg(t, "abort")]
    BY <1>1, MessagesOf, MessagesDiffer
<1>10. Voting(t)' = 0 /\ InPrepare(t)' = 0
    <2>1. preparing'[t] = preparing[t]
        OBVIOUS
    <2>2. Todo("PART_PREPARE_COMMIT", t)' + Todo("PART_PREPARE_ABORT", t)' + 1
              = Todo("PART_PREPARE_COMMIT", t) + Todo("PART_PREPARE_ABORT", t)
        <3>1. CASE o = "commit"
            BY <1>5, <3>1, CountsOf
        <3>2. CASE o = "abort"
            BY <1>5, <3>2, CountsOf
        <3>3. QED
            BY <3>1, <3>2 DEF Outcome
    <2>3. Voting(t)' = 0
        BY <1>5, <1>6, <2>1, <2>2, CountsOf DEF Voting
    <2>4. /\ net[PrepareMsg(t)] = 0
          /\ net[ReplyMsg(t, "commit", "coord")] = 0 /\ net[ReplyMsg(t, "abort", "coord")] = 0
        BY <1>6, CountsOf DEF InPrepare
    <2>5. QED
        BY <1>9, <2>3, <2>4 DEF InPrepare
<1>11. DebitFlow(t)'
    BY <1>3, <1>4, <1>5 DEF Flow, DebitFlow
<1>12. VoteFlow(t)'
    <2>1. Done("PART_PREPARE_COMMIT", t) = 0 /\ Done("PART_PREPARE_ABORT", t) = 0
        BY <1>7, CountsOf DEF Voted
    <2>2. /\ net[ReplyMsg(t, "commit", "part")] = 0
          /\ net[ReplyMsg(t, "abort", "part")] = 0
        BY <1>7, CountsOf DEF Replies
    <2>3. CASE o = "commit"
        <3>1. /\ net'[ReplyMsg(t, "commit", "part")] = 1
              /\ net'[ReplyMsg(t, "abort", "part")] = 0
            BY <1>1, <2>2, <2>3, MessagesOf, MessagesDiffer
        <3>2. Done("PART_PREPARE_COMMIT", t)' = 1 /\ Done("PART_PREPARE_ABORT", t)' = 0
            BY <1>5, <2>1, <2>3
        <3>3. QED
            BY <1>5, <1>7, <1>10, <2>3, <3>1, <3>2 DEF VoteFlow, Replies
    <2>4. CASE o = "abort"
        <3>1. /\ net'[ReplyMsg(t, "abort", "part")] = 1
              /\ net'[ReplyMsg(t, "commit", "part")] = 0
            BY <1>1, <2>2, <2>4, MessagesOf, MessagesDiffer
        <3>2. Done("PART_PREPARE_ABORT", t)' = 1 /\ Done("PART_PREPARE_COMMIT", t)' = 0
            BY <1>5, <2>1, <2>4
        <3>3. QED
            BY <1>4, <1>5, <1>7, <1>10, <2>4, <3>1, <3>2 DEF VoteFlow, Replies
    <2>5. QED
        BY <2>3, <2>4 DEF Outcome
<1>13. DecisionFlow(t)'
    BY <1>5, <1>7, <1>8 DEF DecisionFlow
<1>14. OutcomeFlow(t)'
    BY <1>3, <1>5, <1>9 DEF Flow, OutcomeFlow
<1>15. QED
    BY <1>2, <1>11, <1>12, <1>13, <1>14, FlowStep DEF Flow

LEMMA VoteMoves ==
    ASSUME TypeOK, TypeOK', NEW t \in Transfer, NEW op \in PartOp,
           ExecutesNext(Part(t), Op(op, t)), datastore' = Appended(Part(t), Op(op, t))
    PROVE  TodoLess(op, t) /\ AgreedLess(op, t) /\ DoneMore(op, t)
<1>1. HomeOf(Op(op, t)) = Part(t) /\ Op(op, t) \in Operation
    BY OperationNames, OperationTypes
<1>2. QED
    BY <1>1, Executed, AppendedRecord

LEMMA FlowPartPrepare ==
    ASSUME TypeOK, TypeOK', FlowInv, NEW t \in Transfer,
           ExecutePartPrepareCommit(t) \/ ExecutePartPrepareAbort(t)
    PROVE  FlowInv'
<1>1. "PART_PREPARE_COMMIT" \in PartOp /\ "PART_PREPARE_ABORT" \in PartOp
    BY DEF PartOp
<1>2. "commit" \in Outcome /\ "abort" \in Outcome
    BY DEF Outcome
<1>3. CASE ExecutePartPrepareCommit(t)
    <2>1. /\ ExecutesNext(Part(t), Op("PART_PREPARE_COMMIT", t))
          /\ datastore' = Appended(Part(t), Op("PART_PREPARE_COMMIT", t))
          /\ net' = Sent(ReplyMsg(t, "commit", "part"))
          /\ UNCHANGED <<commitStarted, watch, preparing>>
        BY <1>3 DEF ExecutePartPrepareCommit, coordVars
    <2>2. wal' = wal \/ \E n : wal' = [wal EXCEPT ![Part(t)][t] = n]
        BY <1>3 DEF ExecutePartPrepareCommit
    <2>3. \A c \in Cluster, u \in Transfer : c # Part(t) \/ u # t => wal'[c][u] = wal[c][u]
        <3>1. wal \in [Cluster -> [Transfer -> Nat \cup {NoPreimage}]]
            BY DEF TypeOK
        <3>2. ASSUME NEW n, wal' = [wal EXCEPT ![Part(t)][t] = n],
                     NEW c \in Cluster, NEW u \in Transfer, c # Part(t) \/ u # t
              PROVE  wal'[c][u] = wal[c][u]
            BY <3>1, <3>2
        <3>3. QED
            BY <2>2, <3>2
    <2>4. TodoLess("PART_PREPARE_COMMIT", t) /\ DoneMore("PART_PREPARE_COMMIT", t)
        BY <1>1, <2>1, VoteMoves
    <2>5. QED
        BY <1>2, <2>1, <2>3, <2>4, FlowVote
<1>4. CASE ExecutePartPrepareAbort(t)
    <2>1. /\ ExecutesNext(Part(t), Op("PART_PREPARE_ABORT", t))
          /\ datastore' = Appended(Part(t), Op("PART_PREPARE_ABORT", t))
          /\ net' = Sent(ReplyMsg(t, "abort", "part"))
          /\ UNCHANGED <<commitStarted, watch, preparing, wal>>
        BY <1>4 DEF ExecutePartPrepareAbort, coordVars
    <2>2. TodoLess("PART_PREPARE_ABORT", t) /\ DoneMore("PART_PREPARE_ABORT", t)
        BY <1>1, <2>1, VoteMoves
    <2>3. QED
        BY <1>2, <2>1, <2>2, FlowVote
<1>5. QED
    BY <1>3, <1>4

LEMMA SettleMoves ==
    ASSUME TypeOK, TypeOK', NEW t \in Transfer, NEW op, NEW c \in Cluster, NEW i,
           c = HomeOf(Op(op, t)), Op(op, t) \in Operation, Settles(c, Op(op, t), i)
    PROVE  /\ TodoLess(op, t) /\ AgreedLess(op, t) /\ DoneMore(op, t)
           /\ wal'[c][t] = NoPreimage
           /\ \A d \in Cluster, u \in Transfer : d # c \/ u # t => wal'[d][u] = wal[d][u]
<1>1. /\ ExecutesNext(HomeOf(Op(op, t)), Op(op, t))
      /\ datastore' = Appended(HomeOf(Op(op, t)), Op(op, t))
    BY DEF Settles
<1>2. wal' = [wal EXCEPT ![c][t] = NoPreimage]
    BY OperationNames DEF Settles
<1>3. TodoLess(op, t) /\ AgreedLess(op, t)
    BY <1>1, Executed
<1>4. DoneMore(op, t)
    BY <1>1, AppendedRecord
<1>5. wal'[c][t] = NoPreimage
    BY <1>2, WALType
<1>6. ASSUME NEW d \in Cluster, NEW u \in Transfer, d # c \/ u # t
      PROVE  wal'[d][u] = wal[d][u]
    BY <1>2, <1>6, WALType
<1>7. QED
    BY <1>3, <1>4, <1>5, <1>6

LEMMA DecisionMoves ==
    ASSUME TypeOK, TypeOK', NEW t \in Transfer, NEW o \in Outcome, ExecuteDecision(t, o)
    PROVE  /\ TodoLess(CoordOpFor(o), t) /\ AgreedLess(CoordOpFor(o), t)
           /\ DoneMore(CoordOpFor(o), t)
           /\ wal'[Coord(t)][t] = NoPreimage
           /\ \A d \in Cluster, u \in Transfer : d # Coord(t) \/ u # t => wal'[d][u] = wal[d][u]
<1>1. /\ Coord(t) \in Cluster /\ Coord(t) = HomeOf(Op(CoordOpFor(o), t))
      /\ Op(CoordOpFor(o), t) \in Operation
    BY TransferFields, OperationNames, OperationTypes
<1>2. Settles(Coord(t), Op(CoordOpFor(o), t), t.x)
    BY DEF ExecuteDecision
<1>3. QED
    BY <1>1, <1>2, SettleMoves

LEMMA OutcomeMoves ==
    ASSUME TypeOK, TypeOK', NEW t \in Transfer, NEW o \in Outcome, ExecuteOutcome(t, o)
    PROVE  /\ TodoLess(PartOpFor(o), t) /\ AgreedLess(PartOpFor(o), t)
           /\ DoneMore(PartOpFor(o), t)
           /\ wal'[Part(t)][t] = NoPreimage
           /\ \A d \in Cluster, u \in Transfer : d # Part(t) \/ u # t => wal'[d][u] = wal[d][u]
<1>1. /\ Part(t) \in Cluster /\ Part(t) = HomeOf(Op(PartOpFor(o), t))
      /\ Op(PartOpFor(o), t) \in Operation
    BY TransferFields, OperationNames, OperationTypes
<1>2. Settles(Part(t), Op(PartOpFor(o), t), t.y)
    BY DEF ExecuteOutcome
<1>3. QED
    BY <1>1, <1>2, SettleMoves

LEMMA FlowDecision ==
    ASSUME TypeOK, TypeOK', FlowInv, NEW t \in Transfer, NEW o \in Outcome,
           ExecuteDecision(t, o)
    PROVE  FlowInv'
<1> DEFINE op == CoordOpFor(o)
<1>1. /\ TodoLess(op, t) /\ DoneMore(op, t)
      /\ wal'[Coord(t)][t] = NoPreimage
      /\ \A d \in Cluster, u \in Transfer : d # Coord(t) \/ u # t => wal'[d][u] = wal[d][u]
    BY DecisionMoves
<1>2. /\ net' = Sent(DecisionMsg(t, o))
      /\ UNCHANGED <<commitStarted, watch, preparing>>
    BY DEF ExecuteDecision, coordVars
<1>3. op = IF o = "commit" THEN "COORD_COMMIT" ELSE "COORD_ABORT"
    BY DEF CoordOpFor
<1> HIDE DEF op
<1>4. /\ net'[DecisionMsg(t, o)] = net[DecisionMsg(t, o)] + 1
      /\ \A n \in Message : n # DecisionMsg(t, o) => net'[n] = net[n]
    BY <1>2, MessagesOf, SentCounts DEF Outcome
<1>5. \A u \in Transfer : u # t => NothingNew(u)
    <2>1. \A p : \A u \in Transfer : u # t => /\ Todo(p, u)' <= Todo(p, u)
                                              /\ Done(p, u)' = Done(p, u)
        BY <1>1, CountTypes DEF TodoLess, DoneMore
    <2>2. \A m \in Message : m.txn # t => net'[m] = net[m]
        BY <1>4, MessagesDiffer
    <2>3. QED
        BY <1>1, <1>2, <2>1, <2>2, ElsewhereNothingNew
<1>6. Flow(t)
    BY DEF FlowInv
<1>7. /\ \A p : p # op => Todo(p, t)' = Todo(p, t) /\ Done(p, t)' = Done(p, t)
      /\ Todo(op, t) = Todo(op, t)' + 1 /\ Done(op, t)' = Done(op, t) + 1
      /\ \A p : Todo(p, t)' \in Nat
    BY <1>1, CountTypesNext DEF TodoLess, DoneMore
<1>8. /\ ~HasWAL(Coord(t), t)'
      /\ HasWAL(Part(t), t)' <=> HasWAL(Part(t), t)
    BY <1>1, TransferFields, OperationNames DEF HasWAL
<1>9. CASE o = "commit"
    <2>1. op = "COORD_COMMIT"
        BY <1>3, <1>9
    <2>2. /\ Todo("COORD_COMMIT", t) = 1 /\ Todo("COORD_ABORT", t) = 0
          /\ t \in commitStarted /\ HasWAL(Coord(t), t)
          /\ Done("PART_PREPARE_COMMIT", t) > 0
        BY <1>6, <1>7, <2>1, CountsOf DEF Flow, DecisionFlow
    <2>3. /\ Done("COORD_COMMIT", t) = 0 /\ Done("COORD_ABORT", t) = 0
          /\ Done("COORD_PREPARE", t) > 0
        BY <1>6, <2>2 DEF Flow, DebitFlow
    <2>4. Todo("COORD_COMMIT", t)' = 0 /\ Done("COORD_COMMIT", t)' = 1
        BY <1>7, <2>1, <2>2, <2>3
    <2>5. /\ net[DecisionMsg(t, "commit")] + Todo("PART_COMMIT", t) = 0
          /\ net[DecisionMsg(t, "abort")] = 0
        BY <1>6, <2>3, CountsOf DEF Flow, OutcomeFlow
    <2>6. /\ net'[DecisionMsg(t, "commit")] = net[DecisionMsg(t, "commit")] + 1
          /\ net'[DecisionMsg(t, "abort")] = net[DecisionMsg(t, "abort")]
          /\ net'[PrepareMsg(t)] = net[PrepareMsg(t)]
          /\ net'[ReplyMsg(t, "commit", "coord")] = net[ReplyMsg(t, "commit", "coord")]
          /\ net'[ReplyMsg(t, "abort", "coord")] = net[ReplyMsg(t, "abort", "coord")]
          /\ net'[ReplyMsg(t, "commit", "part")] = net[ReplyMsg(t, "commit", "part")]
          /\ net'[ReplyMsg(t, "abort", "part")] = net[ReplyMsg(t, "abort", "part")]
        BY <1>4, <1>9, MessagesOf, MessagesDiffer
    <2>7. /\ Voting(t)' = Voting(t) /\ InPrepare(t)' = InPrepare(t)
          /\ Voted(t)' <=> Voted(t)
          /\ Replies(t)' = Replies(t)
        BY <1>2, <1>7, <2>1, <2>6 DEF Voting, InPrepare, Voted, Replies
    <2>8. DebitFlow(t)'
        BY <1>2, <1>6, <1>7, <1>8, <2>1, <2>4 DEF Flow, DebitFlow
    <2>9. VoteFlow(t)'
        BY <1>2, <1>6, <1>7, <1>8, <2>1, <2>6, <2>7 DEF Flow, VoteFlow
    <2>10. DecisionFlow(t)'
        BY <1>2, <1>6, <1>7, <2>1, <2>2, <2>3, <2>4, <2>7 DEF Flow, DecisionFlow
    <2>11. OutcomeFlow(t)'
        BY <1>6, <1>7, <2>1, <2>4, <2>5, <2>6, CountsOf DEF Flow, OutcomeFlow
    <2>12. QED
        BY <1>5, <2>8, <2>9, <2>10, <2>11, FlowStep DEF Flow
<1>10. CASE o = "abort"
    <2>1. op = "COORD_ABORT"
        BY <1>3, <1>10
    <2>2. /\ Todo("COORD_ABORT", t) = 1 /\ Todo("COORD_COMMIT", t) = 0
          /\ t \in commitStarted /\ HasWAL(Coord(t), t)
          /\ Done("PART_PREPARE_ABORT", t) > 0
        BY <1>6, <1>7, <2>1, CountsOf DEF Flow, DecisionFlow
    <2>3. /\ Done("COORD_COMMIT", t) = 0 /\ Done("COORD_ABORT", t) = 0
          /\ Done("COORD_PREPARE", t) > 0
        BY <1>6, <2>2 DEF Flow, DebitFlow
    <2>4. Todo("COORD_ABORT", t)' = 0 /\ Done("COORD_ABORT", t)' = 1
        BY <1>7, <2>1, <2>2, <2>3
    <2>5. net[DecisionMsg(t, "commit")] + Todo("PART_COMMIT", t) = 0
        BY <1>6, <2>3, CountsOf DEF Flow, OutcomeFlow
    <2>6. /\ net'[DecisionMsg(t, "commit")] = net[DecisionMsg(t, "commit")]
          /\ net'[PrepareMsg(t)] = net[PrepareMsg(t)]
          /\ net'[ReplyMsg(t, "commit", "coord")] = net[ReplyMsg(t, "commit", "coord")]
          /\ net'[ReplyMsg(t, "abort", "coord")] = net[ReplyMsg(t, "abort", "coord")]
          /\ net'[ReplyMsg(t, "commit", "part")] = net[ReplyMsg(t, "commit", "part")]
          /\ net'[ReplyMsg(t, "abort", "part")] = net[ReplyMsg(t, "abort", "part")]
        BY <1>4, <1>10, MessagesOf, MessagesDiffer
    <2>7. /\ Voting(t)' = Voting(t) /\ InPrepare(t)' = InPrepare(t)
          /\ Voted(t)' <=> Voted(t)
          /\ Replies(t)' = Replies(t)
        BY <1>2, <1>7, <2>1, <2>6 DEF Voting, InPrepare, Voted, Replies
    <2>8. DebitFlow(t)'
        BY <1>2, <1>6, <1>7, <1>8, <2>1, <2>4 DEF Flow, DebitFlow
    <2>9. VoteFlow(t)'
        BY <1>2, <1>6, <1>7, <1>8, <2>1, <2>6, <2>7 DEF Flow, VoteFlow
    <2>10. DecisionFlow(t)'
        BY <1>2, <1>6, <1>7, <2>1, <2>2, <2>3, <2>4, <2>7 DEF Flow, DecisionFlow
    <2>11. OutcomeFlow(t)'
        BY <1>6, <1>7, <2>1, <2>4, <2>5, <2>6, CountsOf DEF Flow, OutcomeFlow
    <2>12. QED
        BY <1>5, <2>8, <2>9, <2>10, <2>11, FlowStep DEF Flow
<1>11. QED
    BY <1>9, <1>10 DEF Outcome

LEMMA FlowOutcome ==
    ASSUME TypeOK, TypeOK', FlowInv, NEW t \in Transfer, NEW o \in Outcome,
           ExecuteOutcome(t, o)
    PROVE  FlowInv'
<1>1. /\ TodoLess(PartOpFor(o), t) /\ DoneMore(PartOpFor(o), t)
      /\ wal'[Part(t)][t] = NoPreimage
      /\ \A d \in Cluster, u \in Transfer : d # Part(t) \/ u # t => wal'[d][u] = wal[d][u]
    BY OutcomeMoves
<1>2. Flow(t)
    BY DEF FlowInv
\* Nothing has to be aborted at the participant.
<1>3. o = "commit"
    <2>1. Todo("PART_ABORT", t) = 0
        BY <1>2 DEF Flow, OutcomeFlow
    <2>2. Todo(PartOpFor(o), t) > 0
        BY <1>1, CountTypesNext DEF TodoLess
    <2>3. QED
        BY <2>1, <2>2 DEF PartOpFor, Outcome
<1>4. PartOpFor(o) = "PART_COMMIT"
    BY <1>3 DEF PartOpFor
<1>5. /\ net' = Sent(AckMsg(t))
      /\ UNCHANGED <<commitStarted, watch, preparing>>
    BY DEF ExecuteOutcome, coordVars
<1>6. \A n \in Message : n # AckMsg(t) => net'[n] = net[n]
    BY <1>5, MessagesOf, SentCounts
<1>7. \A u \in Transfer : u # t => NothingNew(u)
    <2>1. \A p : \A u \in Transfer : u # t => /\ Todo(p, u)' <= Todo(p, u)
                                              /\ Done(p, u)' = Done(p, u)
        BY <1>1, CountTypes DEF TodoLess, DoneMore
    <2>2. \A m \in Message : m.txn # t => net'[m] = net[m]
        BY <1>6, MessagesDiffer
    <2>3. QED
        BY <1>1, <1>5, <2>1, <2>2, ElsewhereNothingNew
<1>8. /\ \A p : p # "PART_COMMIT" => Todo(p, t)' = Todo(p, t) /\ Done(p, t)' = Done(p, t)
      /\ Todo("PART_COMMIT", t) = Todo("PART_COMMIT", t)' + 1
      /\ \A p : Todo(p, t)' \in Nat
    BY <1>1, <1>4, CountTypesNext DEF TodoLess, DoneMore
<1>9. /\ HasWAL(Coord(t), t)' <=> HasWAL(Coord(t), t)
      /\ ~HasWAL(Part(t), t)'
    BY <1>1, TransferFields, OperationNames DEF HasWAL
<1>10. /\ net'[DecisionMsg(t, "commit")] = net[DecisionMsg(t, "commit")]
       /\ net'[DecisionMsg(t, "abort")] = net[DecisionMsg(t, "abort")]
       /\ net'[PrepareMsg(t)] = net[PrepareMsg(t)]
       /\ net'[ReplyMsg(t, "commit", "coord")] = net[ReplyMsg(t, "commit", "coord")]
       /\ net'[ReplyMsg(t, "abort", "coord")] = net[ReplyMsg(t, "abort", "coord")]
       /\ net'[ReplyMsg(t, "commit", "part")] = net[ReplyMsg(t, "commit", "part")]
       /\ net'[ReplyMsg(t, "abort", "part")] = net[ReplyMsg(t, "abort", "part")]
    BY <1>6, MessagesOf, MessagesDiffer
<1>11. /\ Voting(t)' = Voting(t) /\ InPrepare(t)' = InPrepare(t)
       /\ Voted(t)' <=> Voted(t)
       /\ Replies(t)' = Replies(t)
    BY <1>5, <1>8, <1>10 DEF Voting, InPrepare, Voted, Replies
<1>12. DebitFlow(t)'
    BY <1>2, <1>5, <1>8, <1>9 DEF Flow, DebitFlow
<1>13. VoteFlow(t)'
    BY <1>2, <1>5, <1>8, <1>9, <1>10, <1>11 DEF Flow, VoteFlow
<1>14. DecisionFlow(t)'
    BY <1>2, <1>5, <1>8, <1>9, <1>11 DEF Flow, DecisionFlow
<1>15. OutcomeFlow(t)'
    BY <1>2, <1>8, <1>10, CountsOf DEF Flow, OutcomeFlow
<1>16. QED
    BY <1>7, <1>12, <1>13, <1>14, <1>15, FlowStep DEF Flow

LEMMA FlowExecute ==
    ASSUME TypeOK, TypeOK', FlowInv, NEW t \in Transfer, Execute(t)
    PROVE  FlowInv'
BY FlowCoordPrepare, FlowPartPrepare, FlowDecision, FlowOutcome DEF Execute

-----------------------------------------------------------------------------
(***************************************************************************)
(* Messages.                                                               *)
(***************************************************************************)
\* Transfers differ in their items or amounts, so what prepareOutcome finds
\* of a transfer is its own vote.
LEMMA OwnRecords ==
    ASSUME SingleCopies, TypeOK, NEW t \in Transfer
    PROVE  /\ PrepareRecords(t) # {} <=> Voted(t)
           /\ Done("PART_PREPARE_COMMIT", t) = 0 => PrepareOutcome(t) = "abort"
           /\ PrepareOutcome(t) \in {"commit", "abort"}
<1> DEFINE s == datastore[Part(t)]
<1>1. s \in Seq(Operation)
    BY TransferFields DEF TypeOK
<1>2. \A e \in Operation : /\ e = Op(e.op, e.txn) /\ e.txn \in Transfer
    BY DEF Operation, Op
<1>3. \A op \in {"PART_PREPARE_COMMIT", "PART_PREPARE_ABORT"} :
          /\ Done(op, t) = Copies(s, {Op(op, t)})
          /\ Done(op, t) = 0 <=> Op(op, t) \notin OpsOf(s)
    <2>1. \A op \in {"PART_PREPARE_COMMIT", "PART_PREPARE_ABORT"} : HomeOf(Op(op, t)) = Part(t)
        BY OperationNames DEF PartOp
    <2>2. \A op : Copies(s, {Op(op, t)}) = 0 <=> Op(op, t) \notin OpsOf(s)
        BY <1>1, CopiesType
    <2>3. QED
        BY <2>1, <2>2 DEF Done
<1>4. \A i \in DOMAIN s : s[i] \in Operation /\ s[i] \in OpsOf(s)
    BY <1>1 DEF OpsOf
<1>5. \A i \in DOMAIN s :
          i \in PrepareRecords(t) <=>
              \E op \in {"PART_PREPARE_COMMIT", "PART_PREPARE_ABORT"} : s[i] = Op(op, t)
    <2> SUFFICES ASSUME NEW i \in DOMAIN s
                 PROVE  i \in PrepareRecords(t) <=>
                            \E op \in {"PART_PREPARE_COMMIT", "PART_PREPARE_ABORT"} : s[i] = Op(op, t)
        OBVIOUS
    <2>1. PICK op, u : u \in Transfer /\ s[i] = Op(op, u)
        BY <1>2, <1>4
    <2>2. s[i].op = op /\ s[i].txn = u
        BY <2>1, OperationNames
    <2>3. i \in PrepareRecords(t) <=> /\ op \in {"PART_PREPARE_COMMIT", "PART_PREPARE_ABORT"}
                                      /\ <<u.x, u.y, u.amt>> = <<t.x, t.y, t.amt>>
        BY <2>2 DEF PrepareRecords
    <2>4. <<u.x, u.y, u.amt>> = <<t.x, t.y, t.amt>> <=> u = t
        BY <2>1 DEF SingleCopies
    <2>5. \A p : s[i] = Op(p, t) <=> op = p /\ u = t
        BY <2>1 DEF Op
    <2>6. QED
        BY <2>3, <2>4, <2>5
<1>6. PrepareRecords(t) \subseteq DOMAIN s
    BY DEF PrepareRecords
<1>7. PrepareRecords(t) # {} <=> Voted(t)
    <2>1. Voted(t) <=> Done("PART_PREPARE_COMMIT", t) # 0 \/ Done("PART_PREPARE_ABORT", t) # 0
        BY CountsOf DEF Voted
    <2>2. Voted(t) <=> \E op \in {"PART_PREPARE_COMMIT", "PART_PREPARE_ABORT"} : Op(op, t) \in OpsOf(s)
        BY <1>3, <2>1
    <2>3. QED
        BY <1>5, <1>6, <2>2 DEF OpsOf
<1>8. ASSUME Done("PART_PREPARE_COMMIT", t) = 0
      PROVE  PrepareOutcome(t) = "abort"
    <2>1. ASSUME NEW i \in PrepareRecords(t) PROVE s[i].op # "PART_PREPARE_COMMIT"
        <3>1. PICK op \in {"PART_PREPARE_COMMIT", "PART_PREPARE_ABORT"} : s[i] = Op(op, t)
            BY <1>5, <1>6
        <3>2. s[i].op = op /\ s[i] \in OpsOf(s)
            BY <1>4, <1>6, <3>1, OperationNames
        <3>3. QED
            BY <1>3, <1>8, <3>1, <3>2
    <2>2. QED
        BY <2>1 DEF PrepareOutcome
<1>9. QED
    BY <1>7, <1>8 DEF PrepareOutcome

\* What the retries count of themselves.
LEMMA PendingIsTodo ==
    ASSUME TypeOK, HomeInv, NEW t \in Transfer, NEW op, op # "COORD_PREPARE"
    PROVE  Pending(HomeOf(Op(op, t)), Op(op, t)) = Todo(op, t)
<1> DEFINE c == HomeOf(Op(op, t))
           e == Op(op, t)
<1>1. c \in Cluster /\ e.op # "COORD_PREPARE"
    BY HomesAreClusters, OperationNames
<1>2. Todo(op, t) = Live(c, {e})
    BY DEF Todo
<1> HIDE DEF c, e
<1>3. e \notin OpsOf(clientQueue[c])
    BY <1>1 DEF HomeInv
<1>4. clientQueue[c] \in Seq(Operation)
    BY <1>1 DEF TypeOK
<1>5. Copies(clientQueue[c], {e}) = 0
    BY <1>3, <1>4, CopiesType
<1>6. /\ Copies(internalQueue[c], {e}) \in Nat /\ Copies(starting[c], {e}) \in Nat
      /\ Copies(inflight[c], {e}) \in Nat
    BY <1>1, LiveType
<1>7. \A s : Cardinality({i \in DOMAIN s : s[i] = e}) = Copies(s, {e})
    <2>1. \A s : {i \in DOMAIN s : s[i] = e} = {i \in DOMAIN s : s[i] \in {e}}
        OBVIOUS
    <2>2. QED
        BY <2>1 DEF Copies, Positions
<1>8. Pending(c, e) = Copies(internalQueue[c], {e}) + Copies(starting[c], {e})
                          + Copies(inflight[c], {e})
    BY <1>7 DEF Pending
<1>9. Live(c, {e}) = Pending(c, e)
    BY <1>5, <1>6, <1>8 DEF Live
<1>10. QED
    BY <1>2, <1>9 DEF c, e

LEMMA CopiesInPrepare ==
    ASSUME TypeOK, HomeInv, NEW t \in Transfer
    PROVE  PrepareCopies(t) = InPrepare(t)
<1>1. /\ HomeOf(Op("PART_PREPARE_COMMIT", t)) = Part(t)
      /\ HomeOf(Op("PART_PREPARE_ABORT", t)) = Part(t)
    BY OperationNames DEF PartOp
<1>2. /\ Pending(Part(t), Op("PART_PREPARE_COMMIT", t)) = Todo("PART_PREPARE_COMMIT", t)
      /\ Pending(Part(t), Op("PART_PREPARE_ABORT", t)) = Todo("PART_PREPARE_ABORT", t)
    BY <1>1, PendingIsTodo
<1>3. QED
    BY <1>2, CountsOf DEF PrepareCopies, InPrepare, Voting

LEMMA CopiesOfDecision ==
    ASSUME TypeOK, HomeInv, NEW t \in Transfer
    PROVE  DecisionCopies(t, "commit") =
               net[DecisionMsg(t, "commit")] + Todo("PART_COMMIT", t) + Todo("HOLE", t)
<1>1. /\ HomeOf(Op("PART_COMMIT", t)) = Part(t) /\ HomeOf(Op("HOLE", t)) = Part(t)
    BY OperationNames DEF PartOp
<1>2. /\ Pending(Part(t), Op("PART_COMMIT", t)) = Todo("PART_COMMIT", t)
      /\ Pending(Part(t), Op("HOLE", t)) = Todo("HOLE", t)
    BY <1>1, PendingIsTodo
<1>3. QED
    BY <1>2 DEF DecisionCopies, PartOpFor

LEMMA RecordedIsDone ==
    ASSUME TypeOK, NEW t \in Transfer, NEW op
    PROVE  Recorded(HomeOf(Op(op, t)), Op(op, t)) <=> Done(op, t) > 0
<1> DEFINE c == HomeOf(Op(op, t))
           e == Op(op, t)
<1>1. c \in Cluster
    BY HomesAreClusters
<1>2. Done(op, t) = Copies(datastore[c], {e})
    BY DEF Done
<1> HIDE DEF c, e
<1>3. datastore[c] \in Seq(Operation)
    BY <1>1 DEF TypeOK
<1>4. /\ Copies(datastore[c], {e}) \in Nat
      /\ Copies(datastore[c], {e}) = 0 <=> e \notin OpsOf(datastore[c])
    BY <1>3, CopiesType
<1>5. Recorded(c, e) <=> e \in OpsOf(datastore[c])
    BY DEF Recorded, OpsOf
<1>6. QED
    BY <1>2, <1>4, <1>5 DEF c, e

LEMMA FlowOnPrepare ==
    ASSUME SingleCopies, TypeOK, TypeOK', FlowInv, NEW t \in Transfer, OnPrepare(t)
    PROVE  FlowInv'
<1>1. /\ UNCHANGED <<clientQueue, internalQueue, starting, inflight>>
      /\ UNCHANGED <<wal, datastore, commitStarted, watch>>
      /\ net[PrepareMsg(t)] > 0
    BY DEF OnPrepare, storeVars, engineVars, coordVars
<1>2. /\ \A op : \A u \in Transfer : Todo(op, u)' = Todo(op, u) /\ Todo(op, u) \in Nat
      /\ \A op : \A u \in Transfer : Done(op, u)' = Done(op, u)
    BY <1>1, QueuesUnchanged, RecordsUnchanged, CountTypes DEF TodoSame, DoneSame
<1>3. Flow(t)
    BY DEF FlowInv
<1>4. \A m \in Message :
          m # PrepareMsg(t) /\ (\A o : m # ReplyMsg(t, o, "coord")) => net'[m] = net[m]
    <2>1. net' = Received(PrepareMsg(t)) \/
          \E o : net' = [Received(PrepareMsg(t)) EXCEPT ![ReplyMsg(t, o, "coord")] = @ + 1]
        BY DEF OnPrepare
    <2>2. \A m \in Message : m # PrepareMsg(t) => Received(PrepareMsg(t))[m] = net[m]
        BY DEF Received, TypeOK
    <2>3. Received(PrepareMsg(t)) \in [Message -> Nat]
        BY <1>1, MessagesOf, ReceivedTypes DEF TypeOK
    <2>4. ASSUME NEW o,
                 net' = [Received(PrepareMsg(t)) EXCEPT ![ReplyMsg(t, o, "coord")] = @ + 1],
                 NEW m \in Message, m # ReplyMsg(t, o, "coord")
          PROVE  net'[m] = Received(PrepareMsg(t))[m]
        BY <2>3, <2>4
    <2>5. QED
        BY <2>1, <2>2, <2>4
<1>5. \A m \in Message : m.txn # t => net'[m] = net[m]
    BY <1>4, MessagesDiffer
<1>6. \A u \in Transfer : u # t => preparing'[u] = preparing[u]
    BY DEF OnPrepare, TypeOK
<1>7. \A u \in Transfer : u # t => NothingNew(u)
    BY <1>1, <1>2, <1>5, <1>6, ElsewhereNothingNew
<1>8. /\ net'[DecisionMsg(t, "commit")] = net[DecisionMsg(t, "commit")]
      /\ net'[DecisionMsg(t, "abort")] = net[DecisionMsg(t, "abort")]
      /\ net'[ReplyMsg(t, "commit", "part")] = net[ReplyMsg(t, "commit", "part")]
      /\ net'[ReplyMsg(t, "abort", "part")] = net[ReplyMsg(t, "abort", "part")]
    BY <1>4, MessagesOf, MessagesDiffer
<1>9. /\ InPrepare(t)' = InPrepare(t)
      /\ Voting(t)' > 0 => Voting(t) > 0 \/ ~Voted(t)
    <2>1. CASE HasWAL(Part(t), t) \/ PrepareRecords(t) # {}
        <3>1. PICK o \in {"commit", "abort"} :
                  net' = [Received(PrepareMsg(t)) EXCEPT ![ReplyMsg(t, o, "coord")] = @ + 1]
            BY <2>1, OwnRecords DEF OnPrepare
        <3>2. preparing' = preparing
            BY <2>1 DEF OnPrepare
        <3>3. Voting(t)' = Voting(t)
            BY <1>2, <3>2 DEF Voting
        <3>4. /\ net'[PrepareMsg(t)] = net[PrepareMsg(t)] - 1
              /\ net'[ReplyMsg(t, o, "coord")] = net[ReplyMsg(t, o, "coord")] + 1
              /\ \A p \in {"commit", "abort"} : p # o =>
                     net'[ReplyMsg(t, p, "coord")] = net[ReplyMsg(t, p, "coord")]
            <4> DEFINE m == PrepareMsg(t)
                       n == ReplyMsg(t, o, "coord")
            <4>1. m \in Message /\ n \in Message /\ m # n
                BY MessagesOf, MessagesDiffer
            <4>2. \A p \in {"commit", "abort"} : p # o =>
                      /\ ReplyMsg(t, p, "coord") \in Message
                      /\ ReplyMsg(t, p, "coord") # m /\ ReplyMsg(t, p, "coord") # n
                BY MessagesOf, MessagesDiffer
            <4> HIDE DEF m, n
            <4>3. net \in [Message -> Nat]
                BY DEF TypeOK
            <4>4. net' = [[net EXCEPT ![m] = @ - 1] EXCEPT ![n] = @ + 1]
                BY <3>1 DEF Received, m, n
            <4>5. /\ net'[m] = net[m] - 1 /\ net'[n] = net[n] + 1
                  /\ \A k \in Message : k # m /\ k # n => net'[k] = net[k]
                BY <4>1, <4>3, <4>4
            <4>6. QED
                BY <4>2, <4>5 DEF m, n
        <3>5. CASE o = "commit"
            BY <3>3, <3>4, <3>5, CountsOf DEF InPrepare
        <3>6. CASE o = "abort"
            BY <3>3, <3>4, <3>6, CountsOf DEF InPrepare
        <3>7. QED
            BY <3>3, <3>5, <3>6
    <2>2. CASE ~(HasWAL(Part(t), t) \/ PrepareRecords(t) # {})
        <3>1. net' = Received(PrepareMsg(t)) /\ preparing' = [preparing EXCEPT ![t] = @ + 1]
            BY <2>2 DEF OnPrepare
        <3>2. preparing'[t] = preparing[t] + 1
            BY <3>1 DEF TypeOK
        <3>3. /\ net'[PrepareMsg(t)] = net[PrepareMsg(t)] - 1
              /\ net'[ReplyMsg(t, "commit", "coord")] = net[ReplyMsg(t, "commit", "coord")]
              /\ net'[ReplyMsg(t, "abort", "coord")] = net[ReplyMsg(t, "abort", "coord")]
            BY <3>1, MessagesOf, MessagesDiffer, ReceivedCounts
        <3>4. Voting(t)' = Voting(t) + 1
            BY <1>2, <3>2, CountsOf DEF Voting
        <3>5. InPrepare(t)' = InPrepare(t)
            BY <3>3, <3>4, CountsOf DEF InPrepare
        <3>6. ~Voted(t)
            BY <2>2, OwnRecords
        <3>7. QED
            BY <3>5, <3>6
    <2>3. QED
        BY <2>1, <2>2
<1>10. /\ HasWAL(Coord(t), t)' <=> HasWAL(Coord(t), t)
       /\ HasWAL(Part(t), t)' <=> HasWAL(Part(t), t)
    BY <1>1 DEF HasWAL
<1>11. /\ Voted(t)' <=> Voted(t)
       /\ Replies(t)' = Replies(t)
    BY <1>2, <1>8 DEF Voted, Replies
<1>12. DebitFlow(t)'
    BY <1>1, <1>2, <1>3, <1>10 DEF Flow, DebitFlow
<1>13. VoteFlow(t)'
    BY <1>1, <1>2, <1>3, <1>8, <1>9, <1>10, <1>11 DEF Flow, VoteFlow
<1>14. DecisionFlow(t)'
    BY <1>1, <1>2, <1>3, <1>10, <1>11 DEF Flow, DecisionFlow
<1>15. OutcomeFlow(t)'
    BY <1>2, <1>3, <1>8 DEF Flow, OutcomeFlow
<1>16. QED
    BY <1>7, <1>12, <1>13, <1>14, <1>15, FlowStep DEF Flow

\* A step that takes messages or ends a watcher.
LEMMA FlowTaken ==
    ASSUME TypeOK, TypeOK', FlowInv,
           UNCHANGED <<clientQueue, internalQueue, starting, inflight>>,
           UNCHANGED <<wal, datastore, commitStarted, preparing>>,
           \A m \in Message : net'[m] <= net[m],
           \A u \in Transfer : watch'[u] = watch[u] \/ watch'[u] = "off"
    PROVE  FlowInv'
<1>1. \A op : \A u \in Transfer : Todo(op, u)' <= Todo(op, u)
    BY QueuesUnchanged, CountTypes DEF TodoSame
<1>2. \A u \in Transfer : NothingNew(u)
    BY <1>1, RecordsUnchanged DEF NothingNew, HasWAL, DoneSame
<1>3. QED
    BY <1>2, FlowNothingNew DEF FlowInv

LEMMA FlowOnAck ==
    ASSUME TypeOK, TypeOK', FlowInv, NEW t \in Transfer, OnAck(t)
    PROVE  FlowInv'
<1>1. \A m \in Message : net'[m] <= net[m]
    BY MessagesOf DEF OnAck, Received, TypeOK
<1>2. QED
    BY <1>1, FlowTaken DEF OnAck, storeVars, engineVars

LEMMA FlowOnStaleReply ==
    ASSUME TypeOK, TypeOK', FlowInv, NEW t \in Transfer, NEW o \in Outcome, OnStaleReply(t, o)
    PROVE  FlowInv'
<1>1. \A m \in Message : net'[m] <= net[m]
    BY MessageTypes DEF OnStaleReply, Received, TypeOK
<1>2. QED
    BY <1>1, FlowTaken DEF OnStaleReply, storeVars, engineVars, coordVars

LEMMA EnqueuedMore ==
    ASSUME TypeOK, TypeOK', NEW op, NEW t \in Transfer, NEW c \in Cluster,
           Op(op, t) \in Operation, c = HomeOf(Op(op, t)),
           internalQueue' = Enqueued(c, Op(op, t)), UNCHANGED <<clientQueue, starting, inflight>>
    PROVE  TodoMore(op, t) /\ AgreedSame
<1>1. Enqueues(c, <<Op(op, t)>>)
    BY EnqueuedIsConcat
<1>2. QED
    BY <1>1, Handed

\* The one reply finds the transfer undecided.
LEMMA ReplyMoves ==
    ASSUME TypeOK, TypeOK', FlowInv, NEW t \in Transfer, NEW o \in Outcome, OnReply(t, o)
    PROVE  /\ t \notin commitStarted /\ Replies(t) = 1
           /\ TodoMore(CoordOpFor(o), t) /\ AgreedSame
<1>1. net[ReplyMsg(t, o, "part")] > 0
    BY DEF OnReply
<1>2. Replies(t) > 0
    BY <1>1, CountsOf DEF Replies, Outcome
<1>3. t \notin commitStarted /\ Replies(t) = 1
    BY <1>2, CountsOf DEF FlowInv, Flow, VoteFlow
<1>4. DecisionsFor(t, o) = <<Op(CoordOpFor(o), t)>>
    BY <1>3 DEF DecisionsFor
<1>5. /\ Coord(t) \in Cluster /\ HomeOf(Op(CoordOpFor(o), t)) = Coord(t)
      /\ Op(CoordOpFor(o), t) \in Operation
    BY TransferFields, OperationTypes, OperationNames
<1>6. Enqueues(Coord(t), <<Op(CoordOpFor(o), t)>>)
    BY <1>4 DEF OnReply, Enqueues
<1>7. TodoMore(CoordOpFor(o), t) /\ AgreedSame
    BY <1>5, <1>6, Handed
<1>8. QED
    BY <1>3, <1>7

LEMMA FlowOnReply ==
    ASSUME TypeOK, TypeOK', FlowInv, NEW t \in Transfer, NEW o \in Outcome, OnReply(t, o)
    PROVE  FlowInv'
<1> DEFINE op == CoordOpFor(o)
<1>1. t \notin commitStarted /\ Replies(t) = 1 /\ TodoMore(op, t)
    BY ReplyMoves
<1>2. /\ op = IF o = "commit" THEN "COORD_COMMIT" ELSE "COORD_ABORT"
      /\ o = "commit" \/ o = "abort"
    BY DEF CoordOpFor, Outcome
<1> HIDE DEF op
<1>3. /\ net' = Received(ReplyMsg(t, o, "part")) /\ net[ReplyMsg(t, o, "part")] > 0
      /\ commitStarted' = commitStarted \cup {t}
      /\ UNCHANGED <<wal, datastore, watch, preparing>>
    BY DEF OnReply, storeVars
<1>4. /\ net'[ReplyMsg(t, o, "part")] = net[ReplyMsg(t, o, "part")] - 1
      /\ \A n \in Message : n # ReplyMsg(t, o, "part") => net'[n] = net[n]
    BY <1>3, MessageTypes, ReceivedCounts
<1>5. \A p : \A u \in Transfer : Done(p, u)' = Done(p, u)
    BY <1>3, RecordsUnchanged DEF DoneSame
<1>6. \A u \in Transfer : u # t => NothingNew(u)
    <2>1. \A p : \A u \in Transfer : u # t => Todo(p, u)' <= Todo(p, u)
        BY <1>1, CountTypes DEF TodoMore
    <2>2. \A m \in Message : m.txn # t => net'[m] = net[m]
        BY <1>4, MessagesDiffer
    <2>3. QED
        BY <1>3, <1>5, <2>1, <2>2, ElsewhereNothingNew
<1>7. Flow(t)
    BY DEF FlowInv
<1>8. /\ \A p : p # op => Todo(p, t)' = Todo(p, t)
      /\ Todo(op, t)' = Todo(op, t) + 1
    BY <1>1 DEF TodoMore
<1>9. /\ Todo("COORD_COMMIT", t) = 0 /\ Todo("COORD_ABORT", t) = 0
      /\ Done("COORD_COMMIT", t) = 0 /\ Done("COORD_ABORT", t) = 0
    BY <1>1, <1>7, CountsOf DEF Flow, DecisionFlow
<1>10. /\ o = "commit" => Done("PART_PREPARE_COMMIT", t) > 0
       /\ o = "abort" => Done("PART_PREPARE_ABORT", t) > 0
    BY <1>3, <1>7 DEF Flow, VoteFlow
<1>11. Voted(t)
    BY <1>2, <1>10, CountsOf DEF Voted
<1>12. HasWAL(Coord(t), t)
    BY <1>7, <1>9, <1>11 DEF Flow, VoteFlow, DebitFlow
<1>13. /\ net'[PrepareMsg(t)] = net[PrepareMsg(t)]
       /\ net'[ReplyMsg(t, "commit", "coord")] = net[ReplyMsg(t, "commit", "coord")]
       /\ net'[ReplyMsg(t, "abort", "coord")] = net[ReplyMsg(t, "abort", "coord")]
       /\ net'[DecisionMsg(t, "commit")] = net[DecisionMsg(t, "commit")]
       /\ net'[DecisionMsg(t, "abort")] = net[DecisionMsg(t, "abort")]
    BY <1>4, MessagesOf, MessagesDiffer
<1>14. /\ net'[ReplyMsg(t, "commit", "part")] = 0
       /\ net'[ReplyMsg(t, "abort", "part")] = 0
       /\ Replies(t)' = 0
    <2>1. CASE o = "commit"
        <3>1. net'[ReplyMsg(t, "abort", "part")] = net[ReplyMsg(t, "abort", "part")]
            BY <1>4, <2>1, MessagesOf, MessagesDiffer
        <3>2. /\ net'[ReplyMsg(t, "commit", "part")] = net[ReplyMsg(t, "commit", "part")] - 1
              /\ net[ReplyMsg(t, "commit", "part")] > 0
            BY <1>3, <1>4, <2>1
        <3>3. QED
            BY <1>1, <3>1, <3>2, CountsOf DEF Replies
    <2>2. CASE o = "abort"
        <3>1. net'[ReplyMsg(t, "commit", "part")] = net[ReplyMsg(t, "commit", "part")]
            BY <1>4, <2>2, MessagesOf, MessagesDiffer
        <3>2. /\ net'[ReplyMsg(t, "abort", "part")] = net[ReplyMsg(t, "abort", "part")] - 1
              /\ net[ReplyMsg(t, "abort", "part")] > 0
            BY <1>3, <1>4, <2>2
        <3>3. QED
            BY <1>1, <3>1, <3>2, CountsOf DEF Replies
    <2>3. QED
        BY <1>2, <2>1, <2>2
<1>15. /\ Voting(t)' = Voting(t) /\ InPrepare(t)' = InPrepare(t)
       /\ Voted(t)' <=> Voted(t)
    BY <1>2, <1>3, <1>5, <1>8, <1>13 DEF Voting, InPrepare, Voted
<1>16. /\ HasWAL(Coord(t), t)' <=> HasWAL(Coord(t), t)
       /\ HasWAL(Part(t), t)' <=> HasWAL(Part(t), t)
    BY <1>3 DEF HasWAL
<1>17. DebitFlow(t)'
    BY <1>2, <1>3, <1>5, <1>7, <1>8, <1>16 DEF Flow, DebitFlow
<1>18. VoteFlow(t)'
    BY <1>5, <1>7, <1>14, <1>15, <1>16 DEF Flow, VoteFlow
<1>19. DecisionFlow(t)'
    <2>1. t \in commitStarted'
        BY <1>3
    <2>2. CASE o = "commit"
        <3>1. Todo("COORD_COMMIT", t)' = 1 /\ Todo("COORD_ABORT", t)' = 0
            BY <1>2, <1>8, <1>9, <2>2
        <3>2. QED
            BY <1>5, <1>9, <1>10, <1>11, <1>12, <1>15, <1>16, <2>1, <2>2, <3>1 DEF DecisionFlow
    <2>3. CASE o = "abort"
        <3>1. Todo("COORD_ABORT", t)' = 1 /\ Todo("COORD_COMMIT", t)' = 0
            BY <1>2, <1>8, <1>9, <2>3
        <3>2. QED
            BY <1>5, <1>9, <1>10, <1>11, <1>12, <1>15, <1>16, <2>1, <2>3, <3>1 DEF DecisionFlow
    <2>4. QED
        BY <1>2, <2>2, <2>3
<1>20. OutcomeFlow(t)'
    BY <1>2, <1>5, <1>7, <1>8, <1>13 DEF Flow, OutcomeFlow
<1>21. QED
    BY <1>6, <1>17, <1>18, <1>19, <1>20, FlowStep DEF Flow

\* An abort finds the vote against the transfer, and starts nothing.
LEMMA AbortFindsVote ==
    ASSUME SingleCopies, TypeOK, FlowInv, NEW t \in Transfer, OnDecision(t, "abort")
    PROVE  PrepareWasAbort(t)
<1>1. Flow(t) /\ net[DecisionMsg(t, "abort")] > 0
    BY DEF FlowInv, OnDecision
<1>2. Done("PART_PREPARE_ABORT", t) > 0
    BY <1>1, CountsOf DEF Flow, OutcomeFlow, DecisionFlow
<1>3. Done("PART_PREPARE_COMMIT", t) = 0 /\ Voted(t)
    BY <1>1, <1>2, CountsOf DEF Flow, VoteFlow, Voted
<1>4. QED
    BY <1>3, OwnRecords DEF PrepareWasAbort

LEMMA FlowOnDecision ==
    ASSUME SingleCopies, TypeOK, TypeOK', FlowInv, NEW t \in Transfer, NEW o \in Outcome,
           OnDecision(t, o)
    PROVE  FlowInv'
<1>1. /\ net' = Received(DecisionMsg(t, o)) /\ net[DecisionMsg(t, o)] > 0
      /\ UNCHANGED <<wal, datastore, commitStarted, watch, preparing>>
      /\ UNCHANGED <<clientQueue, starting, inflight>>
    BY DEF OnDecision, storeVars, coordVars
<1>2. /\ net'[DecisionMsg(t, o)] = net[DecisionMsg(t, o)] - 1
      /\ \A n \in Message : n # DecisionMsg(t, o) => net'[n] = net[n]
    BY <1>1, MessageTypes, ReceivedCounts
<1>3. CASE o = "abort"
    <2>1. UNCHANGED internalQueue
        BY <1>3, AbortFindsVote DEF OnDecision
    <2>2. \A m \in Message : net'[m] <= net[m]
        BY <1>1, MessageTypes DEF Received, TypeOK
    <2>3. QED
        BY <1>1, <2>1, <2>2, FlowTaken
<1>4. CASE o = "commit"
    <2>1. internalQueue' = Enqueued(Part(t), Op("PART_COMMIT", t))
        BY <1>4 DEF OnDecision, PartOpFor
    <2>2. TodoMore("PART_COMMIT", t)
        <3>1. /\ Part(t) \in Cluster /\ HomeOf(Op("PART_COMMIT", t)) = Part(t)
              /\ Op("PART_COMMIT", t) \in Operation
            BY TransferFields, OperationTypes, OperationNames DEF PartOp
        <3>2. QED
            BY <1>1, <2>1, <3>1, EnqueuedMore
    <2>3. \A p : \A u \in Transfer : Done(p, u)' = Done(p, u)
        BY <1>1, RecordsUnchanged DEF DoneSame
    <2>4. \A u \in Transfer : u # t => NothingNew(u)
        <3>1. \A p : \A u \in Transfer : u # t => Todo(p, u)' <= Todo(p, u)
            BY <2>2, CountTypes DEF TodoMore
        <3>2. \A m \in Message : m.txn # t => net'[m] = net[m]
            BY <1>2, MessagesDiffer
        <3>3. QED
            BY <1>1, <2>3, <3>1, <3>2, ElsewhereNothingNew
    <2>5. Flow(t)
        BY DEF FlowInv
    <2>6. /\ \A p : p # "PART_COMMIT" => Todo(p, t)' = Todo(p, t)
          /\ Todo("PART_COMMIT", t)' = Todo("PART_COMMIT", t) + 1
        BY <2>2 DEF TodoMore
    <2>7. /\ net'[DecisionMsg(t, "commit")] = net[DecisionMsg(t, "commit")] - 1
          /\ net[DecisionMsg(t, "commit")] > 0
          /\ net'[DecisionMsg(t, "abort")] = net[DecisionMsg(t, "abort")]
          /\ net'[PrepareMsg(t)] = net[PrepareMsg(t)]
          /\ net'[ReplyMsg(t, "commit", "coord")] = net[ReplyMsg(t, "commit", "coord")]
          /\ net'[ReplyMsg(t, "abort", "coord")] = net[ReplyMsg(t, "abort", "coord")]
          /\ net'[ReplyMsg(t, "commit", "part")] = net[ReplyMsg(t, "commit", "part")]
          /\ net'[ReplyMsg(t, "abort", "part")] = net[ReplyMsg(t, "abort", "part")]
        BY <1>1, <1>2, <1>4, MessagesOf, MessagesDiffer
    <2>8. /\ Voting(t)' = Voting(t) /\ InPrepare(t)' = InPrepare(t)
          /\ Voted(t)' <=> Voted(t)
          /\ Replies(t)' = Replies(t)
        BY <1>1, <2>3, <2>6, <2>7 DEF Voting, InPrepare, Voted, Replies
    <2>9. /\ HasWAL(Coord(t), t)' <=> HasWAL(Coord(t), t)
          /\ HasWAL(Part(t), t)' <=> HasWAL(Part(t), t)
        BY <1>1 DEF HasWAL
    <2>10. DebitFlow(t)'
        BY <1>1, <2>3, <2>5, <2>6, <2>9 DEF Flow, DebitFlow
    <2>11. VoteFlow(t)'
        BY <1>1, <2>3, <2>5, <2>6, <2>7, <2>8, <2>9 DEF Flow, VoteFlow
    <2>12. DecisionFlow(t)'
        BY <1>1, <2>3, <2>5, <2>6, <2>8, <2>9 DEF Flow, DecisionFlow
    <2>13. OutcomeFlow(t)'
        BY <2>3, <2>5, <2>6, <2>7, CountsOf DEF Flow, OutcomeFlow
    <2>14. QED
        BY <2>4, <2>10, <2>11, <2>12, <2>13, FlowStep DEF Flow
<1>5. QED
    BY <1>3, <1>4 DEF Outcome

LEMMA FlowReceive ==
    ASSUME SingleCopies, TypeOK, TypeOK', FlowInv, NEW t \in Transfer, Receive(t)
    PROVE  FlowInv'
BY FlowOnPrepare, FlowOnStaleReply, FlowOnReply, FlowOnDecision, FlowOnAck DEF Receive

-----------------------------------------------------------------------------
(***************************************************************************)
(* Retries.                                                                *)
(***************************************************************************)
LEMMA VotingMoves ==
    ASSUME TypeOK, TypeOK', NEW t \in Transfer, DecidePrepare(t)
    PROVE  /\ AgreedSame
           /\ \E op \in {"PART_PREPARE_COMMIT", "PART_PREPARE_ABORT"} : TodoMore(op, t)
<1>1. PICK op \in {"PART_PREPARE_COMMIT", "PART_PREPARE_ABORT"} : op = PrepareVote(t)
    BY DEF PrepareVote
<1>2. op \in PartOp
    BY DEF PartOp
<1>3. /\ Part(t) \in Cluster /\ Part(t) = HomeOf(Op(op, t))
      /\ Op(op, t) \in Operation
    BY <1>2, TransferFields, OperationTypes, OperationNames
<1>4. /\ internalQueue' = Enqueued(Part(t), Op(op, t))
      /\ UNCHANGED <<clientQueue, starting, inflight>>
    BY <1>1 DEF DecidePrepare
<1>5. QED
    BY <1>3, <1>4, EnqueuedMore

LEMMA FlowDecidePrepare ==
    ASSUME TypeOK, TypeOK', FlowInv, NEW t \in Transfer, DecidePrepare(t)
    PROVE  FlowInv'
<1>1. PICK op \in {"PART_PREPARE_COMMIT", "PART_PREPARE_ABORT"} : TodoMore(op, t)
    BY VotingMoves
<1>2. /\ preparing[t] > 0 /\ preparing' = [preparing EXCEPT ![t] = @ - 1]
      /\ UNCHANGED <<wal, datastore, commitStarted, watch, net>>
    BY DEF DecidePrepare, storeVars, coordVars
<1>3. \A p : \A u \in Transfer : Done(p, u)' = Done(p, u)
    BY <1>2, RecordsUnchanged DEF DoneSame
<1>4. \A u \in Transfer : u # t => NothingNew(u)
    <2>1. \A p : \A u \in Transfer : u # t => Todo(p, u)' <= Todo(p, u)
        BY <1>1, CountTypes DEF TodoMore
    <2>2. \A u \in Transfer : u # t => preparing'[u] = preparing[u]
        BY <1>2 DEF TypeOK
    <2>3. QED
        BY <1>2, <1>3, <2>1, <2>2, ElsewhereNothingNew
<1>5. Flow(t)
    BY DEF FlowInv
<1>6. /\ \A p : p # op => Todo(p, t)' = Todo(p, t)
      /\ Todo(op, t)' = Todo(op, t) + 1
      /\ preparing'[t] = preparing[t] - 1
    BY <1>1, <1>2 DEF TodoMore, TypeOK
<1>7. Voting(t)' = Voting(t)
    <2>1. Todo("PART_PREPARE_COMMIT", t)' + Todo("PART_PREPARE_ABORT", t)'
              = Todo("PART_PREPARE_COMMIT", t) + Todo("PART_PREPARE_ABORT", t) + 1
        <3>1. CASE op = "PART_PREPARE_COMMIT"
            <4>1. /\ Todo("PART_PREPARE_COMMIT", t)' = Todo("PART_PREPARE_COMMIT", t) + 1
                  /\ Todo("PART_PREPARE_ABORT", t)' = Todo("PART_PREPARE_ABORT", t)
                BY <1>6, <3>1
            <4>2. QED
                BY <4>1, CountsOf
        <3>2. CASE op = "PART_PREPARE_ABORT"
            <4>1. /\ Todo("PART_PREPARE_ABORT", t)' = Todo("PART_PREPARE_ABORT", t) + 1
                  /\ Todo("PART_PREPARE_COMMIT", t)' = Todo("PART_PREPARE_COMMIT", t)
                BY <1>6, <3>2
            <4>2. QED
                BY <4>1, CountsOf
        <3>3. QED
            BY <1>1, <3>1, <3>2
    <2>2. /\ Todo("PART_PREPARE_COMMIT", t)' \in Nat
          /\ Todo("PART_PREPARE_ABORT", t)' \in Nat
        BY CountTypesNext
    <2>3. QED
        BY <1>6, <2>1, <2>2, CountsOf DEF Voting
<1>8. /\ InPrepare(t)' = InPrepare(t)
      /\ Voted(t)' <=> Voted(t)
      /\ Replies(t)' = Replies(t)
    BY <1>2, <1>3, <1>7 DEF InPrepare, Voted, Replies
<1>9. /\ HasWAL(Coord(t), t)' <=> HasWAL(Coord(t), t)
      /\ HasWAL(Part(t), t)' <=> HasWAL(Part(t), t)
    BY <1>2 DEF HasWAL
<1>10. DebitFlow(t)'
    BY <1>1, <1>2, <1>3, <1>5, <1>6, <1>9 DEF Flow, DebitFlow
<1>11. VoteFlow(t)'
    BY <1>2, <1>3, <1>5, <1>7, <1>8, <1>9 DEF Flow, VoteFlow
<1>12. DecisionFlow(t)'
    BY <1>1, <1>2, <1>3, <1>5, <1>6, <1>8, <1>9 DEF Flow, DecisionFlow
<1>13. OutcomeFlow(t)'
    BY <1>1, <1>2, <1>3, <1>5, <1>6 DEF Flow, OutcomeFlow
<1>14. QED
    BY <1>4, <1>10, <1>11, <1>12, <1>13, FlowStep DEF Flow

LEMMA FlowResendPrepare ==
    ASSUME SingleCopies, TypeOK, TypeOK', HomeInv, FlowInv, NEW t \in Transfer, ResendPrepare(t)
    PROVE  FlowInv'
<1>1. /\ net' = Sent(PrepareMsg(t))
      /\ UNCHANGED <<clientQueue, internalQueue, starting, inflight>>
      /\ UNCHANGED <<wal, datastore, commitStarted, watch, preparing>>
      /\ watch[t] = "preparing"
    BY DEF ResendPrepare, storeVars, engineVars, coordVars
<1>2. /\ net'[PrepareMsg(t)] = net[PrepareMsg(t)] + 1
      /\ \A n \in Message : n # PrepareMsg(t) => net'[n] = net[n]
    BY <1>1, MessagesOf, SentCounts
<1>3. /\ \A p : \A u \in Transfer : Done(p, u)' = Done(p, u)
      /\ \A p : \A u \in Transfer : Todo(p, u)' = Todo(p, u) /\ Todo(p, u) \in Nat
    BY <1>1, RecordsUnchanged, QueuesUnchanged, CountTypes DEF DoneSame, TodoSame
<1>4. \A u \in Transfer : u # t => NothingNew(u)
    <2>1. \A p : \A u \in Transfer : Todo(p, u)' <= Todo(p, u)
        BY <1>3
    <2>2. \A m \in Message : m.txn # t => net'[m] = net[m]
        BY <1>2, MessagesDiffer
    <2>3. QED
        BY <1>1, <1>3, <2>1, <2>2, ElsewhereNothingNew
<1>5. Flow(t)
    BY DEF FlowInv
<1>6. InPrepare(t) = 0
    <2>1. InPrepare(t) < MaxCopies
        BY CopiesInPrepare DEF ResendPrepare
    <2>2. QED
        BY <2>1, BoundAssumption, CountsOf DEF SingleCopies
<1>7. /\ net'[DecisionMsg(t, "commit")] = net[DecisionMsg(t, "commit")]
      /\ net'[DecisionMsg(t, "abort")] = net[DecisionMsg(t, "abort")]
      /\ net'[ReplyMsg(t, "commit", "coord")] = net[ReplyMsg(t, "commit", "coord")]
      /\ net'[ReplyMsg(t, "abort", "coord")] = net[ReplyMsg(t, "abort", "coord")]
      /\ net'[ReplyMsg(t, "commit", "part")] = net[ReplyMsg(t, "commit", "part")]
      /\ net'[ReplyMsg(t, "abort", "part")] = net[ReplyMsg(t, "abort", "part")]
    BY <1>2, MessagesOf, MessagesDiffer
<1>8. /\ Voting(t)' = Voting(t)
      /\ Voted(t)' <=> Voted(t)
      /\ Replies(t)' = Replies(t)
    BY <1>1, <1>3, <1>7 DEF Voting, Voted, Replies
<1>9. InPrepare(t)' = 1
    <2>1. /\ net[PrepareMsg(t)] = 0 /\ Voting(t) = 0
          /\ net[ReplyMsg(t, "commit", "coord")] = 0
          /\ net[ReplyMsg(t, "abort", "coord")] = 0
        <3> DEFINE p == net[PrepareMsg(t)]
                   r == net[ReplyMsg(t, "commit", "coord")]
                   q == net[ReplyMsg(t, "abort", "coord")]
                   v == Voting(t)
        <3>1. p \in Nat /\ r \in Nat /\ q \in Nat /\ v \in Nat
            BY CountsOf
        <3>2. p + r + q + v = 0
            BY <1>6 DEF InPrepare
        <3> HIDE DEF p, q, r, v
        <3>3. p = 0 /\ r = 0 /\ q = 0 /\ v = 0
            BY <3>1, <3>2
        <3>4. QED
            BY <3>3 DEF p, q, r, v
    <2>2. /\ net'[PrepareMsg(t)] = 1 /\ Voting(t)' = 0
          /\ net'[ReplyMsg(t, "commit", "coord")] = 0
          /\ net'[ReplyMsg(t, "abort", "coord")] = 0
        BY <1>2, <1>7, <1>8, <2>1
    <2>3. QED
        BY <2>2 DEF InPrepare
<1>10. Done("COORD_PREPARE", t) > 0
    BY <1>1, <1>5 DEF Flow, DebitFlow
<1>11. /\ HasWAL(Coord(t), t)' <=> HasWAL(Coord(t), t)
       /\ HasWAL(Part(t), t)' <=> HasWAL(Part(t), t)
    BY <1>1 DEF HasWAL
<1>12. DebitFlow(t)'
    BY <1>1, <1>3, <1>5, <1>11 DEF Flow, DebitFlow
<1>13. VoteFlow(t)'
    BY <1>1, <1>3, <1>5, <1>7, <1>8, <1>9, <1>10, <1>11 DEF Flow, VoteFlow
<1>14. DecisionFlow(t)'
    BY <1>1, <1>3, <1>5, <1>8, <1>11 DEF Flow, DecisionFlow
<1>15. OutcomeFlow(t)'
    BY <1>3, <1>5, <1>7 DEF Flow, OutcomeFlow
<1>16. QED
    BY <1>4, <1>12, <1>13, <1>14, <1>15, FlowStep DEF Flow

LEMMA FlowResendDecision ==
    ASSUME SingleCopies, TypeOK, TypeOK', HomeInv, FlowInv, NEW t \in Transfer,
           NEW o \in Outcome, ResendDecision(t, o)
    PROVE  FlowInv'
<1>1. /\ net' = Sent(DecisionMsg(t, o))
      /\ UNCHANGED <<clientQueue, internalQueue, starting, inflight>>
      /\ UNCHANGED <<wal, datastore, commitStarted, watch, preparing>>
    BY DEF ResendDecision, storeVars, engineVars, coordVars
<1>2. /\ net'[DecisionMsg(t, o)] = net[DecisionMsg(t, o)] + 1
      /\ \A n \in Message : n # DecisionMsg(t, o) => net'[n] = net[n]
    BY <1>1, MessageTypes, SentCounts
<1>3. /\ \A p : \A u \in Transfer : Done(p, u)' = Done(p, u)
      /\ \A p : \A u \in Transfer : Todo(p, u)' = Todo(p, u) /\ Todo(p, u) \in Nat
    BY <1>1, RecordsUnchanged, QueuesUnchanged, CountTypes DEF DoneSame, TodoSame
<1>4. \A u \in Transfer : u # t => NothingNew(u)
    <2>1. \A p : \A u \in Transfer : Todo(p, u)' <= Todo(p, u)
        BY <1>3
    <2>2. \A m \in Message : m.txn # t => net'[m] = net[m]
        BY <1>2, MessagesDiffer
    <2>3. QED
        BY <1>1, <1>3, <2>1, <2>2, ElsewhereNothingNew
<1>5. Flow(t)
    BY DEF FlowInv
<1>6. Done(CoordOpFor(o), t) > 0
    <2>1. HomeOf(Op(CoordOpFor(o), t)) = Coord(t)
        BY OperationNames
    <2>2. QED
        BY <2>1, RecordedIsDone DEF ResendDecision
<1>7. o = "commit" => net[DecisionMsg(t, "commit")] + Todo("PART_COMMIT", t) = 0
    <2>1. o = "commit" => DecisionCopies(t, "commit") < MaxCopies
        BY DEF ResendDecision
    <2>2. Todo("HOLE", t) = 0
        BY <1>5 DEF Flow, OutcomeFlow
    <2>3. DecisionCopies(t, "commit") =
              net[DecisionMsg(t, "commit")] + Todo("PART_COMMIT", t) + Todo("HOLE", t)
        BY CopiesOfDecision
    <2>4. net[DecisionMsg(t, "commit")] \in Nat /\ Todo("PART_COMMIT", t) \in Nat
        BY CountsOf
    <2>5. MaxCopies <= 1 /\ MaxCopies \in Nat
        BY BoundAssumption DEF SingleCopies
    <2>6. QED
        BY <2>1, <2>2, <2>3, <2>4, <2>5
<1>8. /\ net'[PrepareMsg(t)] = net[PrepareMsg(t)]
      /\ net'[ReplyMsg(t, "commit", "coord")] = net[ReplyMsg(t, "commit", "coord")]
      /\ net'[ReplyMsg(t, "abort", "coord")] = net[ReplyMsg(t, "abort", "coord")]
      /\ net'[ReplyMsg(t, "commit", "part")] = net[ReplyMsg(t, "commit", "part")]
      /\ net'[ReplyMsg(t, "abort", "part")] = net[ReplyMsg(t, "abort", "part")]
    <2>1. /\ PrepareMsg(t) # DecisionMsg(t, o)
          /\ \A p, s : ReplyMsg(t, p, s) # DecisionMsg(t, o)
        BY MessagesDiffer
    <2>2. QED
        BY <1>2, <2>1, MessagesOf
<1>9. /\ Voting(t)' = Voting(t) /\ InPrepare(t)' = InPrepare(t)
      /\ Voted(t)' <=> Voted(t)
      /\ Replies(t)' = Replies(t)
    BY <1>1, <1>3, <1>8 DEF Voting, InPrepare, Voted, Replies
<1>10. /\ HasWAL(Coord(t), t)' <=> HasWAL(Coord(t), t)
       /\ HasWAL(Part(t), t)' <=> HasWAL(Part(t), t)
    BY <1>1 DEF HasWAL
<1>11. DebitFlow(t)'
    BY <1>1, <1>3, <1>5, <1>10 DEF Flow, DebitFlow
<1>12. VoteFlow(t)'
    BY <1>1, <1>3, <1>5, <1>8, <1>9, <1>10 DEF Flow, VoteFlow
<1>13. DecisionFlow(t)'
    BY <1>1, <1>3, <1>5, <1>9, <1>10 DEF Flow, DecisionFlow
<1>14. OutcomeFlow(t)'
    <2>1. CASE o = "commit"
        <3>1. /\ net'[DecisionMsg(t, "commit")] = net[DecisionMsg(t, "commit")] + 1
              /\ net'[DecisionMsg(t, "abort")] = net[DecisionMsg(t, "abort")]
            BY <1>2, <2>1, MessagesOf, MessagesDiffer
        <3>2. Done("COORD_COMMIT", t) > 0
            BY <1>6, <2>1 DEF CoordOpFor
        <3>3. QED
            BY <1>3, <1>5, <1>7, <2>1, <3>1, <3>2, CountsOf DEF Flow, OutcomeFlow
    <2>2. CASE o = "abort"
        <3>1. net'[DecisionMsg(t, "commit")] = net[DecisionMsg(t, "commit")]
            BY <1>2, <2>2, MessagesOf, MessagesDiffer
        <3>2. Done("COORD_ABORT", t) > 0
            BY <1>6, <2>2 DEF CoordOpFor
        <3>3. QED
            BY <1>3, <1>5, <3>1, <3>2, CountsOf DEF Flow, OutcomeFlow
    <2>3. QED
        BY <2>1, <2>2 DEF Outcome
<1>15. QED
    BY <1>4, <1>11, <1>12, <1>13, <1>14, FlowStep DEF Flow

LEMMA FlowEndWatch ==
    ASSUME TypeOK, TypeOK', FlowInv, NEW t \in Transfer, EndWatch(t)
    PROVE  FlowInv'
<1>1. \A u \in Transfer : watch'[u] = watch[u] \/ watch'[u] = "off"
    BY DEF EndWatch, TypeOK
<1>2. \A m \in Message : net'[m] <= net[m]
    BY DEF EndWatch, TypeOK
<1>3. QED
    BY <1>1, <1>2, FlowTaken DEF EndWatch, storeVars, engineVars

LEMMA FlowRetries ==
    ASSUME SingleCopies, TypeOK, TypeOK', HomeInv, FlowInv, NEW t \in Transfer,
           \/ DecidePrepare(t) \/ ResendPrepare(t) \/ PrepareTimesOut(t) \/ RetryAbort(t)
           \/ EndWatch(t) \/ \E o \in Outcome : ResendDecision(t, o)
    PROVE  FlowInv'
<1>1. ~PrepareTimesOut(t)
    BY DEF SingleCopies, PrepareTimesOut
<1>2. ~RetryAbort(t)
    BY DEF RetryAbort, FlowInv, Flow, DebitFlow
<1>3. QED
    BY <1>1, <1>2, FlowDecidePrepare, FlowResendPrepare, FlowEndWatch, FlowResendDecision

LEMMA FlowUnchanged ==
    ASSUME TypeOK, TypeOK', FlowInv, UNCHANGED vars
    PROVE  FlowInv'
<1>1. \A m \in Message : net'[m] <= net[m]
    BY DEF vars, TypeOK
<1>2. QED
    BY <1>1, FlowTaken DEF vars, storeVars, engineVars, coordVars

-----------------------------------------------------------------------------
(***************************************************************************)
(* Locks: who has changed an item, or has agreed to, holds its lock.       *)
(***************************************************************************)
NeedsX(t) == HasWAL(Coord(t), t) \/ Agreed("COORD_PREPARE", t) > 0
NeedsY(t) == HasWAL(Part(t), t) \/ Agreed("PART_PREPARE_COMMIT", t) > 0

LocksOf(t) ==
    /\ NeedsX(t) => lock[t.x] = t
    /\ NeedsY(t) => lock[t.y] = t
    /\ Agreed("PART_COMMIT", t) > 0 => HasWAL(Part(t), t)

LockInv == \A t \in Transfer : LocksOf(t)

LEMMA FlowNext ==
    ASSUME SingleCopies, TypeOK, TypeOK', HomeInv, SlotInv, FlowInv, LockInv, [Next]_vars
    PROVE  FlowInv'
<1>1. ASSUME NEW t \in Transfer, NEW k \in Handler, Submit(t, k) \/ ClientHandler(t, k)
      PROVE  FlowInv'
    <2>1. HasWAL(Coord(t), t) => lock[t.x] = t
        BY DEF LockInv, LocksOf, NeedsX
    <2>2. QED
        BY <1>1, <2>1, FlowClients
<1>2. ASSUME NEW c \in Cluster, Ingress(c) \/ Reclaim(c)
      PROVE  FlowInv'
    BY <1>2, FlowIngress, FlowReclaim
<1>3. ASSUME NEW t \in Transfer, Execute(t) \/ Receive(t)
      PROVE  FlowInv'
    BY <1>3, FlowExecute, FlowReceive
<1>4. QED
    BY <1>1, <1>2, <1>3, FlowRetries, FlowUnchanged DEF Next

LEMMA LocksQuiet ==
    ASSUME LockInv, UNCHANGED <<inflight, lock, wal>>
    PROVE  LockInv'
BY DEF LockInv, LocksOf, NeedsX, NeedsY, HasWAL, Agreed

\* An item is freed by the transfer that holds it and needs it no more.
LEMMA LockReleased ==
    ASSUME TypeOK, LockInv, NEW t \in Transfer, NEW i \in Item,
           lock[i] = t, lock' = Released({i}),
           \A u \in Transfer : /\ NeedsX(u)' => NeedsX(u)
                               /\ NeedsY(u)' => NeedsY(u)
                               /\ Agreed("PART_COMMIT", u)' > 0 => HasWAL(Part(u), u)',
           i = t.x => ~NeedsX(t)',
           i = t.y => ~NeedsY(t)'
    PROVE  LockInv'
<1>1. \A j \in Item : j # i => lock'[j] = lock[j]
    BY DEF Released
<1>2. ASSUME NEW u \in Transfer PROVE LocksOf(u)'
    <2>1. LocksOf(u) /\ u.x \in Item /\ u.y \in Item
        BY TransferFields DEF LockInv
    <2>2. NeedsX(u)' => lock'[u.x] = u
        BY <1>1, <2>1 DEF LocksOf
    <2>3. NeedsY(u)' => lock'[u.y] = u
        BY <1>1, <2>1 DEF LocksOf
    <2>4. QED
        BY <2>2, <2>3 DEF LocksOf
<1>3. QED
    BY <1>2 DEF LockInv

LEMMA LocksPropose ==
    ASSUME TypeOK, TypeOK', HomeInv, LockInv, NEW c \in Cluster, Propose(c)
    PROVE  LockInv'
<1>1. PICK e \in Operation : /\ Proposes(c, e, e) /\ ValidForStart(c, e)
                             /\ lock' = Acquired(e) /\ UNCHANGED wal
    BY DEF Propose, Proposes
<1>2. /\ AgreedMore(e.op, e.txn) /\ e.txn \in Transfer
      /\ e = Op(e.op, e.txn) /\ c = HomeOf(e)
    BY <1>1, Proposed, Starting DEF Proposes
<1>3. \A i \in LockItems(e) : lock[i] = NoTransfer
    BY <1>1 DEF ValidForStart, CanAcquire, LockItems
<1>4. \A i \in Item : /\ i \in LockItems(e) => lock'[i] = e.txn
                      /\ lock[i] # NoTransfer => lock'[i] = lock[i]
    BY <1>1, <1>3 DEF Acquired
<1>5. e.op = "PART_COMMIT" => HasWAL(Part(e.txn), e.txn)
    <2>1. e.op = "PART_COMMIT" => HasWAL(c, e.txn)
        BY <1>1 DEF ValidForStart
    <2>2. e.op = "PART_COMMIT" => c = Part(e.txn)
        BY <1>2 DEF HomeOf, CoordOp
    <2>3. QED
        BY <2>1, <2>2
<1>6. ASSUME NEW u \in Transfer PROVE LocksOf(u)'
    <2>1. LocksOf(u) /\ u.x \in Item /\ u.y \in Item /\ u # NoTransfer
        BY TransferFields, TransferAssumption DEF LockInv
    <2>2. \A p : Agreed(p, u)' = Agreed(p, u) \/ (p = e.op /\ u = e.txn)
        BY <1>2 DEF AgreedMore
    <2>3. /\ HasWAL(Coord(u), u)' <=> HasWAL(Coord(u), u)
          /\ HasWAL(Part(u), u)' <=> HasWAL(Part(u), u)
        BY <1>1 DEF HasWAL
    <2>4. NeedsX(u)' => lock'[u.x] = u
        <3>1. CASE e.op = "COORD_PREPARE" /\ u = e.txn
            BY <1>4, <2>1, <3>1 DEF LockItems
        <3>2. CASE ~(e.op = "COORD_PREPARE" /\ u = e.txn)
            <4>1. NeedsX(u)' => NeedsX(u)
                BY <2>2, <2>3, <3>2 DEF NeedsX
            <4>2. QED
                BY <1>4, <2>1, <4>1 DEF LocksOf
        <3>3. QED
            BY <3>1, <3>2
    <2>5. NeedsY(u)' => lock'[u.y] = u
        <3>1. CASE e.op = "PART_PREPARE_COMMIT" /\ u = e.txn
            BY <1>4, <2>1, <3>1 DEF LockItems
        <3>2. CASE ~(e.op = "PART_PREPARE_COMMIT" /\ u = e.txn)
            <4>1. NeedsY(u)' => NeedsY(u)
                BY <2>2, <2>3, <3>2 DEF NeedsY
            <4>2. QED
                BY <1>4, <2>1, <4>1 DEF LocksOf
        <3>3. QED
            BY <3>1, <3>2
    <2>6. Agreed("PART_COMMIT", u)' > 0 => HasWAL(Part(u), u)'
        BY <1>5, <2>1, <2>2, <2>3 DEF LocksOf
    <2>7. QED
        BY <2>4, <2>5, <2>6 DEF LocksOf
<1>7. QED
    BY <1>6 DEF LockInv

\* A step that takes an operation out of flight.
LEMMA FewerAgreed ==
    ASSUME TypeOK, TypeOK', NEW op, NEW t \in Transfer, AgreedLess(op, t)
    PROVE  /\ \A p : \A u \in Transfer : /\ Agreed(p, u)' <= Agreed(p, u)
                                         /\ Agreed(p, u) \in Nat /\ Agreed(p, u)' \in Nat
           /\ Agreed(op, t) > 0 /\ Agreed(op, t)' = Agreed(op, t) - 1
BY CountTypes, CountTypesNext DEF AgreedLess

\* Once the only COORD_PREPARE is out of flight without a debit, x is free.
LEMMA PrepareGivesUpX ==
    ASSUME TypeOK, TypeOK', FlowInv, LockInv, NEW t \in Transfer,
           AgreedLess("COORD_PREPARE", t), UNCHANGED wal, lock' = Released({t.x})
    PROVE  LockInv'
<1>1. /\ \A p : \A u \in Transfer : /\ Agreed(p, u)' <= Agreed(p, u)
                                    /\ Agreed(p, u) \in Nat /\ Agreed(p, u)' \in Nat
      /\ Agreed("COORD_PREPARE", t) > 0
      /\ Agreed("COORD_PREPARE", t)' = Agreed("COORD_PREPARE", t) - 1
    BY FewerAgreed
<1>2. /\ Todo("COORD_PREPARE", t) \in Nat /\ Done("COORD_PREPARE", t) \in Nat
      /\ Agreed("COORD_PREPARE", t) <= Todo("COORD_PREPARE", t)
    BY CountTypes
<1>3. Todo("COORD_PREPARE", t) + Done("COORD_PREPARE", t) <= 1
    BY DEF FlowInv, Flow, DebitFlow
<1>4. Agreed("COORD_PREPARE", t)' = 0 /\ Done("COORD_PREPARE", t) = 0
    BY <1>1, <1>2, <1>3
<1>5. ~HasWAL(Coord(t), t)
    BY <1>4 DEF FlowInv, Flow, DebitFlow
<1>6. ~NeedsX(t)'
    BY <1>4, <1>5 DEF NeedsX, HasWAL
<1>7. lock[t.x] = t /\ t.x \in Item /\ t.x # t.y
    BY <1>1, TransferFields, TransferAssumption DEF LockInv, LocksOf, NeedsX
<1>8. \A u \in Transfer : /\ NeedsX(u)' => NeedsX(u)
                          /\ NeedsY(u)' => NeedsY(u)
                          /\ Agreed("PART_COMMIT", u)' > 0 => HasWAL(Part(u), u)'
    BY <1>1 DEF NeedsX, NeedsY, HasWAL, LockInv, LocksOf
<1>9. QED
    BY <1>6, <1>7, <1>8, LockReleased

\* The same of the only PART_PREPARE_COMMIT and y.
LEMMA VoteGivesUpY ==
    ASSUME TypeOK, TypeOK', FlowInv, LockInv, NEW t \in Transfer,
           AgreedLess("PART_PREPARE_COMMIT", t), UNCHANGED wal, lock' = Released({t.y})
    PROVE  LockInv'
<1>1. /\ \A p : \A u \in Transfer : /\ Agreed(p, u)' <= Agreed(p, u)
                                    /\ Agreed(p, u) \in Nat /\ Agreed(p, u)' \in Nat
      /\ Agreed("PART_PREPARE_COMMIT", t) > 0
      /\ Agreed("PART_PREPARE_COMMIT", t)' = Agreed("PART_PREPARE_COMMIT", t) - 1
    BY FewerAgreed
<1>2. Agreed("PART_PREPARE_COMMIT", t) <= Todo("PART_PREPARE_COMMIT", t)
    BY CountTypes
<1>3. Voting(t) > 0 /\ Voting(t) <= 1 /\ Agreed("PART_PREPARE_COMMIT", t) <= Voting(t)
    <2>1. InPrepare(t) <= 1
        BY DEF FlowInv, Flow, VoteFlow
    <2>2. /\ Todo("PART_PREPARE_COMMIT", t) <= Voting(t)
          /\ Voting(t) <= InPrepare(t)
        BY CountsOf DEF Voting, InPrepare
    <2>3. QED
        BY <1>1, <1>2, <2>1, <2>2, CountsOf
<1>4. Agreed("PART_PREPARE_COMMIT", t)' = 0
    BY <1>1, <1>3, CountsOf
<1>5. Done("PART_PREPARE_COMMIT", t) = 0
    BY <1>3, CountsOf DEF FlowInv, Flow, VoteFlow, Voted
<1>6. ~HasWAL(Part(t), t)
    BY <1>5 DEF FlowInv, Flow, VoteFlow
<1>7. ~NeedsY(t)'
    BY <1>4, <1>6 DEF NeedsY, HasWAL
<1>8. lock[t.y] = t /\ t.y \in Item /\ t.x # t.y
    BY <1>1, TransferFields, TransferAssumption DEF LockInv, LocksOf, NeedsY
<1>9. \A u \in Transfer : /\ NeedsX(u)' => NeedsX(u)
                          /\ NeedsY(u)' => NeedsY(u)
                          /\ Agreed("PART_COMMIT", u)' > 0 => HasWAL(Part(u), u)'
    BY <1>1 DEF NeedsX, NeedsY, HasWAL, LockInv, LocksOf
<1>10. QED
    BY <1>7, <1>8, <1>9, LockReleased

\* What leaves lock and WAL alone and takes an operation out of flight.
LEMMA LocksFewer ==
    ASSUME LockInv, UNCHANGED <<lock, wal>>,
           \A p : \A u \in Transfer : /\ Agreed(p, u)' <= Agreed(p, u)
                                      /\ Agreed(p, u) \in Nat /\ Agreed(p, u)' \in Nat
    PROVE  LockInv'
BY DEF LockInv, LocksOf, NeedsX, NeedsY, HasWAL

LEMMA LocksReclaim ==
    ASSUME TypeOK, TypeOK', HomeInv, FlowInv, LockInv, NEW c \in Cluster, Reclaim(c)
    PROVE  LockInv'
<1>1. PICK i \in DOMAIN inflight[c] :
          /\ Reclaims(c, i) /\ inflight[c][i].op \in PrepareOp
          /\ lock' = Released(LockItems(inflight[c][i]))
    BY DEF Reclaim, Reclaims
<1>2. PICK e : e = inflight[c][i]
    OBVIOUS
<1>3. /\ e.txn \in Transfer /\ AgreedLess(e.op, e.txn)
      /\ e.op \in PrepareOp /\ lock' = Released(LockItems(e))
    BY <1>1, <1>2, Reclaimed
<1>4. UNCHANGED wal
    BY DEF Reclaim
<1>5. CASE e.op = "COORD_PREPARE"
    <2>1. LockItems(e) = {e.txn.x}
        BY <1>5 DEF LockItems
    <2>2. QED
        BY <1>3, <1>4, <1>5, <2>1, PrepareGivesUpX
<1>6. CASE e.op = "PART_PREPARE_COMMIT"
    <2>1. LockItems(e) = {e.txn.y}
        BY <1>6 DEF LockItems
    <2>2. QED
        BY <1>3, <1>4, <1>6, <2>1, VoteGivesUpY
<1>7. CASE e.op = "PART_PREPARE_ABORT"
    <2>1. LockItems(e) = {}
        BY <1>7 DEF LockItems
    <2>2. lock' = lock
        BY <1>3, <2>1 DEF Released, TypeOK
    <2>3. QED
        BY <1>3, <1>4, <2>2, FewerAgreed, LocksFewer
<1>8. QED
    BY <1>3, <1>5, <1>6, <1>7 DEF PrepareOp

\* A debit or a credit is made under the lock that its proposal took.
LEMMA LocksWritten ==
    ASSUME TypeOK, TypeOK', LockInv, NEW t \in Transfer, NEW op, AgreedLess(op, t),
           UNCHANGED lock,
           \/ /\ op = "COORD_PREPARE" /\ HasWAL(Coord(t), t)'
              /\ \A c \in Cluster, u \in Transfer : c # Coord(t) \/ u # t => wal'[c][u] = wal[c][u]
           \/ /\ op = "PART_PREPARE_COMMIT" /\ HasWAL(Part(t), t)'
              /\ \A c \in Cluster, u \in Transfer : c # Part(t) \/ u # t => wal'[c][u] = wal[c][u]
    PROVE  LockInv'
<1>1. /\ \A p : \A u \in Transfer : /\ Agreed(p, u)' <= Agreed(p, u)
                                    /\ Agreed(p, u) \in Nat /\ Agreed(p, u)' \in Nat
      /\ Agreed(op, t) > 0
    BY FewerAgreed
<1>2. ASSUME NEW u \in Transfer PROVE LocksOf(u)'
    <2>1. LocksOf(u)
        BY DEF LockInv
    <2>2. \A p : Agreed(p, u)' > 0 => Agreed(p, u) > 0
        BY <1>1
    <2>3. Coord(u) \in Cluster /\ Part(u) \in Cluster /\ Coord(t) # Part(t)
        BY TransferFields, OperationNames
    <2>4. HasWAL(Coord(u), u)' => HasWAL(Coord(u), u) \/ (u = t /\ op = "COORD_PREPARE")
        BY <2>3 DEF HasWAL
    <2>5. /\ HasWAL(Part(u), u)' => HasWAL(Part(u), u) \/ (u = t /\ op = "PART_PREPARE_COMMIT")
          /\ HasWAL(Part(u), u) => HasWAL(Part(u), u)'
        BY <2>3 DEF HasWAL
    <2>6. NeedsX(u)' => NeedsX(u)
        BY <1>1, <2>2, <2>4 DEF NeedsX
    <2>7. NeedsY(u)' => NeedsY(u)
        BY <1>1, <2>2, <2>5 DEF NeedsY
    <2>8. QED
        BY <2>1, <2>2, <2>5, <2>6, <2>7 DEF LocksOf
<1>3. QED
    BY <1>2 DEF LockInv

LEMMA LocksCoordPrepare ==
    ASSUME TypeOK, TypeOK', FlowInv, LockInv, NEW t \in Transfer, ExecuteCoordPrepare(t)
    PROVE  LockInv'
<1>1. AgreedLess("COORD_PREPARE", t)
    BY CoordPrepareMoves
<1>2. CASE bal[t.x] >= t.amt
    <2>1. wal' = [wal EXCEPT ![Coord(t)][t] = bal[t.x]] /\ UNCHANGED lock
        BY <1>2 DEF ExecuteCoordPrepare
    <2>2. bal[t.x] \in Nat /\ Coord(t) \in Cluster
        BY TransferFields DEF TypeOK
    <2>3. /\ wal'[Coord(t)][t] = bal[t.x]
          /\ \A c \in Cluster, u \in Transfer : c # Coord(t) \/ u # t => wal'[c][u] = wal[c][u]
        BY <2>1, <2>2 DEF TypeOK
    <2>4. HasWAL(Coord(t), t)'
        BY <2>2, <2>3 DEF HasWAL, NoPreimage
    <2>5. QED
        BY <1>1, <2>1, <2>3, <2>4, LocksWritten
<1>3. CASE ~(bal[t.x] >= t.amt)
    <2>1. lock' = Released({t.x}) /\ UNCHANGED wal
        BY <1>3 DEF ExecuteCoordPrepare
    <2>2. QED
        BY <1>1, <2>1, PrepareGivesUpX
<1>4. QED
    BY <1>2, <1>3

LEMMA LocksPartPrepare ==
    ASSUME TypeOK, TypeOK', FlowInv, LockInv, NEW t \in Transfer,
           ExecutePartPrepareCommit(t) \/ ExecutePartPrepareAbort(t)
    PROVE  LockInv'
<1>1. "PART_PREPARE_COMMIT" \in PartOp /\ "PART_PREPARE_ABORT" \in PartOp
    BY DEF PartOp
<1>2. CASE ExecutePartPrepareCommit(t)
    <2>1. AgreedLess("PART_PREPARE_COMMIT", t) /\ UNCHANGED lock
        BY <1>1, <1>2, VoteMoves DEF ExecutePartPrepareCommit
    <2>2. /\ HasWAL(Part(t), t)'
          /\ \A c \in Cluster, u \in Transfer : c # Part(t) \/ u # t => wal'[c][u] = wal[c][u]
        <3>1. CASE HasWAL(Part(t), t)
            BY <1>2, <3>1 DEF ExecutePartPrepareCommit, HasWAL
        <3>2. CASE ~HasWAL(Part(t), t)
            <4>1. wal' = [wal EXCEPT ![Part(t)][t] = bal[t.y]]
                BY <1>2, <3>2 DEF ExecutePartPrepareCommit
            <4>2. bal[t.y] \in Nat /\ Part(t) \in Cluster
                BY TransferFields DEF TypeOK
            <4>3. /\ wal'[Part(t)][t] = bal[t.y]
                  /\ \A c \in Cluster, u \in Transfer : c # Part(t) \/ u # t => wal'[c][u] = wal[c][u]
                BY <4>1, <4>2 DEF TypeOK
            <4>4. QED
                BY <4>2, <4>3 DEF HasWAL, NoPreimage
        <3>3. QED
            BY <3>1, <3>2
    <2>3. QED
        BY <2>1, <2>2, LocksWritten
<1>3. CASE ExecutePartPrepareAbort(t)
    <2>1. AgreedLess("PART_PREPARE_ABORT", t) /\ UNCHANGED <<lock, wal>>
        BY <1>1, <1>3, VoteMoves DEF ExecutePartPrepareAbort
    <2>2. QED
        BY <2>1, FewerAgreed, LocksFewer
<1>4. QED
    BY <1>2, <1>3

LEMMA LocksDecision ==
    ASSUME TypeOK, TypeOK', FlowInv, LockInv, NEW t \in Transfer, NEW o \in Outcome,
           ExecuteDecision(t, o)
    PROVE  LockInv'
<1>1. /\ AgreedLess(CoordOpFor(o), t) /\ TodoLess(CoordOpFor(o), t)
      /\ wal'[Coord(t)][t] = NoPreimage
      /\ \A d \in Cluster, u \in Transfer : d # Coord(t) \/ u # t => wal'[d][u] = wal[d][u]
    BY DecisionMoves
<1>2. lock' = Released({t.x})
    BY DEF ExecuteDecision, Settles
<1>3. \A p : \A u \in Transfer : /\ Agreed(p, u)' <= Agreed(p, u)
                                 /\ Agreed(p, u) \in Nat /\ Agreed(p, u)' \in Nat
    BY <1>1, FewerAgreed
<1>4. Todo("COORD_COMMIT", t) + Todo("COORD_ABORT", t) > 0
    <2>1. Todo(CoordOpFor(o), t) > 0
        BY <1>1, CountTypesNext DEF TodoLess
    <2>2. QED
        BY <2>1, CountsOf DEF CoordOpFor
<1>5. HasWAL(Coord(t), t)
    BY <1>4 DEF FlowInv, Flow, DecisionFlow
<1>6. Agreed("COORD_PREPARE", t)' = 0
    <2>1. Todo("COORD_PREPARE", t) = 0
        BY <1>5, CountsOf DEF FlowInv, Flow, DebitFlow
    <2>2. Agreed("COORD_PREPARE", t) <= Todo("COORD_PREPARE", t)
        BY CountTypes
    <2>3. QED
        BY <1>3, <2>1, <2>2
<1>7. ~NeedsX(t)'
    BY <1>1, <1>6 DEF NeedsX, HasWAL
<1>8. lock[t.x] = t /\ t.x \in Item /\ t.x # t.y
    BY <1>5, TransferFields, TransferAssumption DEF LockInv, LocksOf, NeedsX
<1>9. ASSUME NEW u \in Transfer
      PROVE  /\ NeedsX(u)' => NeedsX(u)
             /\ NeedsY(u)' => NeedsY(u)
             /\ Agreed("PART_COMMIT", u)' > 0 => HasWAL(Part(u), u)'
    <2>1. Coord(u) \in Cluster /\ Part(u) \in Cluster /\ Coord(t) # Part(t)
        BY TransferFields, OperationNames
    <2>2. /\ HasWAL(Coord(u), u)' => HasWAL(Coord(u), u)
          /\ HasWAL(Part(u), u)' <=> HasWAL(Part(u), u)
        BY <1>1, <2>1 DEF HasWAL
    <2>3. \A p : Agreed(p, u)' > 0 => Agreed(p, u) > 0
        BY <1>3
    <2>4. QED
        BY <2>2, <2>3 DEF NeedsX, NeedsY, LockInv, LocksOf
<1>10. QED
    BY <1>2, <1>7, <1>8, <1>9, LockReleased

LEMMA LocksOutcome ==
    ASSUME TypeOK, TypeOK', FlowInv, LockInv, NEW t \in Transfer, NEW o \in Outcome,
           ExecuteOutcome(t, o)
    PROVE  LockInv'
<1>1. /\ AgreedLess(PartOpFor(o), t) /\ TodoLess(PartOpFor(o), t)
      /\ wal'[Part(t)][t] = NoPreimage
      /\ \A d \in Cluster, u \in Transfer : d # Part(t) \/ u # t => wal'[d][u] = wal[d][u]
    BY OutcomeMoves
<1>2. lock' = Released({t.y})
    BY DEF ExecuteOutcome, Settles
<1>3. \A p : \A u \in Transfer : /\ Agreed(p, u)' <= Agreed(p, u)
                                 /\ Agreed(p, u) \in Nat /\ Agreed(p, u)' \in Nat
    BY <1>1, FewerAgreed
<1>4. PartOpFor(o) = "PART_COMMIT"
    <2>1. Todo(PartOpFor(o), t) > 0
        BY <1>1, CountTypesNext DEF TodoLess
    <2>2. QED
        BY <2>1, CountsOf DEF PartOpFor, FlowInv, Flow, OutcomeFlow
<1>5. /\ Agreed("PART_COMMIT", t) > 0
      /\ Agreed("PART_COMMIT", t)' = Agreed("PART_COMMIT", t) - 1
    BY <1>1, <1>4, FewerAgreed
<1>6. HasWAL(Part(t), t)
    BY <1>5 DEF LockInv, LocksOf
<1>7. Agreed("PART_PREPARE_COMMIT", t)' = 0
    <2>1. Voted(t)
        BY <1>6, CountsOf DEF FlowInv, Flow, VoteFlow, Voted
    <2>2. Voting(t) = 0
        BY <2>1, CountsOf DEF FlowInv, Flow, VoteFlow
    <2>3. Agreed("PART_PREPARE_COMMIT", t) <= Todo("PART_PREPARE_COMMIT", t)
        BY CountTypes
    <2>4. Todo("PART_PREPARE_COMMIT", t) = 0
        BY <2>2, CountsOf DEF Voting
    <2>5. QED
        BY <1>3, <2>3, <2>4
<1>8. Agreed("PART_COMMIT", t)' = 0
    <2>1. Todo("PART_COMMIT", t) <= 1
        BY CountsOf DEF FlowInv, Flow, OutcomeFlow
    <2>2. Agreed("PART_COMMIT", t) <= Todo("PART_COMMIT", t)
        BY CountTypes
    <2>3. QED
        BY <1>3, <1>5, <2>1, <2>2, CountsOf
<1>9. ~NeedsY(t)'
    BY <1>1, <1>7 DEF NeedsY, HasWAL
<1>10. lock[t.y] = t /\ t.y \in Item /\ t.x # t.y
    BY <1>6, TransferFields, TransferAssumption DEF LockInv, LocksOf, NeedsY
<1>11. ASSUME NEW u \in Transfer
       PROVE  /\ NeedsX(u)' => NeedsX(u)
              /\ NeedsY(u)' => NeedsY(u)
              /\ Agreed("PART_COMMIT", u)' > 0 => HasWAL(Part(u), u)'
    <2>1. Coord(u) \in Cluster /\ Part(u) \in Cluster /\ Coord(t) # Part(t)
        BY TransferFields, OperationNames
    <2>2. /\ HasWAL(Coord(u), u)' <=> HasWAL(Coord(u), u)
          /\ HasWAL(Part(u), u)' => HasWAL(Part(u), u)
          /\ u # t => (HasWAL(Part(u), u)' <=> HasWAL(Part(u), u))
        BY <1>1, <2>1 DEF HasWAL
    <2>3. \A p : Agreed(p, u)' > 0 => Agreed(p, u) > 0
        BY <1>3
    <2>4. QED
        BY <1>8, <2>2, <2>3 DEF NeedsX, NeedsY, LockInv, LocksOf
<1>12. QED
    BY <1>2, <1>9, <1>10, <1>11, LockReleased

LEMMA LocksNext ==
    ASSUME TypeOK, TypeOK', HomeInv, FlowInv, LockInv, [Next]_vars
    PROVE  LockInv'
<1>1. ASSUME NEW t \in Transfer, NEW k \in Handler, Submit(t, k) \/ ClientHandler(t, k)
      PROVE  LockInv'
    <2>1. UNCHANGED <<inflight, lock, wal>>
        BY <1>1 DEF Submit, ClientHandler, AcquireCrossSlot, CrossSlotExpires, StartPrepare,
                    DropClientRequest, storeVars, engineVars
    <2>2. QED
        BY <2>1, LocksQuiet
<1>2. ASSUME NEW c \in Cluster, Ingress(c)
      PROVE  LockInv'
    <2>1. CASE Take(c) \/ Refuse(c)
        <3>1. UNCHANGED <<inflight, lock, wal>>
            BY <2>1 DEF Take, Refuse, storeVars
        <3>2. QED
            BY <3>1, LocksQuiet
    <2>2. QED
        BY <1>2, <2>1, LocksPropose, NothingBurnt DEF Ingress
<1>3. ASSUME NEW t \in Transfer, Execute(t)
      PROVE  LockInv'
    BY <1>3, LocksCoordPrepare, LocksPartPrepare, LocksDecision, LocksOutcome DEF Execute
<1>4. ASSUME NEW t \in Transfer, Receive(t)
      PROVE  LockInv'
    <2>1. UNCHANGED <<inflight, lock, wal>>
        BY <1>4 DEF Receive, OnPrepare, OnStaleReply, OnReply, OnDecision, OnAck, storeVars,
                    engineVars
    <2>2. QED
        BY <2>1, LocksQuiet
<1>5. ASSUME NEW t \in Transfer,
             \/ DecidePrepare(t) \/ ResendPrepare(t) \/ PrepareTimesOut(t) \/ RetryAbort(t)
             \/ EndWatch(t) \/ \E o \in Outcome : ResendDecision(t, o)
      PROVE  LockInv'
    <2>1. UNCHANGED <<inflight, lock, wal>>
        BY <1>5 DEF DecidePrepare, ResendPrepare, PrepareTimesOut, RetryAbort, EndWatch,
                    ResendDecision, storeVars, engineVars
    <2>2. QED
        BY <2>1, LocksQuiet
<1>6. CASE UNCHANGED vars
    BY <1>6, LocksQuiet DEF vars, storeVars, engineVars
<1>7. QED
    BY <1>1, <1>2, <1>3, <1>4, <1>5, <1>6, LocksReclaim DEF Next

-----------------------------------------------------------------------------
(***************************************************************************)
(* The inductive invariant, and what follows from it.                      *)
(***************************************************************************)
TransfersInv == TypeOK /\ HomeInv /\ SlotInv /\ FlowInv /\ LockInv

LEMMA CountsInit ==
    ASSUME Init
    PROVE  \A op : \A t \in Transfer : Todo(op, t) = 0 /\ Agreed(op, t) = 0 /\ Done(op, t) = 0
<1>1. \A E : Copies(<<>>, E) = 0
    BY CopiesSmall
<1>2. QED
    BY <1>1, HomesAreClusters DEF Init, Todo, Agreed, Done, Live

LEMMA TransfersInit == Init => TransfersInv
<1> SUFFICES ASSUME Init PROVE TransfersInv
    OBVIOUS
<1>1. TypeOK /\ HomeInv /\ SlotInv
    BY TypeInit, HomeInit, SlotInit
<1>2. ASSUME NEW t \in Transfer PROVE Flow(t) /\ LocksOf(t)
    <2>1. \A op : Todo(op, t) = 0 /\ Agreed(op, t) = 0 /\ Done(op, t) = 0
        BY CountsInit
    <2>2. ~HasWAL(Coord(t), t) /\ ~HasWAL(Part(t), t)
        BY TransferFields DEF Init, HasWAL
    <2>3. /\ net[PrepareMsg(t)] = 0
          /\ \A o \in {"commit", "abort"} : /\ net[ReplyMsg(t, o, "coord")] = 0
                                            /\ net[ReplyMsg(t, o, "part")] = 0
                                            /\ net[DecisionMsg(t, o)] = 0
        BY MessagesOf DEF Init
    <2>4. watch[t] = "off" /\ preparing[t] = 0 /\ t \notin commitStarted
        BY DEF Init
    <2>5. ~Voted(t) /\ Voting(t) = 0 /\ InPrepare(t) = 0 /\ Replies(t) = 0
        BY <2>1, <2>3, <2>4 DEF Voted, Voting, InPrepare, Replies
    <2>6. DebitFlow(t) /\ VoteFlow(t)
        BY <2>1, <2>2, <2>3, <2>4, <2>5 DEF DebitFlow, VoteFlow
    <2>7. DecisionFlow(t) /\ OutcomeFlow(t)
        BY <2>1, <2>3, <2>4 DEF DecisionFlow, OutcomeFlow
    <2>8. LocksOf(t)
        BY <2>1, <2>2 DEF LocksOf, NeedsX, NeedsY
    <2>9. QED
        BY <2>6, <2>7, <2>8 DEF Flow
<1>3. QED
    BY <1>1, <1>2 DEF TransfersInv, FlowInv, LockInv

LEMMA TransfersNext ==
    ASSUME SingleCopies
    PROVE  TransfersInv /\ [Next]_vars => TransfersInv'
<1> SUFFICES ASSUME TransfersInv, [Next]_vars PROVE TransfersInv'
    OBVIOUS
<1> USE DEF TransfersInv
<1>1. TypeOK'
    BY TypeStep
<1>2. HomeInv' /\ SlotInv'
    BY <1>1, HomeNext, SlotNext
<1>3. FlowInv' /\ LockInv'
    BY <1>1, FlowNext, LocksNext
<1>4. QED
    BY <1>1, <1>2, <1>3

LEMMA TransfersInvariant ==
    ASSUME SingleCopies
    PROVE  Spec => []TransfersInv
<1>1. Init => TransfersInv
    BY TransfersInit
<1>2. TransfersInv /\ [Next]_vars => TransfersInv'
    BY TransfersNext
<1>3. QED
    BY <1>1, <1>2, PTL DEF Spec

\* What a prepared transfer has changed stays locked for it until its commit
\* or abort executes.
THEOREM HoldsLock ==
    ASSUME SingleCopies
    PROVE  Spec => []PreparedHoldsLock
<1>1. TransfersInv => PreparedHoldsLock
    BY DEF TransfersInv, LockInv, LocksOf, NeedsX, NeedsY, PreparedHoldsLock
<1>2. QED
    BY <1>1, TransfersInvariant, PTL

\* No sequence number is used up for nothing: the participant is never told
\* to abort what it has voted for, so locksHeldForCommitOp does not fail after
\* the number is assigned.
THEOREM NoHole ==
    ASSUME SingleCopies
    PROVE  Spec => []NoSequenceHole
<1>1. TransfersInv => NoSequenceHole
    <2> SUFFICES ASSUME TransfersInv, NEW c \in Cluster, NEW i \in DOMAIN inflight[c]
                 PROVE  inflight[c][i].op # "HOLE"
        BY DEF NoSequenceHole
    <2>1. PICK e \in OpsOf(inflight[c]) : e = inflight[c][i]
        BY DEF OpsOf
    <2>2. e.txn \in Transfer /\ Agreed(e.op, e.txn) > 0
        BY InFlight DEF TransfersInv
    <2>3. Todo(e.op, e.txn) > 0
        BY <2>2, CountTypes DEF TransfersInv
    <2>4. e.op # "HOLE"
        BY <2>2, <2>3 DEF TransfersInv, FlowInv, Flow, OutcomeFlow
    <2>5. QED
        BY <2>1, <2>4
<1>2. QED
    BY <1>1, TransfersInvariant, PTL

\* The coordinator cluster records one outcome of a transfer, not both.
THEOREM OneOutcome ==
    ASSUME SingleCopies
    PROVE  Spec => []DecidedOnce
<1>1. TransfersInv => DecidedOnce
    <2> SUFFICES ASSUME TransfersInv, NEW t \in Transfer,
                        Recorded(Coord(t), Op("COORD_COMMIT", t)),
                        Recorded(Coord(t), Op("COORD_ABORT", t))
                 PROVE  FALSE
        BY DEF DecidedOnce
    <2>1. /\ HomeOf(Op("COORD_COMMIT", t)) = Coord(t)
          /\ HomeOf(Op("COORD_ABORT", t)) = Coord(t)
        BY OperationNames DEF CoordOp
    <2>2. Done("COORD_COMMIT", t) > 0 /\ Done("COORD_ABORT", t) > 0
        BY <2>1, RecordedIsDone DEF TransfersInv
    <2>3. Done("PART_PREPARE_COMMIT", t) > 0 /\ Done("PART_PREPARE_ABORT", t) > 0
        BY <2>2, CountsOf DEF TransfersInv, FlowInv, Flow, DecisionFlow
    <2>4. QED
        BY <2>3 DEF TransfersInv, FlowInv, Flow, VoteFlow
<1>2. QED
    BY <1>1, TransfersInvariant, PTL

\* Two entries of one operation count at least two.
LEMMA TwoPositions ==
    ASSUME NEW s \in Seq(Operation), NEW e \in Operation, Copies(s, {e}) <= 1,
           NEW i \in DOMAIN s, NEW j \in DOMAIN s, s[i] = e, s[j] = e
    PROVE  i = j
<1> DEFINE P == Positions(s, {e})
<1>1. i \in P /\ j \in P
    BY DEF Positions
<1>2. IsFiniteSet(DOMAIN s) /\ P \subseteq DOMAIN s
    <2>1. DOMAIN s = 1 .. Len(s) /\ Len(s) \in Nat
        OBVIOUS
    <2>2. IsFiniteSet(1 .. Len(s))
        BY <2>1, FS_Interval
    <2>3. QED
        BY <2>1, <2>2 DEF Positions
<1> HIDE DEF P
<1>3. IsFiniteSet(P)
    BY <1>2, FS_Subset
<1>4. {i, j} \subseteq P
    BY <1>1
<1>5. IsFiniteSet({i, j}) /\ Cardinality({i, j}) <= Cardinality(P)
    BY <1>3, <1>4, FS_Subset
<1>6. i # j => Cardinality({i, j}) = 2
    <2>1. SUFFICES ASSUME i # j PROVE Cardinality({i, j}) = 2
        OBVIOUS
    <2>2. IsFiniteSet({i}) /\ Cardinality({i}) = 1
        BY FS_Singleton
    <2>3. {i} \cup {j} = {i, j} /\ j \notin {i}
        BY <2>1
    <2>4. Cardinality({i} \cup {j}) = Cardinality({i}) + 1
        BY <2>2, <2>3, FS_AddElement
    <2>5. Cardinality({i, j}) = 1 + 1
        BY <2>2, <2>3, <2>4, Zenon
    <2>6. QED
        BY <2>5
<1>7. Cardinality(P) <= 1
    BY DEF P, Copies
<1>8. Cardinality(P) \in Nat
    BY <1>3, FS_CardinalityType
<1>9. QED
    BY <1>5, <1>6, <1>7, <1>8

\* However often clients resend it, a transfer is debited at most once.
THEOREM OneDebit ==
    ASSUME SingleCopies
    PROVE  Spec => []DebitedAtMostOnce
<1>1. TransfersInv => DebitedAtMostOnce
    <2> SUFFICES ASSUME TransfersInv, NEW t \in Transfer,
                        NEW i \in DOMAIN datastore[Coord(t)],
                        NEW j \in DOMAIN datastore[Coord(t)],
                        datastore[Coord(t)][i] = Op("COORD_PREPARE", t),
                        datastore[Coord(t)][j] = Op("COORD_PREPARE", t)
                 PROVE  i = j
        BY DEF DebitedAtMostOnce
    <2>1. /\ HomeOf(Op("COORD_PREPARE", t)) = Coord(t)
          /\ Op("COORD_PREPARE", t) \in Operation
        BY OperationNames, OperationTypes DEF CoordOp
    <2>2. datastore[Coord(t)] \in Seq(Operation)
        BY TransferFields DEF TransfersInv, TypeOK
    <2>3. Done("COORD_PREPARE", t) <= 1
        BY CountsOf DEF TransfersInv, FlowInv, Flow, DebitFlow
    <2>4. Copies(datastore[Coord(t)], {Op("COORD_PREPARE", t)}) <= 1
        BY <2>1, <2>3 DEF Done
    <2>5. QED
        BY <2>1, <2>2, <2>4, TwoPositions
<1>2. QED
    BY <1>1, TransfersInvariant, PTL

-----------------------------------------------------------------------------
(***************************************************************************)
(* Balances and preimages.                                                 *)
(***************************************************************************)
BalancesOf(t) ==
    /\ HasWAL(Coord(t), t) => wal[Coord(t)][t] = bal[t.x] + t.amt
    /\ HasWAL(Part(t), t) => bal[t.y] = wal[Part(t)][t] + t.amt
    /\ Done("PART_PREPARE_COMMIT", t) > 0 => HasWAL(Part(t), t) \/ Done("PART_COMMIT", t) > 0

BalancesInv == \A t \in Transfer : BalancesOf(t)

LEMMA BalancesQuiet ==
    ASSUME BalancesInv, UNCHANGED <<bal, wal, datastore>>
    PROVE  BalancesInv'
BY DEF BalancesInv, BalancesOf, HasWAL, Done

\* Whoever holds the lock of an item may change its balance.
LEMMA BalancesElsewhere ==
    ASSUME TypeOK, LockInv, BalancesInv, NEW t \in Transfer, NEW i \in Item, lock[i] = t,
           \A j \in Item : j # i => bal'[j] = bal[j],
           \A c \in Cluster, u \in Transfer : u # t => wal'[c][u] = wal[c][u],
           \A op : \A u \in Transfer : u # t => Done(op, u)' = Done(op, u),
           BalancesOf(t)'
    PROVE  BalancesInv'
<1>1. ASSUME NEW u \in Transfer, u # t PROVE BalancesOf(u)'
    <2>1. /\ u.x \in Item /\ u.y \in Item /\ Coord(u) \in Cluster /\ Part(u) \in Cluster
          /\ BalancesOf(u) /\ LocksOf(u)
        BY TransferFields DEF BalancesInv, LockInv
    <2>2. /\ wal'[Coord(u)][u] = wal[Coord(u)][u] /\ wal'[Part(u)][u] = wal[Part(u)][u]
          /\ HasWAL(Coord(u), u)' <=> HasWAL(Coord(u), u)
          /\ HasWAL(Part(u), u)' <=> HasWAL(Part(u), u)
        BY <1>1, <2>1 DEF HasWAL
    <2>3. /\ HasWAL(Coord(u), u) => bal'[u.x] = bal[u.x]
          /\ HasWAL(Part(u), u) => bal'[u.y] = bal[u.y]
        BY <1>1, <2>1 DEF LocksOf, NeedsX, NeedsY
    <2>4. \A op : Done(op, u)' = Done(op, u)
        BY <1>1
    <2>5. QED
        BY <2>1, <2>2, <2>3, <2>4 DEF BalancesOf
<1>2. QED
    BY <1>1 DEF BalancesInv

LEMMA BalancesCoordPrepare ==
    ASSUME TypeOK, TypeOK', FlowInv, LockInv, BalancesInv, NEW t \in Transfer,
           ExecuteCoordPrepare(t)
    PROVE  /\ BalancesInv'
           /\ bal[t.x] >= t.amt =>
                 /\ lock[t.x] = t /\ ~HasWAL(Coord(t), t) /\ HasWAL(Coord(t), t)'
                 /\ bal'[t.x] = bal[t.x] - t.amt
                 /\ \A j \in Item : j # t.x => bal'[j] = bal[j]
                 /\ \A c \in Cluster, u \in Transfer :
                       c # Coord(t) \/ u # t => wal'[c][u] = wal[c][u]
                 /\ \A op : \A u \in Transfer :
                       op # "COORD_PREPARE" \/ u # t => Done(op, u)' = Done(op, u)
           /\ ~(bal[t.x] >= t.amt) => UNCHANGED <<bal, wal, datastore>>
<1>1. CASE ~(bal[t.x] >= t.amt)
    <2>1. UNCHANGED <<bal, wal, datastore>>
        BY <1>1 DEF ExecuteCoordPrepare
    <2>2. QED
        BY <1>1, <2>1, BalancesQuiet
<1>2. CASE bal[t.x] >= t.amt
    <2>1. /\ wal' = [wal EXCEPT ![Coord(t)][t] = bal[t.x]]
          /\ bal' = [bal EXCEPT ![t.x] = @ - t.amt]
          /\ datastore' = Appended(Coord(t), Op("COORD_PREPARE", t))
        BY <1>2 DEF ExecuteCoordPrepare
    <2>2. /\ bal[t.x] \in Nat /\ t.x \in Item /\ t.y \in Item /\ t.amt \in Nat
          /\ Coord(t) \in Cluster /\ Part(t) \in Cluster /\ Coord(t) # Part(t)
          /\ t.x # t.y
        BY TransferFields, OperationNames, TransferAssumption DEF TypeOK
    <2>3. /\ bal'[t.x] = bal[t.x] - t.amt
          /\ \A j \in Item : j # t.x => bal'[j] = bal[j]
          /\ wal'[Coord(t)][t] = bal[t.x]
          /\ \A c \in Cluster, u \in Transfer : c # Coord(t) \/ u # t => wal'[c][u] = wal[c][u]
        <3>1. /\ bal'[t.x] = bal[t.x] - t.amt
              /\ \A j \in Item : j # t.x => bal'[j] = bal[j]
            BY <2>1, <2>2 DEF TypeOK
        <3>2. wal'[Coord(t)][t] = bal[t.x]
            BY <2>1, <2>2, WALType
        <3>3. ASSUME NEW c \in Cluster, NEW u \in Transfer, c # Coord(t) \/ u # t
              PROVE  wal'[c][u] = wal[c][u]
            BY <2>1, <3>3, WALType
        <3>4. QED
            BY <3>1, <3>2, <3>3
    <2>4. HasWAL(Coord(t), t)'
        BY <2>2, <2>3 DEF HasWAL, NoPreimage
    <2>5. DoneMore("COORD_PREPARE", t)
        <3>1. /\ HomeOf(Op("COORD_PREPARE", t)) = Coord(t)
              /\ Op("COORD_PREPARE", t) \in Operation
            BY OperationNames, OperationTypes DEF CoordOp
        <3>2. QED
            BY <2>1, <3>1, AppendedRecord
    <2>6. \A op : \A u \in Transfer :
              op # "COORD_PREPARE" \/ u # t => Done(op, u)' = Done(op, u)
        BY <2>5 DEF DoneMore
    <2>7. lock[t.x] = t
        BY CoordPrepareMoves, FewerAgreed DEF LockInv, LocksOf, NeedsX
    <2>8. ~HasWAL(Coord(t), t)
        <3>1. AgreedLess("COORD_PREPARE", t)
            BY CoordPrepareMoves
        <3>2. Agreed("COORD_PREPARE", t) > 0
            BY <3>1, FewerAgreed
        <3>3. Todo("COORD_PREPARE", t) > 0
            BY <3>2, CountTypes
        <3>4. QED
            BY <3>3, CountsOf DEF FlowInv, Flow, DebitFlow
    <2>9. BalancesOf(t)'
        <3>1. wal'[Part(t)][t] = wal[Part(t)][t] /\ bal'[t.y] = bal[t.y]
            BY <2>2, <2>3
        <3>2. BalancesOf(t)
            BY DEF BalancesInv
        <3>3. QED
            BY <2>2, <2>3, <2>6, <3>1, <3>2 DEF BalancesOf, HasWAL
    <2>10. BalancesInv'
        BY <2>2, <2>3, <2>6, <2>7, <2>9, BalancesElsewhere
    <2>11. QED
        BY <1>2, <2>3, <2>4, <2>6, <2>7, <2>8, <2>10
<1>3. QED
    BY <1>1, <1>2

LEMMA BalancesVote ==
    ASSUME TypeOK, TypeOK', FlowInv, LockInv, BalancesInv, NEW t \in Transfer,
           ExecutePartPrepareCommit(t)
    PROVE  /\ BalancesInv'
           /\ lock[t.y] = t /\ ~HasWAL(Part(t), t) /\ HasWAL(Part(t), t)'
           /\ bal'[t.y] = bal[t.y] + t.amt
           /\ \A j \in Item : j # t.y => bal'[j] = bal[j]
           /\ \A c \in Cluster, u \in Transfer :
                 c # Part(t) \/ u # t => wal'[c][u] = wal[c][u]
           /\ \A op : \A u \in Transfer :
                 op # "PART_PREPARE_COMMIT" \/ u # t => Done(op, u)' = Done(op, u)
           /\ Done("COORD_COMMIT", t) = 0
<1>1. "PART_PREPARE_COMMIT" \in PartOp
    BY DEF PartOp
<1>2. /\ AgreedLess("PART_PREPARE_COMMIT", t) /\ TodoLess("PART_PREPARE_COMMIT", t)
      /\ DoneMore("PART_PREPARE_COMMIT", t)
    BY <1>1, VoteMoves DEF ExecutePartPrepareCommit
<1>3. Agreed("PART_PREPARE_COMMIT", t) > 0
    BY <1>2, FewerAgreed
<1>4. lock[t.y] = t
    BY <1>3 DEF LockInv, LocksOf, NeedsY
<1>5. Done("PART_PREPARE_COMMIT", t) = 0
    <2>1. Todo("PART_PREPARE_COMMIT", t) > 0
        BY <1>3, CountTypes
    <2>2. Voting(t) > 0
        BY <2>1, CountsOf DEF Voting
    <2>3. QED
        BY <2>2, CountsOf DEF FlowInv, Flow, VoteFlow, Voted
<1>6. ~HasWAL(Part(t), t) /\ Done("COORD_COMMIT", t) = 0
    BY <1>5, CountsOf DEF FlowInv, Flow, VoteFlow, DecisionFlow
<1>7. /\ wal' = [wal EXCEPT ![Part(t)][t] = bal[t.y]]
      /\ bal' = [bal EXCEPT ![t.y] = @ + t.amt]
    BY <1>6 DEF ExecutePartPrepareCommit
<1>8. /\ bal[t.y] \in Nat /\ t.x \in Item /\ t.y \in Item /\ t.amt \in Nat
      /\ Coord(t) \in Cluster /\ Part(t) \in Cluster /\ Coord(t) # Part(t)
      /\ t.x # t.y
    BY TransferFields, OperationNames, TransferAssumption DEF TypeOK
<1>9. /\ bal'[t.y] = bal[t.y] + t.amt
      /\ \A j \in Item : j # t.y => bal'[j] = bal[j]
      /\ wal'[Part(t)][t] = bal[t.y]
      /\ \A c \in Cluster, u \in Transfer : c # Part(t) \/ u # t => wal'[c][u] = wal[c][u]
    BY <1>7, <1>8 DEF TypeOK
<1>10. HasWAL(Part(t), t)'
    BY <1>8, <1>9 DEF HasWAL, NoPreimage
<1>11. \A op : \A u \in Transfer :
          op # "PART_PREPARE_COMMIT" \/ u # t => Done(op, u)' = Done(op, u)
    BY <1>2 DEF DoneMore
<1>12. BalancesOf(t)'
    <2>1. wal'[Coord(t)][t] = wal[Coord(t)][t] /\ bal'[t.x] = bal[t.x]
        BY <1>8, <1>9
    <2>2. BalancesOf(t)
        BY DEF BalancesInv
    <2>3. HasWAL(Coord(t), t)' <=> HasWAL(Coord(t), t)
        BY <2>1 DEF HasWAL
    <2>4. QED
        BY <1>9, <1>10, <2>1, <2>2, <2>3 DEF BalancesOf
<1>13. BalancesInv'
    BY <1>4, <1>8, <1>9, <1>11, <1>12, BalancesElsewhere
<1>14. QED
    BY <1>4, <1>6, <1>9, <1>10, <1>11, <1>13

\* A decision gives up the preimage; an abort puts it back first.
LEMMA BalancesDecision ==
    ASSUME TypeOK, TypeOK', FlowInv, LockInv, BalancesInv, NEW t \in Transfer,
           NEW o \in Outcome, ExecuteDecision(t, o)
    PROVE  /\ BalancesInv'
           /\ lock[t.x] = t /\ HasWAL(Coord(t), t) /\ ~HasWAL(Coord(t), t)'
           /\ o = "commit" => bal' = bal /\ Done("PART_PREPARE_COMMIT", t) > 0
           /\ o = "abort" => /\ bal'[t.x] = bal[t.x] + t.amt
                             /\ Done("PART_PREPARE_COMMIT", t) = 0
           /\ \A j \in Item : j # t.x => bal'[j] = bal[j]
           /\ \A c \in Cluster, u \in Transfer :
                 c # Coord(t) \/ u # t => wal'[c][u] = wal[c][u]
           /\ DoneMore(CoordOpFor(o), t)
           /\ Done("COORD_COMMIT", t) = 0 /\ Done("COORD_ABORT", t) = 0
<1>1. /\ TodoLess(CoordOpFor(o), t) /\ DoneMore(CoordOpFor(o), t)
      /\ wal'[Coord(t)][t] = NoPreimage
      /\ \A c \in Cluster, u \in Transfer : c # Coord(t) \/ u # t => wal'[c][u] = wal[c][u]
    BY DecisionMoves
<1>2. Flow(t) /\ BalancesOf(t)
    BY DEF FlowInv, BalancesInv
<1>3. Todo(CoordOpFor(o), t) > 0
    BY <1>1, CountTypesNext DEF TodoLess
<1>4. /\ o = "commit" \/ o = "abort"
      /\ o = "commit" => CoordOpFor(o) = "COORD_COMMIT"
      /\ o = "abort" => CoordOpFor(o) = "COORD_ABORT"
    BY DEF Outcome, CoordOpFor
<1>5. HasWAL(Coord(t), t)
    BY <1>2, <1>3, <1>4, CountsOf DEF Flow, DecisionFlow
<1>6. Done("COORD_COMMIT", t) = 0 /\ Done("COORD_ABORT", t) = 0
    BY <1>2, <1>5 DEF Flow, DebitFlow
<1>7. o = "commit" => Done("PART_PREPARE_COMMIT", t) > 0
    BY <1>2, <1>3, <1>4, CountsOf DEF Flow, DecisionFlow
<1>8. o = "abort" => Done("PART_PREPARE_COMMIT", t) = 0
    <2>1. o = "abort" => Done("PART_PREPARE_ABORT", t) > 0
        BY <1>2, <1>3, <1>4, CountsOf DEF Flow, DecisionFlow
    <2>2. QED
        BY <1>2, <2>1 DEF Flow, VoteFlow
<1>9. lock[t.x] = t
    BY <1>5 DEF LockInv, LocksOf, NeedsX
<1>10. /\ t.x \in Item /\ t.y \in Item /\ t.x # t.y /\ t.amt \in Nat
       /\ Coord(t) \in Cluster /\ Part(t) \in Cluster /\ Coord(t) # Part(t)
    BY TransferFields, OperationNames, TransferAssumption
<1>11. ~HasWAL(Coord(t), t)'
    BY <1>1 DEF HasWAL
<1>12. bal' = IF CoordOpFor(o) \in {"COORD_ABORT", "PART_ABORT"}
              THEN Undone(Coord(t), t, t.x) ELSE bal
    BY OperationNames DEF ExecuteDecision, Settles, Op
<1>13. o = "commit" => bal' = bal
    BY <1>4, <1>12
<1>14. o = "abort" => bal' = [bal EXCEPT ![t.x] = bal[t.x] + t.amt]
    BY <1>2, <1>4, <1>5, <1>12 DEF Undone, BalancesOf
<1>15. /\ o = "abort" => bal'[t.x] = bal[t.x] + t.amt
       /\ \A j \in Item : j # t.x => bal'[j] = bal[j]
    BY <1>4, <1>10, <1>13, <1>14 DEF TypeOK
<1>16. \A op : \A u \in Transfer : op # CoordOpFor(o) \/ u # t => Done(op, u)' = Done(op, u)
    BY <1>1 DEF DoneMore
<1>17. BalancesOf(t)'
    <2>1. wal'[Part(t)][t] = wal[Part(t)][t] /\ bal'[t.y] = bal[t.y]
        BY <1>1, <1>10, <1>15
    <2>2. /\ Done("PART_PREPARE_COMMIT", t)' = Done("PART_PREPARE_COMMIT", t)
          /\ Done("PART_COMMIT", t)' = Done("PART_COMMIT", t)
        BY <1>4, <1>16
    <2>3. HasWAL(Part(t), t)' <=> HasWAL(Part(t), t)
        BY <2>1 DEF HasWAL
    <2>4. QED
        BY <1>2, <1>11, <2>1, <2>2, <2>3 DEF BalancesOf
<1>18. BalancesInv'
    <2>1. \A c \in Cluster, u \in Transfer : u # t => wal'[c][u] = wal[c][u]
        BY <1>1
    <2>2. \A op : \A u \in Transfer : u # t => Done(op, u)' = Done(op, u)
        BY <1>16
    <2>3. QED
        BY <1>9, <1>10, <1>15, <1>17, <2>1, <2>2, BalancesElsewhere
<1>19. QED
    BY <1>1, <1>5, <1>6, <1>7, <1>8, <1>9, <1>11, <1>13, <1>15, <1>18

\* The participant's commit gives up its preimage, after the coordinator's.
LEMMA BalancesOutcome ==
    ASSUME TypeOK, TypeOK', FlowInv, LockInv, BalancesInv, NEW t \in Transfer,
           NEW o \in Outcome, ExecuteOutcome(t, o)
    PROVE  /\ BalancesInv'
           /\ bal' = bal /\ Done("COORD_COMMIT", t) > 0
           /\ \A c \in Cluster, u \in Transfer :
                 c # Part(t) \/ u # t => wal'[c][u] = wal[c][u]
           /\ DoneMore("PART_COMMIT", t)
<1>1. /\ TodoLess(PartOpFor(o), t) /\ DoneMore(PartOpFor(o), t)
      /\ wal'[Part(t)][t] = NoPreimage
      /\ \A c \in Cluster, u \in Transfer : c # Part(t) \/ u # t => wal'[c][u] = wal[c][u]
    BY OutcomeMoves
<1>2. Todo(PartOpFor(o), t) > 0
    BY <1>1, CountTypesNext DEF TodoLess
<1>3. PartOpFor(o) = "PART_COMMIT"
    BY <1>2, CountsOf DEF PartOpFor, FlowInv, Flow, OutcomeFlow
<1>4. Done("COORD_COMMIT", t) > 0
    BY <1>2, <1>3, CountsOf DEF FlowInv, Flow, OutcomeFlow
<1>5. bal' = bal
    BY <1>3, OperationNames DEF ExecuteOutcome, Settles, Op
<1>6. ASSUME NEW u \in Transfer PROVE BalancesOf(u)'
    <2>1. /\ BalancesOf(u)
          /\ Coord(u) \in Cluster /\ Part(u) \in Cluster
          /\ Coord(t) # Part(t)
        BY TransferFields, OperationNames DEF BalancesInv
    <2>2. /\ HasWAL(Coord(u), u)' <=> HasWAL(Coord(u), u)
          /\ wal'[Coord(u)][u] = wal[Coord(u)][u]
        BY <1>1, <2>1 DEF HasWAL
    <2>3. HasWAL(Part(u), u)' => /\ u # t
                                 /\ HasWAL(Part(u), u)
                                 /\ wal'[Part(u)][u] = wal[Part(u)][u]
        BY <1>1, <2>1 DEF HasWAL
    <2>4. u # t => (HasWAL(Part(u), u)' <=> HasWAL(Part(u), u))
        BY <1>1, <2>1 DEF HasWAL
    <2>5. /\ Done("PART_PREPARE_COMMIT", u)' = Done("PART_PREPARE_COMMIT", u)
          /\ u # t => Done("PART_COMMIT", u)' = Done("PART_COMMIT", u)
          /\ Done("PART_COMMIT", t)' > 0
        BY <1>1, <1>3, CountsOf DEF DoneMore
    <2>6. QED
        BY <1>5, <2>1, <2>2, <2>3, <2>4, <2>5 DEF BalancesOf
<1>7. QED
    BY <1>1, <1>3, <1>4, <1>5, <1>6 DEF BalancesInv

\* A vote against touches nothing but the records.
LEMMA BalancesVoteAgainst ==
    ASSUME TypeOK, TypeOK', BalancesInv, NEW t \in Transfer, ExecutePartPrepareAbort(t)
    PROVE  /\ BalancesInv'
           /\ UNCHANGED <<bal, wal>>
           /\ DoneMore("PART_PREPARE_ABORT", t)
<1>1. "PART_PREPARE_ABORT" \in PartOp
    BY DEF PartOp
<1>2. DoneMore("PART_PREPARE_ABORT", t)
    BY <1>1, VoteMoves DEF ExecutePartPrepareAbort
<1>3. UNCHANGED <<bal, wal>>
    BY DEF ExecutePartPrepareAbort
<1>4. \A u \in Transfer :
          /\ Done("PART_PREPARE_COMMIT", u)' = Done("PART_PREPARE_COMMIT", u)
          /\ Done("PART_COMMIT", u)' = Done("PART_COMMIT", u)
    BY <1>2 DEF DoneMore
<1>5. QED
    BY <1>2, <1>3, <1>4 DEF BalancesInv, BalancesOf, HasWAL

\* Everything but an execution leaves the store alone.
LEMMA StoreUnchanged ==
    ASSUME [Next]_vars, \A t \in Transfer : ~Execute(t)
    PROVE  UNCHANGED <<bal, wal, datastore>>
BY DEF Next, vars, storeVars, engineVars, Submit, ClientHandler, AcquireCrossSlot,
       CrossSlotExpires, StartPrepare, DropClientRequest, Ingress, Take, Propose, BurnSequence,
       Refuse, Reclaim, Receive, OnPrepare, OnStaleReply, OnReply, OnDecision, OnAck,
       DecidePrepare, ResendPrepare, PrepareTimesOut, RetryAbort, EndWatch, ResendDecision

LEMMA BalancesInit == Init => BalancesInv
<1> SUFFICES ASSUME Init PROVE BalancesInv
    OBVIOUS
<1>1. \A c \in Cluster, t \in Transfer : ~HasWAL(c, t)
    BY DEF Init, HasWAL
<1>2. ASSUME NEW t \in Transfer PROVE BalancesOf(t)
    <2>1. Coord(t) \in Cluster /\ Part(t) \in Cluster
        BY TransferFields
    <2>2. Done("PART_PREPARE_COMMIT", t) = 0
        BY CountsInit
    <2>3. QED
        BY <1>1, <2>1, <2>2 DEF BalancesOf
<1>3. QED
    BY <1>2 DEF BalancesInv

LEMMA BalancesNext ==
    ASSUME TransfersInv, TypeOK', BalancesInv, [Next]_vars
    PROVE  BalancesInv'
<1>1. TypeOK /\ FlowInv /\ LockInv
    BY DEF TransfersInv
<1>2. CASE \A t \in Transfer : ~Execute(t)
    BY <1>2, StoreUnchanged, BalancesQuiet
<1>3. ASSUME NEW t \in Transfer, Execute(t) PROVE BalancesInv'
    BY <1>1, <1>3, BalancesCoordPrepare, BalancesVote, BalancesVoteAgainst, BalancesDecision,
       BalancesOutcome DEF Execute
<1>4. QED
    BY <1>2, <1>3

-----------------------------------------------------------------------------
(***************************************************************************)
(* Sums over no transfer and over one.                                     *)
(***************************************************************************)
Amounts(S) == MapThenSumSet(LAMBDA t : t.amt, S)

\* How MapThenFoldSet adds up the subsets of S.
Adding(S, g) ==
    [s \in SUBSET S |-> IF s = {} THEN 0
                        ELSE LET x == CHOOSE x \in s : TRUE IN x.amt + g[s \ {x}]]

LEMMA AmountsAdded ==
    ASSUME NEW S
    PROVE  Amounts(S) = (CHOOSE g : g = Adding(S, g))[S]
BY DEF Amounts, Adding, MapThenSumSet, MapThenFoldSet

LEMMA AddingHasSum ==
    ASSUME NEW S, \E g : g = Adding(S, g)
    PROVE  \E g : g = Adding(S, g) /\ Amounts(S) = g[S]
<1>1. (CHOOSE g : g = Adding(S, g)) = Adding(S, CHOOSE g : g = Adding(S, g))
    BY Zenon
<1>2. QED
    BY <1>1, AmountsAdded, Zenon

LEMMA NoAmounts == Amounts({}) = 0
<1>1. [s \in {{}} |-> 0] = Adding({}, [s \in {{}} |-> 0])
    BY DEF Adding
<1>2. PICK g : g = Adding({}, g) /\ Amounts({}) = g[{}]
    BY <1>1, AddingHasSum
<1>3. Adding({}, g)[{}] = 0
    BY DEF Adding
<1>4. QED
    BY <1>2, <1>3, Zenon

LEMMA OneAmount ==
    ASSUME NEW t, t.amt \in Nat
    PROVE  Amounts({t}) = t.amt
<1>1. /\ SUBSET {t} = {{}, {t}}
      /\ (CHOOSE x \in {t} : TRUE) = t
      /\ {t} \ {t} = {} /\ {t} # {}
    OBVIOUS
<1>2. [s \in {{}, {t}} |-> IF s = {} THEN 0 ELSE t.amt]
          = Adding({t}, [s \in {{}, {t}} |-> IF s = {} THEN 0 ELSE t.amt])
    BY <1>1 DEF Adding
<1>3. PICK g : g = Adding({t}, g) /\ Amounts({t}) = g[{t}]
    BY <1>2, AddingHasSum
<1>4. Adding({t}, g)[{}] = 0
    BY <1>1 DEF Adding
<1>5. Adding({t}, g)[{t}] = t.amt + g[{}]
    BY <1>1 DEF Adding
<1>6. QED
    BY <1>3, <1>4, <1>5

-----------------------------------------------------------------------------
(***************************************************************************)
(* What is seen of an item.                                                *)
(***************************************************************************)
Debited(t, i) == t.x = i /\ HasWAL(Coord(t), t)
Credited(t, i) == t.y = i /\ HasWAL(Part(t), t) /\ Done("COORD_COMMIT", t) = 0

SeenAt(i) ==
    /\ \A t \in Transfer : Debited(t, i) => Visible[i] = bal[i] + t.amt
    /\ \A t \in Transfer : Credited(t, i) => Visible[i] = bal[i] - t.amt
    /\ (\A t \in Transfer : ~Debited(t, i) /\ ~Credited(t, i)) => Visible[i] = bal[i]

SeenOutcome(t) ==
    /\ Done("COORD_COMMIT", t) > 0 => Decided(t) = "commit"
    /\ Done("COORD_COMMIT", t) = 0 /\ Done("COORD_ABORT", t) > 0 => Decided(t) = "abort"
    /\ Done("COORD_COMMIT", t) = 0 /\ Done("COORD_ABORT", t) = 0 => Decided(t) = "open"

LEMMA CommittedIsDone ==
    ASSUME TypeOK, NEW t \in Transfer
    PROVE  /\ Committed(t) <=> Done("COORD_COMMIT", t) > 0
           /\ Recorded(Coord(t), Op("COORD_ABORT", t)) <=> Done("COORD_ABORT", t) > 0
           /\ Recorded(Part(t), Op("PART_COMMIT", t)) <=> Done("PART_COMMIT", t) > 0
           /\ Done("COORD_COMMIT", t) \in Nat /\ Done("COORD_ABORT", t) \in Nat
           /\ Done("PART_COMMIT", t) \in Nat
<1>1. /\ HomeOf(Op("COORD_COMMIT", t)) = Coord(t) /\ HomeOf(Op("COORD_ABORT", t)) = Coord(t)
      /\ HomeOf(Op("PART_COMMIT", t)) = Part(t)
    BY OperationNames DEF CoordOp, PartOp
<1>2. QED
    BY <1>1, RecordedIsDone, CountsOf DEF Committed

LEMMA OutcomeSeen ==
    ASSUME NEW t \in Transfer
    PROVE  /\ TypeOK => SeenOutcome(t)
           /\ TypeOK' => SeenOutcome(t)'
<1>1. TypeOK => SeenOutcome(t)
    BY CommittedIsDone DEF Decided, SeenOutcome
<1>2. QED
    BY <1>1, PTL

LEMMA ItemSeen ==
    ASSUME NEW i \in Item
    PROVE  /\ TypeOK /\ LockInv => SeenAt(i)
           /\ TypeOK' /\ LockInv' => SeenAt(i)'
<1>1. TypeOK /\ LockInv => SeenAt(i)
    <2> SUFFICES ASSUME TypeOK, LockInv PROVE SeenAt(i)
        OBVIOUS
    <2>1. Visible[i] = bal[i] + Amounts(Debits(i)) - Amounts(Credits(i))
        BY DEF Visible, Amounts
    <2>2. \A t \in Transfer : /\ t \in Debits(i) <=> Debited(t, i)
                              /\ t \in Credits(i) <=> Credited(t, i)
        <3>1. \A t \in Transfer : ~Committed(t) <=> Done("COORD_COMMIT", t) = 0
            BY CommittedIsDone
        <3>2. QED
            BY <3>1 DEF Debits, Credits, Debited, Credited
    <2>3. Debits(i) \subseteq Transfer /\ Credits(i) \subseteq Transfer
        BY DEF Debits, Credits
    <2>4. \A t \in Transfer : /\ Debited(t, i) \/ Credited(t, i) => lock[i] = t
                              /\ ~(Debited(t, i) /\ Credited(t, i))
        BY TransferAssumption DEF LockInv, LocksOf, NeedsX, NeedsY, Debited, Credited
    <2>5. bal[i] \in Nat
        BY DEF TypeOK
    <2>6. ASSUME NEW t \in Transfer, Debited(t, i) PROVE Visible[i] = bal[i] + t.amt
        <3>1. Debits(i) = {t} /\ Credits(i) = {}
            BY <2>2, <2>3, <2>4, <2>6
        <3>2. t.amt \in Nat
            BY TransferFields
        <3>3. QED
            BY <2>1, <2>5, <3>1, <3>2, NoAmounts, OneAmount
    <2>7. ASSUME NEW t \in Transfer, Credited(t, i) PROVE Visible[i] = bal[i] - t.amt
        <3>1. Credits(i) = {t} /\ Debits(i) = {}
            BY <2>2, <2>3, <2>4, <2>7
        <3>2. t.amt \in Nat
            BY TransferFields
        <3>3. QED
            BY <2>1, <2>5, <3>1, <3>2, NoAmounts, OneAmount
    <2>8. ASSUME \A t \in Transfer : ~Debited(t, i) /\ ~Credited(t, i)
          PROVE  Visible[i] = bal[i]
        <3>1. Credits(i) = {} /\ Debits(i) = {}
            BY <2>2, <2>3, <2>8
        <3>2. QED
            BY <2>1, <2>5, <3>1, NoAmounts
    <2>9. QED
        BY <2>6, <2>7, <2>8 DEF SeenAt
<1>2. QED
    BY <1>1, PTL

LEMMA SeenSame ==
    ASSUME TypeOK, TypeOK', LockInv, LockInv', NEW i \in Item, bal'[i] = bal[i],
           \A t \in Transfer : /\ Debited(t, i)' <=> Debited(t, i)
                               /\ Credited(t, i)' <=> Credited(t, i)
    PROVE  Visible'[i] = Visible[i]
<1>1. SeenAt(i) /\ SeenAt(i)'
    BY ItemSeen
<1>2. QED
    BY <1>1 DEF SeenAt

LEMMA DecidedSame ==
    ASSUME TypeOK, TypeOK', NEW t \in Transfer,
           Done("COORD_COMMIT", t)' = Done("COORD_COMMIT", t),
           Done("COORD_ABORT", t)' = Done("COORD_ABORT", t)
    PROVE  Decided(t)' = Decided(t)
<1>1. SeenOutcome(t) /\ SeenOutcome(t)'
    BY OutcomeSeen
<1>2. Done("COORD_COMMIT", t) \in Nat /\ Done("COORD_ABORT", t) \in Nat
    BY CountsOf
<1>3. QED
    BY <1>1, <1>2 DEF SeenOutcome

-----------------------------------------------------------------------------
(***************************************************************************)
(* Every step maps to a step of AtomicTransfer or to a stutter.            *)
(***************************************************************************)
\* A step that nobody sees.
LEMMA Unseen ==
    ASSUME \A i \in Item : Visible'[i] = Visible[i],
           \A t \in Transfer : Decided(t)' = Decided(t)
    PROVE  UNCHANGED Abstract!vars
<1>1. Visible' = Visible
    BY DEF Visible
<1>2. [t \in Transfer |-> Decided(t)]' = [t \in Transfer |-> Decided(t)]
    BY Zenon
<1>3. QED
    BY <1>1, <1>2 DEF Abstract!vars

LEMMA UnseenStoreUnchanged ==
    ASSUME TypeOK, TypeOK', LockInv, LockInv', UNCHANGED <<bal, wal, datastore>>
    PROVE  UNCHANGED Abstract!vars
<1>1. \A op : \A t \in Transfer : Done(op, t)' = Done(op, t)
    BY DEF Done
<1>2. ASSUME NEW i \in Item PROVE Visible'[i] = Visible[i]
    <2>1. \A t \in Transfer : /\ Debited(t, i)' <=> Debited(t, i)
                              /\ Credited(t, i)' <=> Credited(t, i)
        BY <1>1 DEF Debited, Credited, HasWAL
    <2>2. QED
        BY <2>1, SeenSame
<1>3. \A t \in Transfer : Decided(t)' = Decided(t)
    BY <1>1, DecidedSame
<1>4. QED
    BY <1>2, <1>3, Unseen

\* The debit is the coordinator's secret.
LEMMA UnseenDebit ==
    ASSUME TypeOK, TypeOK', FlowInv, LockInv, LockInv', BalancesInv, NEW t \in Transfer,
           ExecuteCoordPrepare(t)
    PROVE  UNCHANGED Abstract!vars
<1>1. CASE ~(bal[t.x] >= t.amt)
    BY <1>1, BalancesCoordPrepare, UnseenStoreUnchanged
<1>2. CASE bal[t.x] >= t.amt
    <2>1. /\ lock[t.x] = t /\ ~HasWAL(Coord(t), t) /\ HasWAL(Coord(t), t)'
          /\ bal'[t.x] = bal[t.x] - t.amt
          /\ \A j \in Item : j # t.x => bal'[j] = bal[j]
          /\ \A c \in Cluster, u \in Transfer :
                c # Coord(t) \/ u # t => wal'[c][u] = wal[c][u]
          /\ \A op : \A u \in Transfer :
                op # "COORD_PREPARE" \/ u # t => Done(op, u)' = Done(op, u)
        BY <1>2, BalancesCoordPrepare
    <2>2. /\ t.x \in Item /\ t.y \in Item /\ t.x # t.y /\ t.amt \in Nat /\ bal[t.x] \in Nat
          /\ \A u \in Transfer : /\ Coord(u) \in Cluster /\ Part(u) \in Cluster
                                 /\ Coord(u) # Part(u)
        BY TransferFields, OperationNames, TransferAssumption DEF TypeOK
    <2>3. \A u \in Transfer, i \in Item :
              /\ u # t => (Debited(u, i)' <=> Debited(u, i))
              /\ Credited(u, i)' <=> Credited(u, i)
        BY <2>1, <2>2 DEF Debited, Credited, HasWAL
    <2>4. ASSUME NEW i \in Item, i # t.x PROVE Visible'[i] = Visible[i]
        <3>1. \A u \in Transfer : Debited(u, i)' <=> Debited(u, i)
            BY <2>3, <2>4 DEF Debited
        <3>2. QED
            BY <2>1, <2>3, <2>4, <3>1, SeenSame
    <2>5. Visible'[t.x] = Visible[t.x]
        <3>1. SeenAt(t.x) /\ SeenAt(t.x)'
            BY <2>2, ItemSeen
        <3>2. \A u \in Transfer : ~Debited(u, t.x) /\ ~Credited(u, t.x)
            BY <2>1, <2>2 DEF Debited, Credited, LockInv, LocksOf, NeedsX, NeedsY
        <3>3. Debited(t, t.x)'
            BY <2>1 DEF Debited
        <3>4. Visible[t.x] = bal[t.x] /\ Visible'[t.x] = bal'[t.x] + t.amt
            BY <3>1, <3>2, <3>3 DEF SeenAt
        <3>5. QED
            BY <2>1, <2>2, <3>4
    <2>6. \A u \in Transfer : Decided(u)' = Decided(u)
        BY <2>1, DecidedSame
    <2>7. QED
        BY <2>4, <2>5, <2>6, Unseen
<1>3. QED
    BY <1>1, <1>2

\* The credit is the participant's.
LEMMA UnseenCredit ==
    ASSUME TypeOK, TypeOK', FlowInv, LockInv, LockInv', BalancesInv, NEW t \in Transfer,
           ExecutePartPrepareCommit(t)
    PROVE  UNCHANGED Abstract!vars
<1>1. /\ lock[t.y] = t /\ ~HasWAL(Part(t), t) /\ HasWAL(Part(t), t)'
      /\ bal'[t.y] = bal[t.y] + t.amt
      /\ \A j \in Item : j # t.y => bal'[j] = bal[j]
      /\ \A c \in Cluster, u \in Transfer : c # Part(t) \/ u # t => wal'[c][u] = wal[c][u]
      /\ \A op : \A u \in Transfer :
            op # "PART_PREPARE_COMMIT" \/ u # t => Done(op, u)' = Done(op, u)
      /\ Done("COORD_COMMIT", t) = 0
    BY BalancesVote
<1>2. /\ t.x \in Item /\ t.y \in Item /\ t.x # t.y /\ t.amt \in Nat /\ bal[t.y] \in Nat
      /\ \A u \in Transfer : /\ Coord(u) \in Cluster /\ Part(u) \in Cluster
                             /\ Coord(u) # Part(u)
    BY TransferFields, OperationNames, TransferAssumption DEF TypeOK
<1>3. \A u \in Transfer, i \in Item :
          /\ Debited(u, i)' <=> Debited(u, i)
          /\ u # t => (Credited(u, i)' <=> Credited(u, i))
    BY <1>1, <1>2 DEF Debited, Credited, HasWAL
<1>4. ASSUME NEW i \in Item, i # t.y PROVE Visible'[i] = Visible[i]
    <2>1. \A u \in Transfer : Credited(u, i)' <=> Credited(u, i)
        BY <1>3, <1>4 DEF Credited
    <2>2. QED
        BY <1>1, <1>3, <1>4, <2>1, SeenSame
<1>5. Visible'[t.y] = Visible[t.y]
    <2>1. SeenAt(t.y) /\ SeenAt(t.y)'
        BY <1>2, ItemSeen
    <2>2. \A u \in Transfer : ~Debited(u, t.y) /\ ~Credited(u, t.y)
        BY <1>1, <1>2 DEF Debited, Credited, LockInv, LocksOf, NeedsX, NeedsY
    <2>3. Credited(t, t.y)'
        BY <1>1 DEF Credited
    <2>4. Visible[t.y] = bal[t.y] /\ Visible'[t.y] = bal'[t.y] - t.amt
        BY <2>1, <2>2, <2>3 DEF SeenAt
    <2>5. QED
        BY <1>1, <1>2, <2>4
<1>6. \A u \in Transfer : Decided(u)' = Decided(u)
    BY <1>1, DecidedSame
<1>7. QED
    BY <1>4, <1>5, <1>6, Unseen

LEMMA UnseenVoteAgainst ==
    ASSUME TypeOK, TypeOK', LockInv, LockInv', BalancesInv, NEW t \in Transfer,
           ExecutePartPrepareAbort(t)
    PROVE  UNCHANGED Abstract!vars
<1>1. UNCHANGED <<bal, wal>> /\ DoneMore("PART_PREPARE_ABORT", t)
    BY BalancesVoteAgainst
<1>2. \A u \in Transfer : /\ Done("COORD_COMMIT", u)' = Done("COORD_COMMIT", u)
                          /\ Done("COORD_ABORT", u)' = Done("COORD_ABORT", u)
    BY <1>1 DEF DoneMore
<1>3. ASSUME NEW i \in Item PROVE Visible'[i] = Visible[i]
    <2>1. \A u \in Transfer : /\ Debited(u, i)' <=> Debited(u, i)
                              /\ Credited(u, i)' <=> Credited(u, i)
        BY <1>1, <1>2 DEF Debited, Credited, HasWAL
    <2>2. QED
        BY <1>1, <2>1, SeenSame
<1>4. QED
    BY <1>2, <1>3, DecidedSame, Unseen

\* The participant follows a commit that has been seen.
LEMMA UnseenOutcome ==
    ASSUME TypeOK, TypeOK', FlowInv, LockInv, LockInv', BalancesInv, NEW t \in Transfer,
           NEW o \in Outcome, ExecuteOutcome(t, o)
    PROVE  UNCHANGED Abstract!vars
<1>1. /\ bal' = bal /\ Done("COORD_COMMIT", t) > 0
      /\ \A c \in Cluster, u \in Transfer : c # Part(t) \/ u # t => wal'[c][u] = wal[c][u]
      /\ DoneMore("PART_COMMIT", t)
    BY BalancesOutcome
<1>2. \A u \in Transfer : /\ Done("COORD_COMMIT", u)' = Done("COORD_COMMIT", u)
                          /\ Done("COORD_ABORT", u)' = Done("COORD_ABORT", u)
    BY <1>1 DEF DoneMore
<1>3. ASSUME NEW i \in Item PROVE Visible'[i] = Visible[i]
    <2>1. ASSUME NEW u \in Transfer
          PROVE  /\ Debited(u, i)' <=> Debited(u, i)
                 /\ Credited(u, i)' <=> Credited(u, i)
        <3>1. /\ Coord(u) \in Cluster /\ Part(u) \in Cluster /\ Coord(u) # Part(u)
              /\ Done("COORD_COMMIT", t) # 0
            BY <1>1, TransferFields, OperationNames
        <3>2. HasWAL(Coord(u), u)' <=> HasWAL(Coord(u), u)
            BY <1>1, <3>1 DEF HasWAL
        <3>3. u # t => (HasWAL(Part(u), u)' <=> HasWAL(Part(u), u))
            BY <1>1, <3>1 DEF HasWAL
        <3>4. QED
            BY <1>2, <3>1, <3>2, <3>3 DEF Debited, Credited
    <2>2. QED
        BY <1>1, <2>1, SeenSame
<1>4. QED
    BY <1>2, <1>3, DecidedSame, Unseen

-----------------------------------------------------------------------------
\* The coordinator's decision is the step that is seen.
LEMMA DecisionSeen ==
    ASSUME TypeOK, TypeOK', FlowInv, LockInv, LockInv', BalancesInv, NEW t \in Transfer,
           NEW o \in Outcome, ExecuteDecision(t, o)
    PROVE  /\ Decided(t) = "open" /\ Decided(t)' = o
           /\ \A u \in Transfer : u # t => Decided(u)' = Decided(u)
           /\ [u \in Transfer |-> Decided(u)]'
                  = [[u \in Transfer |-> Decided(u)] EXCEPT ![t] = o]
           /\ Visible[t.x] = bal[t.x] + t.amt
           /\ Visible'[t.x] = bal'[t.x]
           /\ \A i \in Item : i # t.x /\ (o = "abort" \/ i # t.y) => Visible'[i] = Visible[i]
<1>1. /\ lock[t.x] = t /\ HasWAL(Coord(t), t) /\ ~HasWAL(Coord(t), t)'
      /\ o = "abort" => Done("PART_PREPARE_COMMIT", t) = 0
      /\ \A j \in Item : j # t.x => bal'[j] = bal[j]
      /\ \A c \in Cluster, u \in Transfer : c # Coord(t) \/ u # t => wal'[c][u] = wal[c][u]
      /\ DoneMore(CoordOpFor(o), t)
      /\ Done("COORD_COMMIT", t) = 0 /\ Done("COORD_ABORT", t) = 0
    BY BalancesDecision
<1>2. \/ o = "commit" /\ CoordOpFor(o) = "COORD_COMMIT"
      \/ o = "abort" /\ CoordOpFor(o) = "COORD_ABORT"
    BY DEF Outcome, CoordOpFor
<1>3. /\ o = "commit" => Done("COORD_COMMIT", t)' = 1
      /\ o = "abort" => Done("COORD_COMMIT", t)' = 0 /\ Done("COORD_ABORT", t)' = 1
      /\ \A u \in Transfer : u # t => /\ Done("COORD_COMMIT", u)' = Done("COORD_COMMIT", u)
                                      /\ Done("COORD_ABORT", u)' = Done("COORD_ABORT", u)
    BY <1>1, <1>2 DEF DoneMore
<1>4. Decided(t) = "open" /\ Decided(t)' = o
    <2>1. SeenOutcome(t) /\ SeenOutcome(t)'
        BY OutcomeSeen
    <2>2. QED
        BY <1>1, <1>2, <1>3, <2>1 DEF SeenOutcome
<1>5. \A u \in Transfer : u # t => Decided(u)' = Decided(u)
    BY <1>3, DecidedSame
<1>6. [u \in Transfer |-> Decided(u)]' = [[u \in Transfer |-> Decided(u)] EXCEPT ![t] = o]
    BY <1>4, <1>5
<1>7. /\ t.x \in Item /\ t.x # t.y
      /\ \A u \in Transfer : /\ Coord(u) \in Cluster /\ Part(u) \in Cluster
                             /\ Coord(u) # Part(u)
    BY TransferFields, OperationNames, TransferAssumption
<1>8. Visible[t.x] = bal[t.x] + t.amt
    <2>1. SeenAt(t.x) /\ Debited(t, t.x)
        BY <1>1, <1>7, ItemSeen DEF Debited
    <2>2. QED
        BY <2>1 DEF SeenAt
<1>9. Visible'[t.x] = bal'[t.x]
    <2>1. lock'[t.x] = NoTransfer
        BY <1>7 DEF ExecuteDecision, Settles, Released
    <2>2. \A u \in Transfer : ~Debited(u, t.x)' /\ ~Credited(u, t.x)'
        BY <2>1, TransferAssumption
        DEF Debited, Credited, LockInv, LocksOf, NeedsX, NeedsY
    <2>3. SeenAt(t.x)'
        BY <1>7, ItemSeen
    <2>4. QED
        BY <2>2, <2>3 DEF SeenAt
<1>10. ASSUME NEW i \in Item, i # t.x, o = "abort" \/ i # t.y
       PROVE  Visible'[i] = Visible[i]
    <2>1. ASSUME NEW u \in Transfer
          PROVE  /\ Debited(u, i)' <=> Debited(u, i)
                 /\ Credited(u, i)' <=> Credited(u, i)
        <3>1. HasWAL(Part(u), u)' <=> HasWAL(Part(u), u)
            BY <1>1, <1>7 DEF HasWAL
        <3>2. u # t => (HasWAL(Coord(u), u)' <=> HasWAL(Coord(u), u))
            BY <1>1, <1>7 DEF HasWAL
        <3>3. t.y = i => o = "abort"
            BY <1>10
        <3>4. o = "abort" => Done("COORD_COMMIT", t)' = Done("COORD_COMMIT", t)
            BY <1>1, <1>3
        <3>5. QED
            BY <1>3, <1>10, <3>1, <3>2, <3>3, <3>4 DEF Debited, Credited
    <2>2. QED
        BY <1>1, <1>10, <2>1, SeenSame
<1>11. QED
    BY <1>4, <1>5, <1>6, <1>8, <1>9, <1>10

\* The commit shows the debit and the credit at once.
LEMMA MapsCommit ==
    ASSUME TypeOK, TypeOK', FlowInv, LockInv, LockInv', BalancesInv, OutcomesAreBacked,
           NEW t \in Transfer, ExecuteDecision(t, "commit")
    PROVE  Abstract!Commit(t)
<1> "commit" \in Outcome
    BY DEF Outcome
<1>1. /\ lock[t.x] = t /\ bal' = bal /\ Done("PART_PREPARE_COMMIT", t) > 0
      /\ \A c \in Cluster, u \in Transfer : c # Coord(t) \/ u # t => wal'[c][u] = wal[c][u]
      /\ Done("COORD_COMMIT", t) = 0
    BY BalancesDecision
<1>2. /\ Decided(t) = "open"
      /\ [u \in Transfer |-> Decided(u)]'
             = [[u \in Transfer |-> Decided(u)] EXCEPT ![t] = "commit"]
      /\ Visible[t.x] = bal[t.x] + t.amt
      /\ Visible'[t.x] = bal'[t.x]
      /\ \A i \in Item : i # t.x /\ i # t.y => Visible'[i] = Visible[i]
    BY DecisionSeen, "commit" # "abort"
<1>3. /\ t.x \in Item /\ t.y \in Item /\ t.x # t.y /\ t.amt \in Nat
      /\ bal[t.x] \in Nat /\ bal[t.y] \in Nat
    BY TransferFields, TransferAssumption DEF TypeOK
<1>4. HasWAL(Part(t), t)
    <2>1. Done("PART_COMMIT", t) = 0
        <3>1. ~Recorded(Coord(t), Op("COORD_COMMIT", t))
            BY <1>1, CommittedIsDone DEF Committed
        <3>2. Recorded(Part(t), Op(PartOpFor("commit"), t)) =>
                  Recorded(Coord(t), Op(CoordOpFor("commit"), t))
            BY DEF OutcomesAreBacked
        <3>3. ~Recorded(Part(t), Op("PART_COMMIT", t))
            BY <3>1, <3>2 DEF PartOpFor, CoordOpFor
        <3>4. QED
            BY <3>3, CommittedIsDone
    <2>2. QED
        BY <1>1, <2>1 DEF BalancesInv, BalancesOf
<1>5. lock[t.y] = t
    BY <1>4 DEF LockInv, LocksOf, NeedsY
<1>6. Visible[t.y] = bal[t.y] - t.amt
    <2>1. SeenAt(t.y) /\ Credited(t, t.y)
        BY <1>1, <1>3, <1>4, ItemSeen DEF Credited
    <2>2. QED
        BY <2>1 DEF SeenAt
<1>7. Visible'[t.y] = bal'[t.y]
    <2>1. lock'[t.y] = t
        BY <1>3, <1>5 DEF ExecuteDecision, Settles, Released
    <2>2. Done("COORD_COMMIT", t)' # 0
        <3>1. DoneMore(CoordOpFor("commit"), t)
            BY BalancesDecision
        <3>2. QED
            BY <1>1, <3>1 DEF DoneMore, CoordOpFor
    <2>3. \A u \in Transfer : ~Debited(u, t.y)' /\ ~Credited(u, t.y)'
        BY <1>3, <2>1, <2>2 DEF Debited, Credited, LockInv, LocksOf, NeedsX, NeedsY
    <2>4. SeenAt(t.y)'
        BY <1>3, ItemSeen
    <2>5. QED
        BY <2>3, <2>4 DEF SeenAt
<1>8. Visible' = [Visible EXCEPT ![t.x] = @ - t.amt, ![t.y] = Visible[t.y] + t.amt]
    <2>1. /\ Visible'[t.x] = Visible[t.x] - t.amt
          /\ Visible'[t.y] = Visible[t.y] + t.amt
        BY <1>1, <1>2, <1>3, <1>6, <1>7
    <2>2. Visible = [i \in Item |-> Visible[i]] /\ Visible' = [i \in Item |-> Visible'[i]]
        BY DEF Visible
    <2>3. QED
        BY <1>2, <1>3, <2>1, <2>2
<1>9. Visible[t.x] >= t.amt
    BY <1>2, <1>3
<1>10. QED
    BY <1>2, <1>8, <1>9 DEF Abstract!Commit

\* An abort shows nothing of the transfer.
LEMMA MapsAbort ==
    ASSUME TypeOK, TypeOK', FlowInv, LockInv, LockInv', BalancesInv,
           NEW t \in Transfer, ExecuteDecision(t, "abort")
    PROVE  Abstract!Abort(t)
<1> "abort" \in Outcome
    BY DEF Outcome
<1>1. /\ Decided(t) = "open"
      /\ [u \in Transfer |-> Decided(u)]'
             = [[u \in Transfer |-> Decided(u)] EXCEPT ![t] = "abort"]
      /\ Visible[t.x] = bal[t.x] + t.amt
      /\ Visible'[t.x] = bal'[t.x]
      /\ \A i \in Item : i # t.x => Visible'[i] = Visible[i]
    BY DecisionSeen
<1>2. bal'[t.x] = bal[t.x] + t.amt
    BY BalancesDecision
<1>3. \A i \in Item : Visible'[i] = Visible[i]
    BY <1>1, <1>2
<1>4. Visible' = Visible
    BY <1>3 DEF Visible
<1>5. QED
    BY <1>1, <1>4 DEF Abstract!Abort

LEMMA MapsInit == Init => Abstract!Init
<1> SUFFICES ASSUME Init PROVE Abstract!Init
    OBVIOUS
<1>1. TypeOK /\ LockInv
    BY TransfersInit DEF TransfersInv
<1>2. \A c \in Cluster, t \in Transfer : ~HasWAL(c, t)
    BY DEF Init, HasWAL
<1>3. ASSUME NEW i \in Item PROVE Visible[i] = InitialBalance
    <2>1. SeenAt(i)
        BY <1>1, ItemSeen
    <2>2. \A t \in Transfer : ~Debited(t, i) /\ ~Credited(t, i)
        BY <1>2, TransferFields DEF Debited, Credited
    <2>3. bal[i] = InitialBalance
        BY DEF Init
    <2>4. QED
        BY <2>1, <2>2, <2>3 DEF SeenAt
<1>4. Visible = [i \in Item |-> InitialBalance]
    BY <1>3 DEF Visible
<1>5. ASSUME NEW t \in Transfer PROVE Decided(t) = "open"
    <2>1. Done("COORD_COMMIT", t) = 0 /\ Done("COORD_ABORT", t) = 0
        BY CountsInit
    <2>2. QED
        BY <1>1, <2>1, OutcomeSeen DEF SeenOutcome
<1>6. [t \in Transfer |-> Decided(t)] = [t \in Transfer |-> "open"]
    BY <1>5
<1>7. QED
    BY <1>4, <1>6 DEF Abstract!Init

LEMMA MapsNext ==
    ASSUME TransfersInv, TransfersInv', BalancesInv, OutcomesAreBacked, [Next]_vars
    PROVE  [Abstract!Next]_(Abstract!vars)
<1>1. TypeOK /\ TypeOK' /\ FlowInv /\ LockInv /\ LockInv'
    BY DEF TransfersInv
<1>2. CASE \A t \in Transfer : ~Execute(t)
    BY <1>1, <1>2, StoreUnchanged, UnseenStoreUnchanged
<1>3. ASSUME NEW t \in Transfer, Execute(t)
      PROVE  [Abstract!Next]_(Abstract!vars)
    <2>1. CASE ExecuteCoordPrepare(t)
        BY <1>1, <2>1, UnseenDebit
    <2>2. CASE ExecutePartPrepareCommit(t)
        BY <1>1, <2>2, UnseenCredit
    <2>3. CASE ExecutePartPrepareAbort(t)
        BY <1>1, <2>3, UnseenVoteAgainst
    <2>4. ASSUME NEW o \in Outcome, ExecuteOutcome(t, o)
          PROVE  [Abstract!Next]_(Abstract!vars)
        BY <1>1, <2>4, UnseenOutcome
    <2>5. ASSUME NEW o \in Outcome, ExecuteDecision(t, o)
          PROVE  [Abstract!Next]_(Abstract!vars)
        <3>1. o = "commit" \/ o = "abort"
            BY DEF Outcome
        <3>2. Abstract!Commit(t) \/ Abstract!Abort(t)
            BY <1>1, <2>5, <3>1, MapsCommit, MapsAbort
        <3>3. QED
            BY <3>2 DEF Abstract!Next
    <2>6. QED
        BY <1>3, <2>1, <2>2, <2>3, <2>4, <2>5 DEF Execute
<1>4. QED
    BY <1>2, <1>3

\* Two clusters, two locks and two WALs implement transfers that happen in
\* one step or not at all and are decided once: what the coordinator has
\* debited and the participant has credited is seen when the coordinator
\* records the commit, and never otherwise.
THEOREM Atomic ==
    ASSUME SingleCopies
    PROVE  Spec => ImplementsAtomicTransfer
<1>1. Init => BalancesInv
    BY BalancesInit
<1>2. TransfersInv /\ TransfersInv' /\ BalancesInv /\ [Next]_vars => BalancesInv'
    BY BalancesNext DEF TransfersInv
<1>3. Init => Abstract!Init
    BY MapsInit
<1>4. TransfersInv /\ TransfersInv' /\ BalancesInv /\ OutcomesAreBacked /\ [Next]_vars
          => [Abstract!Next]_(Abstract!vars)
    BY MapsNext
<1>5. Spec => []TransfersInv
    BY TransfersInvariant
<1>6. QED
    BY <1>1, <1>2, <1>3, <1>4, <1>5, Outcomes, PTL
    DEF Spec, Abstract!Spec, ImplementsAtomicTransfer

-----------------------------------------------------------------------------
(***************************************************************************)
(* Conservation: AtomicTransfer keeps the sum of what is seen, and what is *)
(* seen are the balances when nothing is outstanding.                      *)
(***************************************************************************)
Sum(v) == SumOver(v, Item)

SumIsInitial == \E v \in [Item -> Int] :
    v = Visible /\ Sum(v) = InitialBalance * Cardinality(Item)

LEMMA VisibleType ==
    ASSUME TypeOK, LockInv
    PROVE  Visible \in [Item -> Int]
<1>1. ASSUME NEW i \in Item PROVE Visible[i] \in Int
    <2>1. SeenAt(i) /\ bal[i] \in Nat /\ \A t \in Transfer : t.amt \in Nat
        BY ItemSeen, TransferFields DEF TypeOK
    <2>2. CASE \A t \in Transfer : ~Debited(t, i) /\ ~Credited(t, i)
        BY <2>1, <2>2 DEF SeenAt
    <2>3. ASSUME NEW t \in Transfer, Debited(t, i) \/ Credited(t, i)
          PROVE  Visible[i] \in Int
        <3>1. Visible[i] = bal[i] + t.amt \/ Visible[i] = bal[i] - t.amt
            BY <2>1, <2>3 DEF SeenAt
        <3>2. t.amt \in Nat /\ bal[i] \in Nat
            BY <2>1
        <3>3. QED
            BY <3>1, <3>2
    <2>4. QED
        BY <2>2, <2>3
<1>2. Visible = [i \in Item |-> Visible[i]]
    BY DEF Visible
<1>3. QED
    BY <1>1, <1>2

LEMMA SumInit ==
    ASSUME IsFiniteSet(Item), Abstract!Init
    PROVE  SumIsInitial
<1>1. PICK v : v = [i \in Item |-> InitialBalance]
    OBVIOUS
<1>2. InitialBalance \in Int
    BY BoundAssumption
<1>3. v \in [Item -> Int] /\ \A i \in Item : v[i] = InitialBalance
    BY <1>1, <1>2
<1>4. Sum(v) = InitialBalance * Cardinality(Item)
    BY <1>2, <1>3, SumConstant DEF Sum
<1>5. v = Visible
    BY <1>1 DEF Abstract!Init
<1>6. QED
    BY <1>3, <1>4, <1>5 DEF SumIsInitial

LEMMA SumNext ==
    ASSUME IsFiniteSet(Item), SumIsInitial, [Abstract!Next]_(Abstract!vars)
    PROVE  SumIsInitial'
<1>1. PICK v \in [Item -> Int] : v = Visible /\ Sum(v) = InitialBalance * Cardinality(Item)
    BY DEF SumIsInitial
<1>2. CASE Visible' = Visible
    <2>1. v = Visible'
        BY <1>1, <1>2
    <2>2. QED
        BY <1>1, <2>1 DEF SumIsInitial
<1>3. ASSUME NEW t \in Transfer, Abstract!Commit(t)
      PROVE  SumIsInitial'
    <2>1. PICK w : w = [v EXCEPT ![t.x] = v[t.x] - t.amt, ![t.y] = v[t.y] + t.amt]
        OBVIOUS
    <2>2. w = Visible'
        BY <1>1, <1>3, <2>1 DEF Abstract!Commit
    <2>3. t.x \in Item /\ t.y \in Item /\ t.x # t.y /\ t.amt \in Int
        BY TransferFields, TransferAssumption
    <2>4. /\ w \in [Item -> Int]
          /\ w[t.x] = v[t.x] - t.amt /\ w[t.y] = v[t.y] + t.amt
          /\ \A i \in Item : i # t.x /\ i # t.y => w[i] = v[i]
        BY <2>1, <2>3
    <2>5. Sum(w) = Sum(v)
        BY <2>3, <2>4, SumTransferred DEF Sum
    <2>6. QED
        BY <1>1, <2>2, <2>4, <2>5 DEF SumIsInitial
<1>4. QED
    BY <1>2, <1>3 DEF Abstract!Next, Abstract!Abort, Abstract!vars

LEMMA NothingHidden ==
    ASSUME TypeOK, LockInv, SumIsInitial
    PROVE  ConservedAtQuiescence
<1> SUFFICES ASSUME NothingOutstanding
             PROVE  Total = InitialBalance * Cardinality(Item)
    BY DEF ConservedAtQuiescence
<1>1. ASSUME NEW i \in Item PROVE Visible[i] = bal[i]
    <2>1. \A t \in Transfer : ~Debited(t, i) /\ ~Credited(t, i)
        BY TransferFields DEF NothingOutstanding, Debited, Credited
    <2>2. QED
        BY <2>1, ItemSeen DEF SeenAt
<1>2. Visible = bal
    BY <1>1, VisibleType DEF TypeOK
<1>3. Total = Sum(bal)
    BY DEF Total, Sum, SumOver
<1>4. QED
    BY <1>2, <1>3 DEF SumIsInitial

\* No money is created or destroyed: whenever no store holds a WAL entry, the
\* balances add up to what they were at first, however many items there are
\* and whichever transfers have committed, aborted or been voted down.
THEOREM Conserved ==
    ASSUME SingleCopies, IsFiniteSet(Item)
    PROVE  Spec => []ConservedAtQuiescence
<1>1. Abstract!Init => SumIsInitial
    BY SumInit
<1>2. SumIsInitial /\ [Abstract!Next]_(Abstract!vars) => SumIsInitial'
    BY SumNext
<1>3. TransfersInv /\ SumIsInitial => ConservedAtQuiescence
    BY NothingHidden DEF TransfersInv
<1>4. Spec => Abstract!Init /\ [][Abstract!Next]_(Abstract!vars)
    BY Atomic DEF ImplementsAtomicTransfer, Abstract!Spec
<1>5. Spec => []TransfersInv
    BY TransfersInvariant
<1>6. QED
    BY <1>1, <1>2, <1>3, <1>4, <1>5, PTL

-----------------------------------------------------------------------------
(***************************************************************************)
(* A transfer whose items no other transfer moves, with any number of      *)
(* copies of any message, timeouts, resubmissions and reclaims: debited    *)
(* once, decided once, and its sender gets back what is not committed.     *)
(***************************************************************************)
\* PREPARE, the votes that it leads to and their replies.
Asked(t) == net[PrepareMsg(t)] + Voting(t) + Replies(t) > 0

\* One debit, which needs the lock of x and happens before anything else.
DebitOf(t) ==
    /\ lock[t.x] = t \/ lock[t.x] = NoTransfer
    /\ lock[t.x] = t <=> NeedsX(t)
    /\ Todo("COORD_PREPARE", t) + Done("COORD_PREPARE", t) <= 1
    /\ HasWAL(Coord(t), t) <=> /\ Done("COORD_PREPARE", t) > 0
                               /\ Done("COORD_COMMIT", t) = 0
                               /\ Done("COORD_ABORT", t) = 0
    /\ Todo("COORD_COMMIT", t) + Todo("COORD_ABORT", t)
           + Done("COORD_COMMIT", t) + Done("COORD_ABORT", t) > 0 => t \in commitStarted
    /\ watch[t] = "aborting" => t \in commitStarted
    /\ watch[t] = "preparing" \/ t \in commitStarted \/ Asked(t) => Done("COORD_PREPARE", t) > 0

\* Until the decision is on record, y is locked for the credit and there is no
\* second yes. So a yes that decides is the only one, and no abort joins it.
DecisionOf(t) ==
    /\ Done("COORD_COMMIT", t) + Done("COORD_ABORT", t) = 0 =>
        /\ Agreed("PART_PREPARE_COMMIT", t) + Done("PART_PREPARE_COMMIT", t) <= 1
        /\ Agreed("PART_PREPARE_COMMIT", t) + Done("PART_PREPARE_COMMIT", t) > 0 => lock[t.y] = t
    /\ net[ReplyMsg(t, "commit", "part")] + Todo("COORD_COMMIT", t) + Done("COORD_COMMIT", t)
           <= Done("PART_PREPARE_COMMIT", t)
    /\ Todo("COORD_COMMIT", t) + Done("COORD_COMMIT", t) <= 1
    /\ Todo("COORD_COMMIT", t) + Done("COORD_COMMIT", t) > 0 => watch[t] # "aborting"
    /\ Todo("COORD_COMMIT", t) > 0 => Todo("COORD_ABORT", t) = 0 /\ Done("COORD_ABORT", t) = 0
    /\ Done("COORD_COMMIT", t) > 0 => Agreed("COORD_ABORT", t) = 0 /\ Done("COORD_ABORT", t) = 0

SourceOf(t) ==
    /\ HasWAL(Coord(t), t) => wal[Coord(t)][t] = InitialBalance
    /\ bal[t.x] = InitialBalance - IF HasWAL(Coord(t), t) \/ Done("COORD_COMMIT", t) > 0
                                   THEN t.amt ELSE 0

RetriesOf(t) ==
    /\ OwnSource(t) => DebitOf(t)
    /\ OwnItems(t) => DecisionOf(t) /\ SourceOf(t)

RetriesInv == \A t \in Transfer : RetriesOf(t)

-----------------------------------------------------------------------------
(***************************************************************************)
(* Steps that leave a transfer as it is, or only take something from it.   *)
(***************************************************************************)
DebitIdle(t) ==
    /\ \A op \in CoordOp : Todo(op, t)' <= Todo(op, t) /\ Done(op, t)' = Done(op, t)
    /\ Agreed("COORD_PREPARE", t)' = Agreed("COORD_PREPARE", t)
    /\ Asked(t)' => Asked(t) \/ watch[t] = "preparing"
    /\ watch'[t] = watch[t] \/ watch'[t] = "off"
    /\ t \in commitStarted' <=> t \in commitStarted
    /\ wal'[Coord(t)][t] = wal[Coord(t)][t]
    /\ lock'[t.x] = lock[t.x]

DecisionIdle(t) ==
    /\ \A op \in {"COORD_COMMIT", "COORD_ABORT"} :
           Todo(op, t)' <= Todo(op, t) /\ Done(op, t)' = Done(op, t)
    /\ Agreed("COORD_ABORT", t)' <= Agreed("COORD_ABORT", t)
    /\ Agreed("PART_PREPARE_COMMIT", t)' = Agreed("PART_PREPARE_COMMIT", t)
    /\ Done("PART_PREPARE_COMMIT", t)' = Done("PART_PREPARE_COMMIT", t)
    /\ net'[ReplyMsg(t, "commit", "part")] <= net[ReplyMsg(t, "commit", "part")]
    /\ watch'[t] = "aborting" => watch[t] = "aborting"
    /\ lock'[t.y] = lock[t.y]

SourceIdle(t) ==
    /\ Done("COORD_COMMIT", t)' = Done("COORD_COMMIT", t)
    /\ wal'[Coord(t)][t] = wal[Coord(t)][t]
    /\ bal'[t.x] = bal[t.x]

Idle(t) ==
    /\ OwnSource(t) => DebitIdle(t)
    /\ OwnItems(t) => DecisionIdle(t) /\ SourceIdle(t)

LEMMA DebitIdles ==
    ASSUME TypeOK, TypeOK', NEW t \in Transfer, DebitOf(t), DebitIdle(t)
    PROVE  DebitOf(t)'
<1>1. \A op : /\ Todo(op, t) \in Nat /\ Todo(op, t)' \in Nat
              /\ Done(op, t) \in Nat /\ Done(op, t)' \in Nat
    BY CountTypes, CountTypesNext
<1>2. \A op \in {"COORD_PREPARE", "COORD_COMMIT", "COORD_ABORT"} :
          Todo(op, t)' <= Todo(op, t) /\ Done(op, t)' = Done(op, t)
    BY DEF DebitIdle, CoordOp
<1>3. /\ HasWAL(Coord(t), t)' <=> HasWAL(Coord(t), t)
      /\ NeedsX(t)' <=> NeedsX(t)
    BY DEF DebitIdle, HasWAL, NeedsX
<1>4. QED
    BY <1>1, <1>2, <1>3 DEF DebitOf, DebitIdle

LEMMA DecisionIdles ==
    ASSUME TypeOK, TypeOK', NEW t \in Transfer, DecisionOf(t), DecisionIdle(t)
    PROVE  DecisionOf(t)'
<1>1. \A op : /\ Todo(op, t) \in Nat /\ Todo(op, t)' \in Nat
              /\ Done(op, t) \in Nat /\ Done(op, t)' \in Nat
              /\ Agreed(op, t) \in Nat /\ Agreed(op, t)' \in Nat
    BY CountTypes, CountTypesNext
<1>2. net[ReplyMsg(t, "commit", "part")] \in Nat /\ net'[ReplyMsg(t, "commit", "part")] \in Nat
    BY MessagesOf DEF TypeOK
<1>3. \A op \in {"COORD_COMMIT", "COORD_ABORT"} :
          Todo(op, t)' <= Todo(op, t) /\ Done(op, t)' = Done(op, t)
    BY DEF DecisionIdle
<1>4. QED
    BY <1>1, <1>2, <1>3 DEF DecisionOf, DecisionIdle

LEMMA SourceIdles ==
    ASSUME NEW t \in Transfer, SourceOf(t), SourceIdle(t)
    PROVE  SourceOf(t)'
BY DEF SourceOf, SourceIdle, HasWAL

LEMMA IdleKeeps ==
    ASSUME TypeOK, TypeOK', NEW t \in Transfer, RetriesOf(t), Idle(t)
    PROVE  RetriesOf(t)'
BY DebitIdles, DecisionIdles, SourceIdles DEF RetriesOf, Idle, OwnItems, OwnSource

\* Only the items of u may be locked, freed, debited or credited.
Touches(u) ==
    \A i \in Item : i \notin {u.x, u.y} => lock'[i] = lock[i] /\ bal'[i] = bal[i]

\* A step of transfer u.
LEMMA OthersIdle ==
    ASSUME TypeOK, NEW u \in Transfer, Touches(u),
           \A op : \A v \in Transfer : v # u => /\ Todo(op, v)' <= Todo(op, v)
                                                /\ Agreed(op, v)' = Agreed(op, v)
                                                /\ Done(op, v)' = Done(op, v),
           \A m \in Message : m.txn # u => net'[m] = net[m],
           \A v \in Transfer : v # u => /\ preparing'[v] = preparing[v]
                                        /\ watch'[v] = watch[v]
                                        /\ v \in commitStarted' <=> v \in commitStarted,
           \A c \in Cluster, v \in Transfer : v # u => wal'[c][v] = wal[c][v],
           TypeOK'
    PROVE  \A v \in Transfer : v # u => Idle(v)
<1> SUFFICES ASSUME NEW v \in Transfer, v # u PROVE Idle(v)
    OBVIOUS
<1>1. /\ \A op : /\ Todo(op, v)' <= Todo(op, v)
                 /\ Agreed(op, v)' = Agreed(op, v) /\ Done(op, v)' = Done(op, v)
                 /\ Todo(op, v) \in Nat /\ Todo(op, v)' \in Nat /\ Agreed(op, v) \in Nat
      /\ preparing'[v] = preparing[v] /\ preparing[v] \in Nat
    BY CountTypes, CountTypesNext DEF TypeOK
<1>2. /\ net'[PrepareMsg(v)] = net[PrepareMsg(v)]
      /\ \A o \in {"commit", "abort"} :
             net'[ReplyMsg(v, o, "part")] = net[ReplyMsg(v, o, "part")]
    BY MessagesOf, MessagesDiffer
<1>3. /\ net[PrepareMsg(v)] \in Nat
      /\ \A o \in {"commit", "abort"} : net[ReplyMsg(v, o, "part")] \in Nat
    BY MessagesOf DEF TypeOK
<1>4. Asked(v)' => Asked(v)
    BY <1>1, <1>2, <1>3 DEF Asked, Voting, Replies
<1>5. wal'[Coord(v)][v] = wal[Coord(v)][v] /\ v.x \in Item /\ v.y \in Item
    BY TransferFields
<1>6. OwnSource(v) => lock'[v.x] = lock[v.x] /\ bal'[v.x] = bal[v.x]
    BY <1>5 DEF OwnSource, Touches
<1>7. OwnItems(v) => lock'[v.y] = lock[v.y]
    BY <1>5 DEF OwnItems, Touches
<1>8. OwnSource(v) => DebitIdle(v)
    BY <1>1, <1>4, <1>5, <1>6 DEF DebitIdle
<1>9. OwnItems(v) => DecisionIdle(v)
    BY <1>1, <1>2, <1>3, <1>7 DEF DecisionIdle
<1>10. OwnItems(v) => SourceIdle(v)
    BY <1>1, <1>5, <1>6 DEF SourceIdle, OwnItems
<1>11. QED
    BY <1>8, <1>9, <1>10 DEF Idle

LEMMA RetriesStep ==
    ASSUME TypeOK, TypeOK', RetriesInv, NEW t \in Transfer, RetriesOf(t)',
           \A u \in Transfer : u # t => Idle(u)
    PROVE  RetriesInv'
BY IdleKeeps DEF RetriesInv

Course == CoordOp \cup PrepareOp

\* A step that moves no prepare or decision.
LEMMA AllIdle ==
    ASSUME TypeOK, TypeOK',
           \A op \in Course : \A v \in Transfer : /\ Todo(op, v)' <= Todo(op, v)
                                                  /\ Agreed(op, v)' = Agreed(op, v),
           UNCHANGED <<bal, lock, wal, datastore, commitStarted, preparing>>,
           \A v \in Transfer : watch'[v] = watch[v] \/ watch'[v] = "off",
           \A m \in Message : m.type = "PREPARE" \/ (m.type = "REPLY" /\ m.signer = "part") =>
               net'[m] <= net[m]
    PROVE  \A v \in Transfer : Idle(v)
<1> SUFFICES ASSUME NEW v \in Transfer PROVE Idle(v)
    OBVIOUS
<1>1. /\ \A op \in Course : Todo(op, v)' <= Todo(op, v) /\ Agreed(op, v)' = Agreed(op, v)
      /\ \A op : Todo(op, v) \in Nat /\ Todo(op, v)' \in Nat /\ Agreed(op, v) \in Nat
      /\ preparing'[v] = preparing[v] /\ preparing[v] \in Nat
    BY CountTypes, CountTypesNext DEF TypeOK
<1>2. \A op : Done(op, v)' = Done(op, v)
    BY RecordsUnchanged DEF DoneSame
<1>3. /\ PrepareMsg(v).type = "PREPARE"
      /\ \A o : ReplyMsg(v, o, "part").type = "REPLY" /\ ReplyMsg(v, o, "part").signer = "part"
    BY DEF PrepareMsg, ReplyMsg
<1>4. /\ net'[PrepareMsg(v)] <= net[PrepareMsg(v)]
      /\ net[PrepareMsg(v)] \in Nat /\ net'[PrepareMsg(v)] \in Nat
      /\ \A o \in {"commit", "abort"} :
             /\ net'[ReplyMsg(v, o, "part")] <= net[ReplyMsg(v, o, "part")]
             /\ net[ReplyMsg(v, o, "part")] \in Nat /\ net'[ReplyMsg(v, o, "part")] \in Nat
    BY <1>3, MessagesOf DEF TypeOK
<1>5. {"COORD_PREPARE", "COORD_COMMIT", "COORD_ABORT", "PART_PREPARE_COMMIT",
       "PART_PREPARE_ABORT"} \subseteq Course
    BY DEF Course, CoordOp, PrepareOp
<1>6. Asked(v)' => Asked(v)
    BY <1>1, <1>4, <1>5 DEF Asked, Voting, Replies
<1>7. DebitIdle(v)
    BY <1>1, <1>2, <1>5, <1>6 DEF DebitIdle, CoordOp
<1>8. DecisionIdle(v)
    BY <1>1, <1>2, <1>4, <1>5 DEF DecisionIdle
<1>9. SourceIdle(v)
    BY <1>2 DEF SourceIdle
<1>10. QED
    BY <1>7, <1>8, <1>9 DEF Idle

LEMMA AllIdleKeeps ==
    ASSUME TypeOK, TypeOK', RetriesInv, \A v \in Transfer : Idle(v)
    PROVE  RetriesInv'
BY IdleKeeps DEF RetriesInv

\* Nothing moves between the queues.
LEMMA IdleQueues ==
    ASSUME TypeOK, TypeOK', RetriesInv,
           UNCHANGED <<clientQueue, internalQueue, starting, inflight>>,
           UNCHANGED <<bal, lock, wal, datastore, commitStarted, preparing>>,
           \A v \in Transfer : watch'[v] = watch[v] \/ watch'[v] = "off",
           \A m \in Message : m.type = "PREPARE" \/ (m.type = "REPLY" /\ m.signer = "part") =>
               net'[m] <= net[m]
    PROVE  RetriesInv'
<1>1. \A op : \A v \in Transfer : Todo(op, v)' <= Todo(op, v) /\ Agreed(op, v)' = Agreed(op, v)
    BY QueuesUnchanged, CountTypes DEF TodoSame, AgreedSame
<1>2. QED
    BY <1>1, AllIdle, AllIdleKeeps

-----------------------------------------------------------------------------
(***************************************************************************)
(* Clients and the ingress loop.                                           *)
(***************************************************************************)
LEMMA RetriesStartPrepare ==
    ASSUME TypeOK, TypeOK', SlotInv, RetriesInv, NEW t \in Transfer, NEW k \in Handler,
           StartPrepare(t, k)
    PROVE  RetriesInv'
<1>1. UNCHANGED <<bal, lock, wal, datastore, commitStarted, watch, preparing, net>>
    BY DEF StartPrepare, storeVars
<1>2. TodoMore("COORD_PREPARE", t) /\ AgreedSame /\ DoneSame
    BY <1>1, StartPrepareMoves, RecordsUnchanged
<1>3. \A u \in Transfer : u # t => Idle(u)
    <2>1. \A op : \A u \in Transfer : u # t => /\ Todo(op, u)' <= Todo(op, u)
                                               /\ Agreed(op, u)' = Agreed(op, u)
                                               /\ Done(op, u)' = Done(op, u)
        BY <1>2, CountTypes DEF TodoMore, AgreedSame, DoneSame
    <2>2. QED
        BY <1>1, <2>1, OthersIdle DEF Touches
<1>4. RetriesOf(t)
    BY DEF RetriesInv
<1>5. /\ \A op : op # "COORD_PREPARE" => Todo(op, t)' = Todo(op, t)
      /\ Todo("COORD_PREPARE", t)' = 1
      /\ \A op : Agreed(op, t)' = Agreed(op, t) /\ Done(op, t)' = Done(op, t)
      /\ \A op : Todo(op, t) \in Nat /\ Done(op, t) \in Nat
    BY <1>2, StartIsAlone, CountTypes DEF TodoMore, AgreedSame, DoneSame
<1>6. OwnSource(t) => DebitOf(t)'
    <2>1. SUFFICES ASSUME DebitOf(t) PROVE DebitOf(t)'
        BY <1>4 DEF RetriesOf
    <2>2. t \notin commitStarted /\ lock[t.x] = NoTransfer /\ t # NoTransfer
        BY TransferAssumption DEF StartPrepare, StartableByClient
    <2>3. Done("COORD_PREPARE", t) = 0
        <3>1. ~HasWAL(Coord(t), t)
            BY <2>1, <2>2 DEF DebitOf, NeedsX
        <3>2. Done("COORD_COMMIT", t) = 0 /\ Done("COORD_ABORT", t) = 0
            BY <2>1, <2>2, CountsOf DEF DebitOf
        <3>3. QED
            BY <2>1, <3>1, <3>2, CountsOf DEF DebitOf
    <2>4. /\ HasWAL(Coord(t), t)' <=> HasWAL(Coord(t), t)
          /\ NeedsX(t)' <=> NeedsX(t)
          /\ Asked(t)' <=> Asked(t)
        BY <1>1, <1>5 DEF HasWAL, NeedsX, Asked, Voting, Replies
    <2>5. QED
        BY <1>1, <1>5, <2>1, <2>3, <2>4 DEF DebitOf
<1>7. OwnItems(t) => DecisionOf(t)' /\ SourceOf(t)'
    <2>1. DecisionIdle(t) /\ SourceIdle(t)
        BY <1>1, <1>5, CountsOf, CountTypes DEF DecisionIdle, SourceIdle
    <2>2. QED
        BY <1>4, <2>1, DecisionIdles, SourceIdles DEF RetriesOf
<1>8. RetriesOf(t)'
    BY <1>6, <1>7 DEF RetriesOf, OwnSource, OwnItems
<1>9. QED
    BY <1>3, <1>8, RetriesStep

LEMMA RetriesClients ==
    ASSUME TypeOK, TypeOK', SlotInv, RetriesInv, NEW t \in Transfer, NEW k \in Handler,
           Submit(t, k) \/ ClientHandler(t, k)
    PROVE  RetriesInv'
<1>1. CASE StartPrepare(t, k)
    BY <1>1, RetriesStartPrepare
<1>2. CASE Submit(t, k) \/ AcquireCrossSlot(t, k) \/ CrossSlotExpires(t, k)
               \/ DropClientRequest(t, k)
    <2>1. /\ UNCHANGED <<clientQueue, internalQueue, starting, inflight>>
          /\ UNCHANGED <<bal, lock, wal, datastore, commitStarted, watch, preparing, net>>
        BY <1>2 DEF Submit, AcquireCrossSlot, CrossSlotExpires, DropClientRequest, engineVars,
                    storeVars
    <2>2. \A m \in Message : net'[m] <= net[m]
        BY <2>1 DEF TypeOK
    <2>3. QED
        BY <2>1, <2>2, IdleQueues
<1>3. QED
    BY <1>1, <1>2 DEF ClientHandler

\* A hole takes the place of a PART_ABORT.
LEMMA BurntIdle ==
    ASSUME TypeOK, TypeOK', HomeInv, NEW c \in Cluster, BurnSequence(c)
    PROVE  \A op \in Course : \A v \in Transfer : /\ Todo(op, v)' = Todo(op, v)
                                                  /\ Agreed(op, v)' = Agreed(op, v)
<1>1. PICK e \in Operation : /\ Proposes(c, e, Op("HOLE", e.txn)) /\ ~LocksHeld(e)
    BY DEF BurnSequence, Proposes
<1>2. /\ e.op = "PART_ABORT" /\ Op("HOLE", e.txn) \in Operation
    BY <1>1, OperationFields, OperationTypes DEF LocksHeld
<1> SUFFICES ASSUME NEW op \in Course, NEW v \in Transfer
             PROVE  Todo(op, v)' = Todo(op, v) /\ Agreed(op, v)' = Agreed(op, v)
    OBVIOUS
<1> DEFINE d == HomeOf(Op(op, v))
           E == {Op(op, v)}
           f == Op("HOLE", e.txn)
<1>3. d \in Cluster
    BY HomesAreClusters
<1>4. e \notin E /\ f \notin E
    BY <1>2 DEF Op, Course, CoordOp, PrepareOp
<1>5. /\ Todo(op, v) = Live(d, E) /\ Todo(op, v)' = Live(d, E)'
      /\ Agreed(op, v) = Copies(inflight[d], E) /\ Agreed(op, v)' = Copies(inflight'[d], E)
    BY DEF Todo, Agreed
<1> HIDE DEF d, E, f
<1>6. Live(d, E)' = Live(d, E)
    <2>1. Live(d, E)' + One(d = c /\ e \in E) = Live(d, E) + One(d = c /\ f \in E)
        BY <1>1, <1>2, <1>3, ProposalMoves DEF f
    <2>2. One(d = c /\ e \in E) = 0 /\ One(d = c /\ f \in E) = 0
        BY <1>4 DEF One
    <2>3. QED
        BY <1>3, <2>1, <2>2, LiveType, LiveTypeNext
<1>7. Copies(inflight'[d], E) = Copies(inflight[d], E)
    <2>1. inflight[d] \in Seq(Operation)
        BY <1>3 DEF TypeOK
    <2>2. Copies(inflight[d], E) \in Nat
        BY <2>1, CopiesType
    <2>3. CASE d # c
        BY <1>1, <1>3, <2>3 DEF Proposes, TypeOK
    <2>4. CASE d = c
        <3>1. inflight'[d] = Append(inflight[d], f)
            BY <1>1, <2>4 DEF Proposes, TypeOK, f
        <3>2. f \in Operation
            BY <1>2 DEF f
        <3>3. Copies(Append(inflight[d], f), E) = Copies(inflight[d], E) + IF f \in E THEN 1 ELSE 0
            BY <2>1, <3>2, CopiesAppend
        <3>4. QED
            BY <1>4, <2>2, <3>1, <3>3
    <2>5. QED
        BY <2>3, <2>4
<1>8. QED
    BY <1>5, <1>6, <1>7

\* With a commit on record x is free, so a late abort is refused.
LEMMA CommittedSourceFree ==
    ASSUME TypeOK, NEW t \in Transfer, DebitOf(t), Done("COORD_COMMIT", t) > 0
    PROVE  lock[t.x] = NoTransfer
<1>1. Done("COORD_PREPARE", t) > 0 /\ ~HasWAL(Coord(t), t)
    BY CountsOf DEF DebitOf
<1>2. Todo("COORD_PREPARE", t) = 0
    BY <1>1, CountsOf DEF DebitOf
<1>3. ~NeedsX(t)
    BY <1>1, <1>2, CountTypes DEF NeedsX
<1>4. QED
    BY <1>3 DEF DebitOf

LEMMA RetriesPropose ==
    ASSUME TypeOK, TypeOK', HomeInv, RetriesInv, NEW c \in Cluster, Propose(c)
    PROVE  RetriesInv'
<1>1. PICK e \in Operation :
          /\ Proposes(c, e, e) /\ ValidForStart(c, e) /\ lock' = Acquired(e)
          /\ UNCHANGED <<bal, wal, datastore, commitStarted, watch, preparing, net>>
    BY DEF Propose, Proposes, coordVars
<1>2. PICK t \in Transfer : t = e.txn
    BY OperationFields
<1>3. TodoSame /\ AgreedMore(e.op, t) /\ DoneSame
    BY <1>1, <1>2, Proposed, RecordsUnchanged
<1>4. /\ LockItems(e) \subseteq {t.x, t.y}
      /\ \A i \in Item : lock'[i] = IF i \in LockItems(e) THEN t ELSE lock[i]
      /\ \A i \in LockItems(e) : lock[i] = NoTransfer
    BY <1>1, <1>2 DEF Acquired, LockItems, ValidForStart, CanAcquire
<1>5. \A u \in Transfer : u # t => Idle(u)
    <2>1. Touches(t)
        BY <1>1, <1>4 DEF Touches
    <2>2. \A op : \A u \in Transfer : u # t => /\ Todo(op, u)' <= Todo(op, u)
                                               /\ Agreed(op, u)' = Agreed(op, u)
                                               /\ Done(op, u)' = Done(op, u)
        BY <1>3, CountTypes DEF TodoSame, AgreedMore, DoneSame
    <2>3. QED
        BY <1>1, <2>1, <2>2, OthersIdle
<1>6. /\ RetriesOf(t) /\ t.x \in Item /\ t.y \in Item /\ t.x # t.y /\ t # NoTransfer
    BY TransferFields, TransferAssumption DEF RetriesInv
<1>7. /\ \A op : Todo(op, t)' = Todo(op, t) /\ Done(op, t)' = Done(op, t)
      /\ \A op : op # e.op => Agreed(op, t)' = Agreed(op, t)
      /\ Agreed(e.op, t)' = Agreed(e.op, t) + 1
      /\ \A op : Todo(op, t) \in Nat /\ Done(op, t) \in Nat /\ Agreed(op, t) \in Nat
    BY <1>3, CountTypes DEF TodoSame, AgreedMore, DoneSame
<1>8. Asked(t)' <=> Asked(t)
    BY <1>1, <1>7 DEF Asked, Voting, Replies
<1>9. OwnSource(t) => DebitOf(t)'
    <2>1. CASE e.op = "COORD_PREPARE"
        <3>1. lock'[t.x] = t /\ NeedsX(t)'
            BY <1>2, <1>4, <1>6, <1>7, <2>1 DEF LockItems, NeedsX
        <3>2. HasWAL(Coord(t), t)' <=> HasWAL(Coord(t), t)
            BY <1>1 DEF HasWAL
        <3>3. QED
            BY <1>1, <1>6, <1>7, <1>8, <3>1, <3>2 DEF RetriesOf, DebitOf
    <2>2. CASE e.op # "COORD_PREPARE"
        <3>1. t.x \notin LockItems(e)
            BY <1>2, <1>6, <2>2 DEF LockItems
        <3>2. DebitIdle(t)
            BY <1>1, <1>4, <1>6, <1>7, <1>8, <2>2, <3>1 DEF DebitIdle
        <3>3. QED
            BY <1>6, <3>2, DebitIdles DEF RetriesOf
    <2>3. QED
        BY <2>1, <2>2
<1>10. OwnItems(t) => DecisionOf(t)'
    <2> SUFFICES ASSUME OwnItems(t), DecisionOf(t), DebitOf(t) PROVE DecisionOf(t)'
        BY <1>6 DEF RetriesOf, OwnItems
    <2>1. net[ReplyMsg(t, "commit", "part")] \in Nat
        BY CountsOf
    <2>2. CASE e.op = "PART_PREPARE_COMMIT"
        <3>1. lock'[t.y] = t /\ lock[t.y] # t
            BY <1>2, <1>4, <1>6, <2>2 DEF LockItems
        <3>2. Agreed("COORD_ABORT", t)' = Agreed("COORD_ABORT", t)
            BY <1>7, <2>2
        <3>3. Done("COORD_COMMIT", t) + Done("COORD_ABORT", t) = 0 =>
                  Agreed("PART_PREPARE_COMMIT", t) + Done("PART_PREPARE_COMMIT", t) = 0
            BY <1>7, <3>1 DEF DecisionOf
        <3>4. QED
            BY <1>1, <1>7, <2>2, <3>1, <3>2, <3>3 DEF DecisionOf
    <2>3. CASE e.op = "COORD_ABORT"
        <3>1. lock[t.x] # NoTransfer
            BY <1>1, <1>2, <2>3 DEF ValidForStart
        <3>2. Done("COORD_COMMIT", t) = 0
            BY <1>7, <3>1, CommittedSourceFree
        <3>3. lock'[t.y] = lock[t.y]
            BY <1>4, <1>6, <2>3 DEF LockItems
        <3>4. Agreed("PART_PREPARE_COMMIT", t)' = Agreed("PART_PREPARE_COMMIT", t)
            BY <1>7, <2>3
        <3>5. QED
            BY <1>1, <1>7, <3>2, <3>3, <3>4 DEF DecisionOf
    <2>4. CASE e.op \notin {"PART_PREPARE_COMMIT", "COORD_ABORT"}
        <3>1. t.y \notin LockItems(e)
            BY <1>2, <1>6, <2>4 DEF LockItems
        <3>2. /\ Agreed("COORD_ABORT", t)' = Agreed("COORD_ABORT", t)
              /\ Agreed("PART_PREPARE_COMMIT", t)' = Agreed("PART_PREPARE_COMMIT", t)
            BY <1>7, <2>4
        <3>3. DecisionIdle(t)
            BY <1>1, <1>4, <1>6, <1>7, <2>1, <3>1, <3>2 DEF DecisionIdle
        <3>4. QED
            BY <3>3, DecisionIdles
    <2>5. QED
        BY <2>2, <2>3, <2>4
<1>11. OwnItems(t) => SourceOf(t)'
    BY <1>1, <1>6, <1>7, SourceIdles DEF RetriesOf, SourceIdle
<1>12. RetriesOf(t)'
    BY <1>9, <1>10, <1>11 DEF RetriesOf, OwnSource, OwnItems
<1>13. QED
    BY <1>5, <1>12, RetriesStep

LEMMA RetriesIngress ==
    ASSUME TypeOK, TypeOK', HomeInv, RetriesInv, NEW c \in Cluster, Ingress(c)
    PROVE  RetriesInv'
<1>1. CASE Propose(c)
    BY <1>1, RetriesPropose
<1>2. CASE Take(c) \/ BurnSequence(c) \/ Refuse(c)
    <2>1. /\ UNCHANGED <<bal, lock, wal, datastore, commitStarted, watch, preparing>>
          /\ UNCHANGED net
        BY <1>2 DEF Take, BurnSequence, Refuse, storeVars, coordVars
    <2>2. \A m \in Message : net'[m] <= net[m]
        BY <2>1 DEF TypeOK
    <2>3. \A op \in Course : \A v \in Transfer : /\ Todo(op, v)' <= Todo(op, v)
                                                 /\ Agreed(op, v)' = Agreed(op, v)
        <3>1. CASE Take(c)
            <4>1. \A op : \A v \in Transfer : Todo(op, v)' = Todo(op, v)
                BY <3>1, TakeMoves, HomesAreClusters DEF Todo
            <4>2. UNCHANGED inflight
                BY <3>1 DEF Take
            <4>3. \A op : \A v \in Transfer : Agreed(op, v)' = Agreed(op, v)
                BY <4>2 DEF Agreed
            <4>4. QED
                BY <4>1, <4>3, CountTypes
        <3>2. CASE BurnSequence(c)
            BY <3>2, BurntIdle, CountTypes
        <3>3. CASE Refuse(c)
            <4>1. PICK e \in Operation : Refuses(c, e)
                BY <3>3 DEF Refuse, Refuses
            <4>2. QED
                BY <4>1, Refused DEF AgreedSame
        <3>4. QED
            BY <1>2, <3>1, <3>2, <3>3
    <2>4. QED
        BY <2>1, <2>2, <2>3, AllIdle, AllIdleKeeps
<1>3. QED
    BY <1>1, <1>2 DEF Ingress

LEMMA RetriesReclaim ==
    ASSUME TypeOK, TypeOK', HomeInv, RetriesInv, NEW c \in Cluster, Reclaim(c)
    PROVE  RetriesInv'
<1>1. PICK i \in DOMAIN inflight[c] :
          /\ Reclaims(c, i) /\ lock' = Released(LockItems(inflight[c][i]))
          /\ inflight[c][i].op \in PrepareOp
          /\ UNCHANGED <<bal, wal, datastore, commitStarted, watch, preparing, net>>
    BY DEF Reclaim, Reclaims
<1>0. PICK e \in Operation : e = inflight[c][i]
    BY DEF TypeOK
<1>2. PICK t \in Transfer : t = e.txn
    BY OperationFields
<1>3. TodoLess(e.op, t) /\ AgreedLess(e.op, t) /\ DoneSame
    BY <1>0, <1>1, <1>2, Reclaimed, RecordsUnchanged
<1>4. /\ LockItems(e) \subseteq {t.x, t.y}
      /\ \A j \in Item : lock'[j] = IF j \in LockItems(e) THEN NoTransfer ELSE lock[j]
    BY <1>0, <1>1, <1>2 DEF Released, LockItems
<1>5. \A u \in Transfer : u # t => Idle(u)
    <2>1. Touches(t)
        BY <1>1, <1>4 DEF Touches
    <2>2. \A op : \A u \in Transfer : u # t => /\ Todo(op, u)' <= Todo(op, u)
                                               /\ Agreed(op, u)' = Agreed(op, u)
                                               /\ Done(op, u)' = Done(op, u)
        BY <1>3, CountTypes DEF TodoLess, AgreedLess, DoneSame
    <2>3. QED
        BY <1>1, <2>1, <2>2, OthersIdle
<1>6. /\ RetriesOf(t) /\ t.x \in Item /\ t.y \in Item /\ t.x # t.y /\ t # NoTransfer
    BY TransferFields, TransferAssumption DEF RetriesInv
<1>7. /\ \A op : op # e.op => Todo(op, t)' = Todo(op, t) /\ Agreed(op, t)' = Agreed(op, t)
      /\ Todo(e.op, t) = Todo(e.op, t)' + 1 /\ Agreed(e.op, t) = Agreed(e.op, t)' + 1
      /\ \A op : Done(op, t)' = Done(op, t)
      /\ \A op : /\ Todo(op, t) \in Nat /\ Done(op, t) \in Nat /\ Agreed(op, t) \in Nat
                 /\ Todo(op, t)' \in Nat /\ Agreed(op, t)' \in Nat
                 /\ Agreed(op, t) <= Todo(op, t)
    BY <1>3, CountTypes, CountTypesNext DEF TodoLess, AgreedLess, DoneSame
<1>8. \A op : Todo(op, t)' <= Todo(op, t) /\ Agreed(op, t)' <= Agreed(op, t)
    BY <1>7
<1>9. Asked(t)' => Asked(t)
    BY <1>1, <1>7, <1>8, CountsOf DEF Asked, Voting, Replies
<1>10. OwnSource(t) => DebitOf(t)'
    <2> SUFFICES ASSUME DebitOf(t) PROVE DebitOf(t)'
        BY <1>6 DEF RetriesOf
    <2>1. HasWAL(Coord(t), t)' <=> HasWAL(Coord(t), t)
        BY <1>1 DEF HasWAL
    <2>2. CASE e.op = "COORD_PREPARE"
        <3>0. Todo("COORD_PREPARE", t) = Todo("COORD_PREPARE", t)' + 1
            BY <1>7, <2>2
        <3>1. Todo("COORD_PREPARE", t) = 1 /\ Done("COORD_PREPARE", t) = 0
            BY <1>7, <3>0 DEF DebitOf
        <3>2. lock'[t.x] = NoTransfer
            BY <1>2, <1>4, <1>6, <2>2 DEF LockItems
        <3>3. ~HasWAL(Coord(t), t) /\ Agreed("COORD_PREPARE", t)' = 0
            BY <1>7, <2>2, <3>1 DEF DebitOf
        <3>4. ~NeedsX(t)'
            BY <2>1, <3>3 DEF NeedsX
        <3>5. /\ Todo("COORD_COMMIT", t)' = Todo("COORD_COMMIT", t)
              /\ Todo("COORD_ABORT", t)' = Todo("COORD_ABORT", t)
              /\ Todo("COORD_PREPARE", t)' = 0
            BY <1>7, <2>2, <3>1
        <3>6. QED
            BY <1>1, <1>6, <1>7, <1>9, <2>1, <3>1, <3>2, <3>4, <3>5 DEF DebitOf
    <2>3. CASE e.op # "COORD_PREPARE"
        <3>1. lock'[t.x] = lock[t.x]
            BY <1>2, <1>4, <1>6, <2>3 DEF LockItems
        <3>2. DebitIdle(t)
            BY <1>1, <1>7, <1>8, <1>9, <2>3, <3>1 DEF DebitIdle
        <3>3. QED
            BY <3>2, DebitIdles
    <2>4. QED
        BY <2>2, <2>3
<1>11. OwnItems(t) => DecisionOf(t)'
    <2> SUFFICES ASSUME DecisionOf(t) PROVE DecisionOf(t)'
        BY <1>6 DEF RetriesOf
    <2>1. /\ net[ReplyMsg(t, "commit", "part")] \in Nat
          /\ Agreed("COORD_ABORT", t)' <= Agreed("COORD_ABORT", t)
        BY <1>8, CountsOf
    <2>2. CASE e.op = "PART_PREPARE_COMMIT"
        <3>1. Agreed("PART_PREPARE_COMMIT", t) = Agreed("PART_PREPARE_COMMIT", t)' + 1
            BY <1>7, <2>2
        <3>2. Done("COORD_COMMIT", t) + Done("COORD_ABORT", t) = 0 =>
                  Agreed("PART_PREPARE_COMMIT", t)' + Done("PART_PREPARE_COMMIT", t) = 0
            BY <1>7, <3>1 DEF DecisionOf
        <3>3. /\ Todo("COORD_COMMIT", t)' = Todo("COORD_COMMIT", t)
              /\ Todo("COORD_ABORT", t)' = Todo("COORD_ABORT", t)
              /\ Agreed("COORD_ABORT", t)' = Agreed("COORD_ABORT", t)
            BY <1>7, <2>2
        <3>4. QED
            BY <1>1, <1>7, <3>2, <3>3 DEF DecisionOf
    <2>3. CASE e.op # "PART_PREPARE_COMMIT"
        <3>1. /\ lock'[t.y] = lock[t.y]
              /\ Agreed("PART_PREPARE_COMMIT", t)' = Agreed("PART_PREPARE_COMMIT", t)
            BY <1>2, <1>4, <1>6, <1>7, <2>3 DEF LockItems
        <3>2. DecisionIdle(t)
            BY <1>1, <1>7, <1>8, <2>1, <3>1 DEF DecisionIdle
        <3>3. QED
            BY <3>2, DecisionIdles
    <2>4. QED
        BY <2>2, <2>3
<1>12. OwnItems(t) => SourceOf(t)'
    BY <1>1, <1>6, <1>7, SourceIdles DEF RetriesOf, SourceIdle
<1>13. RetriesOf(t)'
    BY <1>10, <1>11, <1>12 DEF RetriesOf, OwnSource, OwnItems
<1>14. QED
    BY <1>5, <1>13, RetriesStep

-----------------------------------------------------------------------------
(***************************************************************************)
(* Execution.                                                              *)
(***************************************************************************)
LEMMA RetriesCoordPrepare ==
    ASSUME TypeOK, TypeOK', RetriesInv, NEW t \in Transfer, ExecuteCoordPrepare(t)
    PROVE  RetriesInv'
<1>1. TodoLess("COORD_PREPARE", t) /\ AgreedLess("COORD_PREPARE", t)
    BY CoordPrepareMoves
<1>2. /\ RetriesOf(t) /\ t.x \in Item /\ t.y \in Item /\ t.x # t.y /\ t # NoTransfer
      /\ Coord(t) \in Cluster /\ t.amt \in Nat
    BY TransferFields, TransferAssumption DEF RetriesInv
<1>3. UNCHANGED <<commitStarted, preparing>>
    BY DEF ExecuteCoordPrepare
<1>4. /\ \A op : op # "COORD_PREPARE" =>
             Todo(op, t)' = Todo(op, t) /\ Agreed(op, t)' = Agreed(op, t)
      /\ Todo("COORD_PREPARE", t) = Todo("COORD_PREPARE", t)' + 1
      /\ Agreed("COORD_PREPARE", t) = Agreed("COORD_PREPARE", t)' + 1
      /\ \A op : /\ Todo(op, t) \in Nat /\ Done(op, t) \in Nat /\ Agreed(op, t) \in Nat
                 /\ Todo(op, t)' \in Nat /\ Agreed(op, t)' \in Nat
                 /\ Agreed(op, t) <= Todo(op, t)
    BY <1>1, CountTypes, CountTypesNext DEF TodoLess, AgreedLess
<1>5. ASSUME DebitOf(t)
      PROVE  /\ Todo("COORD_PREPARE", t)' = 0 /\ Agreed("COORD_PREPARE", t)' = 0
             /\ Done("COORD_PREPARE", t) = 0 /\ lock[t.x] = t
             /\ ~HasWAL(Coord(t), t) /\ t \notin commitStarted
             /\ Done("COORD_COMMIT", t) = 0 /\ Done("COORD_ABORT", t) = 0
    <2>0. Todo("COORD_PREPARE", t) = 1 /\ Done("COORD_PREPARE", t) = 0
        <3>1. Todo("COORD_PREPARE", t) + Done("COORD_PREPARE", t) <= 1
            BY <1>5 DEF DebitOf
        <3>2. /\ Todo("COORD_PREPARE", t) \in Nat /\ Done("COORD_PREPARE", t) \in Nat
              /\ Todo("COORD_PREPARE", t)' \in Nat
              /\ Todo("COORD_PREPARE", t) = Todo("COORD_PREPARE", t)' + 1
            BY <1>4
        <3>3. QED
            BY <3>1, <3>2
    <2>1. /\ Todo("COORD_PREPARE", t) = 1 /\ Done("COORD_PREPARE", t) = 0
          /\ Agreed("COORD_PREPARE", t) = 1
        <3>1. /\ Agreed("COORD_PREPARE", t) \in Nat /\ Agreed("COORD_PREPARE", t)' \in Nat
              /\ Agreed("COORD_PREPARE", t) = Agreed("COORD_PREPARE", t)' + 1
              /\ Agreed("COORD_PREPARE", t) <= Todo("COORD_PREPARE", t)
            BY <1>4
        <3>2. QED
            BY <2>0, <3>1
    <2>2. t \notin commitStarted /\ ~HasWAL(Coord(t), t) /\ lock[t.x] = t
        BY <1>5, <2>1 DEF DebitOf, NeedsX
    <2>3. QED
        BY <1>4, <1>5, <2>1, <2>2 DEF DebitOf
<1>6. CASE bal[t.x] >= t.amt
    <2>1. /\ bal' = [bal EXCEPT ![t.x] = @ - t.amt]
          /\ wal' = [wal EXCEPT ![Coord(t)][t] = bal[t.x]]
          /\ datastore' = Appended(Coord(t), Op("COORD_PREPARE", t))
          /\ watch' = [watch EXCEPT ![t] = "preparing"]
          /\ net' = Sent(PrepareMsg(t))
          /\ UNCHANGED lock
        BY <1>6 DEF ExecuteCoordPrepare
    <2>2. DoneMore("COORD_PREPARE", t)
        <3>1. /\ HomeOf(Op("COORD_PREPARE", t)) = Coord(t)
              /\ Op("COORD_PREPARE", t) \in Operation
            BY OperationNames, OperationTypes DEF CoordOp
        <3>2. QED
            BY <2>1, <3>1, AppendedRecord
    <2>3. /\ \A op : op # "COORD_PREPARE" => Done(op, t)' = Done(op, t)
          /\ Done("COORD_PREPARE", t)' = Done("COORD_PREPARE", t) + 1
        BY <2>2 DEF DoneMore
    <2>4. \A m \in Message : m # PrepareMsg(t) => net'[m] = net[m]
        BY <2>1, MessagesOf, SentCounts
    <2>5. \A u \in Transfer : u # t => Idle(u)
        <3>1. \A op : \A u \in Transfer : u # t => /\ Todo(op, u)' <= Todo(op, u)
                                                   /\ Agreed(op, u)' = Agreed(op, u)
                                                   /\ Done(op, u)' = Done(op, u)
            BY <1>1, <2>2, CountTypes DEF TodoLess, AgreedLess, DoneMore
        <3>2. Touches(t)
            BY <2>1 DEF Touches, TypeOK
        <3>3. \A m \in Message : m.txn # t => net'[m] = net[m]
            BY <2>4, MessagesDiffer
        <3>4. \A c \in Cluster, u \in Transfer : u # t => wal'[c][u] = wal[c][u]
            BY <2>1 DEF TypeOK
        <3>5. \A u \in Transfer : u # t => watch'[u] = watch[u]
            BY <2>1 DEF TypeOK
        <3>6. QED
            BY <1>3, <3>1, <3>2, <3>3, <3>4, <3>5, OthersIdle
    <2>6. /\ wal'[Coord(t)][t] = bal[t.x] /\ bal'[t.x] = bal[t.x] - t.amt
          /\ HasWAL(Coord(t), t)' /\ watch'[t] = "preparing" /\ bal[t.x] \in Nat
        <3>1. bal[t.x] \in Nat
            BY <1>2 DEF TypeOK
        <3>2. wal'[Coord(t)][t] = bal[t.x]
            BY <1>2, <2>1, WALType
        <3>3. bal'[t.x] = bal[t.x] - t.amt
            BY <1>2, <2>1 DEF TypeOK
        <3>4. watch'[t] = "preparing"
            BY <1>2, <2>1 DEF TypeOK
        <3>5. QED
            BY <3>1, <3>2, <3>3, <3>4 DEF HasWAL, NoPreimage
    <2>7. OwnSource(t) => DebitOf(t)'
        <3> SUFFICES ASSUME DebitOf(t) PROVE DebitOf(t)'
            BY <1>2 DEF RetriesOf
        <3>1. Todo("COORD_COMMIT", t) = 0 /\ Todo("COORD_ABORT", t) = 0
            BY <1>4, <1>5 DEF DebitOf
        <3>2. NeedsX(t)'
            BY <2>6 DEF NeedsX
        <3>3. Todo("COORD_COMMIT", t)' = 0 /\ Todo("COORD_ABORT", t)' = 0
            BY <1>4, <3>1
        <3>4. Done("COORD_COMMIT", t)' = 0 /\ Done("COORD_ABORT", t)' = 0
            BY <1>5, <2>3
        <3>5. QED
            BY <1>2, <1>3, <1>5, <2>1, <2>3, <2>6, <3>2, <3>3, <3>4 DEF DebitOf
    <2>8. OwnItems(t) => DecisionOf(t)'
        <3>1. net'[ReplyMsg(t, "commit", "part")] = net[ReplyMsg(t, "commit", "part")]
            BY <2>4, MessagesOf, MessagesDiffer
        <3>2. DecisionIdle(t)
            BY <1>4, <2>1, <2>3, <2>6, <3>1, CountsOf DEF DecisionIdle
        <3>3. QED
            BY <1>2, <3>2, DecisionIdles DEF RetriesOf
    <2>9. OwnItems(t) => SourceOf(t)'
        <3> SUFFICES ASSUME DebitOf(t), SourceOf(t) PROVE SourceOf(t)'
            BY <1>2 DEF RetriesOf, OwnItems
        <3>1. bal[t.x] = InitialBalance
            BY <1>5, BoundAssumption DEF SourceOf
        <3>2. QED
            BY <2>6, <3>1 DEF SourceOf
    <2>10. RetriesOf(t)'
        BY <2>7, <2>8, <2>9 DEF RetriesOf, OwnSource, OwnItems
    <2>11. QED
        BY <2>5, <2>10, RetriesStep
<1>7. CASE ~(bal[t.x] >= t.amt)
    <2>1. lock' = Released({t.x}) /\ UNCHANGED <<bal, wal, datastore, watch, net>>
        BY <1>7 DEF ExecuteCoordPrepare
    <2>2. \A op : \A u \in Transfer : Done(op, u)' = Done(op, u)
        BY <2>1, RecordsUnchanged DEF DoneSame
    <2>3. /\ \A i \in Item : i # t.x => lock'[i] = lock[i]
          /\ lock'[t.x] = NoTransfer
        BY <1>2, <2>1 DEF Released
    <2>4. \A u \in Transfer : u # t => Idle(u)
        <3>1. \A op : \A u \in Transfer : u # t => /\ Todo(op, u)' <= Todo(op, u)
                                                   /\ Agreed(op, u)' = Agreed(op, u)
                                                   /\ Done(op, u)' = Done(op, u)
            BY <1>1, <2>2, CountTypes DEF TodoLess, AgreedLess
        <3>2. Touches(t)
            BY <2>1, <2>3 DEF Touches
        <3>3. QED
            BY <1>3, <2>1, <3>1, <3>2, OthersIdle
    <2>5. HasWAL(Coord(t), t)' <=> HasWAL(Coord(t), t)
        BY <2>1 DEF HasWAL
    <2>6. Asked(t)' => Asked(t)
        BY <1>3, <1>4, <2>1 DEF Asked, Voting, Replies
    <2>7. OwnSource(t) => DebitOf(t)'
        <3> SUFFICES ASSUME DebitOf(t) PROVE DebitOf(t)'
            BY <1>2 DEF RetriesOf
        <3>1. ~NeedsX(t)'
            BY <1>5, <2>5 DEF NeedsX
        <3>2. /\ Todo("COORD_COMMIT", t)' = Todo("COORD_COMMIT", t)
              /\ Todo("COORD_ABORT", t)' = Todo("COORD_ABORT", t)
            BY <1>4
        <3>3. QED
            BY <1>2, <1>3, <1>5, <2>1, <2>2, <2>3, <2>5, <2>6, <3>1, <3>2 DEF DebitOf
    <2>8. DecisionIdle(t) /\ SourceIdle(t)
        BY <1>2, <1>4, <2>1, <2>2, <2>3, CountsOf DEF DecisionIdle, SourceIdle
    <2>9. RetriesOf(t)'
        BY <1>2, <2>7, <2>8, DecisionIdles, SourceIdles DEF RetriesOf, OwnSource, OwnItems
    <2>10. QED
        BY <2>4, <2>9, RetriesStep
<1>8. QED
    BY <1>6, <1>7

LEMMA RetriesVote ==
    ASSUME TypeOK, TypeOK', RetriesInv, NEW t \in Transfer,
           ExecutePartPrepareCommit(t) \/ ExecutePartPrepareAbort(t)
    PROVE  RetriesInv'
<1>1. PICK o \in Outcome, op \in {"PART_PREPARE_COMMIT", "PART_PREPARE_ABORT"} :
          /\ o = "commit" <=> op = "PART_PREPARE_COMMIT"
          /\ ExecutesNext(Part(t), Op(op, t)) /\ datastore' = Appended(Part(t), Op(op, t))
          /\ net' = Sent(ReplyMsg(t, o, "part"))
    BY DEF ExecutePartPrepareCommit, ExecutePartPrepareAbort, Outcome
<1>2. TodoLess(op, t) /\ AgreedLess(op, t) /\ DoneMore(op, t)
    BY <1>1, VoteMoves DEF PartOp
<1>3. /\ RetriesOf(t) /\ t.x \in Item /\ t.y \in Item /\ t.x # t.y
      /\ Coord(t) \in Cluster /\ Part(t) \in Cluster /\ Coord(t) # Part(t)
    BY TransferFields, TransferAssumption, OperationNames DEF RetriesInv
<1>4. UNCHANGED <<lock, commitStarted, watch, preparing>>
    BY DEF ExecutePartPrepareCommit, ExecutePartPrepareAbort, coordVars
<1>5. /\ \A i \in Item : i # t.y => bal'[i] = bal[i]
      /\ \A c \in Cluster, u \in Transfer : c # Part(t) \/ u # t => wal'[c][u] = wal[c][u]
    <2>1. \/ UNCHANGED <<bal, wal>>
          \/ /\ bal' = [bal EXCEPT ![t.y] = @ + t.amt]
             /\ wal' = [wal EXCEPT ![Part(t)][t] = bal[t.y]]
        BY DEF ExecutePartPrepareCommit, ExecutePartPrepareAbort
    <2>2. \A i \in Item : i # t.y => bal'[i] = bal[i]
        BY <2>1 DEF TypeOK
    <2>3. wal \in [Cluster -> [Transfer -> Nat \cup {NoPreimage}]]
        BY DEF TypeOK
    <2>4. \A c \in Cluster, u \in Transfer : c # Part(t) \/ u # t => wal'[c][u] = wal[c][u]
        <3>1. CASE wal' = [wal EXCEPT ![Part(t)][t] = bal[t.y]]
            BY <1>3, <2>3, <3>1
        <3>2. CASE wal' = wal
            BY <3>2
        <3>3. QED
            BY <2>1, <3>1, <3>2
    <2>5. QED
        BY <2>2, <2>4
<1>6. /\ net'[ReplyMsg(t, o, "part")] = net[ReplyMsg(t, o, "part")] + 1
      /\ \A m \in Message : m # ReplyMsg(t, o, "part") => net'[m] = net[m]
    BY <1>1, MessageTypes, SentCounts
<1>7. \A u \in Transfer : u # t => Idle(u)
    <2>1. \A p : \A u \in Transfer : u # t => /\ Todo(p, u)' <= Todo(p, u)
                                              /\ Agreed(p, u)' = Agreed(p, u)
                                              /\ Done(p, u)' = Done(p, u)
        BY <1>2, CountTypes DEF TodoLess, AgreedLess, DoneMore
    <2>2. Touches(t)
        BY <1>4, <1>5 DEF Touches
    <2>3. \A m \in Message : m.txn # t => net'[m] = net[m]
        BY <1>6, MessagesDiffer
    <2>4. QED
        BY <1>4, <1>5, <2>1, <2>2, <2>3, OthersIdle
<1>8. /\ \A p : p # op => /\ Todo(p, t)' = Todo(p, t) /\ Agreed(p, t)' = Agreed(p, t)
                          /\ Done(p, t)' = Done(p, t)
      /\ Todo(op, t) = Todo(op, t)' + 1 /\ Agreed(op, t) = Agreed(op, t)' + 1
      /\ Done(op, t)' = Done(op, t) + 1
      /\ \A p : /\ Todo(p, t) \in Nat /\ Done(p, t) \in Nat /\ Agreed(p, t) \in Nat
                /\ Todo(p, t)' \in Nat /\ Agreed(p, t)' \in Nat
    BY <1>2, CountTypes, CountTypesNext DEF TodoLess, AgreedLess, DoneMore
<1>9. Asked(t)
    <2>1. Todo(op, t) > 0
        BY <1>8
    <2>2. Voting(t) > 0
        BY <1>1, <2>1, CountsOf DEF Voting
    <2>3. QED
        BY <2>2, CountsOf DEF Asked
<1>10. OwnSource(t) => DebitOf(t)'
    <2>1. op \notin CoordOp /\ "COORD_PREPARE" \in CoordOp
        BY DEF CoordOp
    <2>2. wal'[Coord(t)][t] = wal[Coord(t)][t]
        BY <1>3, <1>5
    <2>3. DebitIdle(t)
        BY <1>4, <1>8, <1>9, <2>1, <2>2 DEF DebitIdle
    <2>4. QED
        BY <1>3, <2>3, DebitIdles DEF RetriesOf
<1>11. OwnItems(t) => DecisionOf(t)'
    <2> SUFFICES ASSUME DecisionOf(t) PROVE DecisionOf(t)'
        BY <1>3 DEF RetriesOf
    <2>1. net[ReplyMsg(t, "commit", "part")] \in Nat
        BY CountsOf
    <2>2. /\ \A p \in CoordOp : /\ Todo(p, t)' = Todo(p, t) /\ Agreed(p, t)' = Agreed(p, t)
                                /\ Done(p, t)' = Done(p, t)
          /\ "COORD_COMMIT" \in CoordOp /\ "COORD_ABORT" \in CoordOp
        BY <1>8 DEF CoordOp
    <2>3. CASE op = "PART_PREPARE_COMMIT"
        <3>1. net'[ReplyMsg(t, "commit", "part")] = net[ReplyMsg(t, "commit", "part")] + 1
            BY <1>1, <1>6, <2>3
        <3>2. /\ Agreed("PART_PREPARE_COMMIT", t) = Agreed("PART_PREPARE_COMMIT", t)' + 1
              /\ Done("PART_PREPARE_COMMIT", t)' = Done("PART_PREPARE_COMMIT", t) + 1
            BY <1>8, <2>3
        <3>3. QED
            BY <1>4, <1>8, <2>1, <2>2, <3>1, <3>2 DEF DecisionOf
    <2>4. CASE op = "PART_PREPARE_ABORT"
        <3>1. net'[ReplyMsg(t, "commit", "part")] = net[ReplyMsg(t, "commit", "part")]
            BY <1>1, <1>6, <2>4, MessagesOf, MessagesDiffer DEF Outcome
        <3>2. DecisionIdle(t)
            BY <1>4, <1>8, <2>1, <2>2, <2>4, <3>1 DEF DecisionIdle
        <3>3. QED
            BY <3>2, DecisionIdles
    <2>5. QED
        BY <2>3, <2>4
<1>12. OwnItems(t) => SourceOf(t)'
    <2>1. SourceIdle(t)
        BY <1>3, <1>5, <1>8 DEF SourceIdle
    <2>2. QED
        BY <1>3, <2>1, SourceIdles DEF RetriesOf
<1>13. RetriesOf(t)'
    BY <1>10, <1>11, <1>12 DEF RetriesOf, OwnSource, OwnItems
<1>14. QED
    BY <1>7, <1>13, RetriesStep

LEMMA RetriesDecision ==
    ASSUME TypeOK, TypeOK', RetriesInv, NEW t \in Transfer, NEW o \in Outcome,
           ExecuteDecision(t, o)
    PROVE  RetriesInv'
<1> DEFINE op == CoordOpFor(o)
<1>1. /\ TodoLess(op, t) /\ AgreedLess(op, t) /\ DoneMore(op, t)
      /\ wal'[Coord(t)][t] = NoPreimage
      /\ \A d \in Cluster, u \in Transfer : d # Coord(t) \/ u # t => wal'[d][u] = wal[d][u]
    BY DecisionMoves
<1>2. /\ net' = Sent(DecisionMsg(t, o)) /\ lock' = Released({t.x})
      /\ bal' = IF op = "COORD_ABORT" THEN Undone(Coord(t), t, t.x) ELSE bal
      /\ UNCHANGED <<commitStarted, watch, preparing>>
    BY OperationNames DEF ExecuteDecision, Settles, coordVars, CoordOpFor
<1>3. op = IF o = "commit" THEN "COORD_COMMIT" ELSE "COORD_ABORT"
    BY DEF CoordOpFor
<1> HIDE DEF op
<1>4. op = "COORD_COMMIT" \/ op = "COORD_ABORT"
    BY <1>3
<1>5. /\ RetriesOf(t) /\ t.x \in Item /\ t.y \in Item /\ t.x # t.y /\ t # NoTransfer
      /\ Coord(t) \in Cluster /\ InitialBalance \in Nat
    BY TransferFields, TransferAssumption, BoundAssumption DEF RetriesInv
<1>6. /\ lock'[t.x] = NoTransfer
      /\ \A i \in Item : i # t.x => lock'[i] = lock[i] /\ bal'[i] = bal[i]
    BY <1>2, <1>5 DEF Released, Undone, TypeOK
<1>7. \A m \in Message : m # DecisionMsg(t, o) => net'[m] = net[m]
    BY <1>2, MessagesOf, SentCounts DEF Outcome
<1>8. \A u \in Transfer : u # t => Idle(u)
    <2>1. \A p : \A u \in Transfer : u # t => /\ Todo(p, u)' <= Todo(p, u)
                                              /\ Agreed(p, u)' = Agreed(p, u)
                                              /\ Done(p, u)' = Done(p, u)
        BY <1>1, CountTypes DEF TodoLess, AgreedLess, DoneMore
    <2>2. Touches(t)
        BY <1>6 DEF Touches
    <2>3. \A m \in Message : m.txn # t => net'[m] = net[m]
        BY <1>7, MessagesDiffer
    <2>4. QED
        BY <1>1, <1>2, <2>1, <2>2, <2>3, OthersIdle
<1>9. /\ \A p : p # op => /\ Todo(p, t)' = Todo(p, t) /\ Agreed(p, t)' = Agreed(p, t)
                          /\ Done(p, t)' = Done(p, t)
      /\ Todo(op, t) = Todo(op, t)' + 1 /\ Agreed(op, t) = Agreed(op, t)' + 1
      /\ Done(op, t)' = Done(op, t) + 1
      /\ \A p : /\ Todo(p, t) \in Nat /\ Done(p, t) \in Nat /\ Agreed(p, t) \in Nat
                /\ Todo(p, t)' \in Nat /\ Agreed(p, t)' \in Nat /\ Done(p, t)' \in Nat
                /\ Agreed(p, t) <= Todo(p, t)
    BY <1>1, CountTypes, CountTypesNext DEF TodoLess, AgreedLess, DoneMore
<1>10. /\ net'[PrepareMsg(t)] = net[PrepareMsg(t)]
       /\ \A p \in {"commit", "abort"} :
              net'[ReplyMsg(t, p, "part")] = net[ReplyMsg(t, p, "part")]
    BY <1>7, MessagesOf, MessagesDiffer
<1>11. Asked(t)' <=> Asked(t)
    <2>1. /\ Todo("PART_PREPARE_COMMIT", t)' = Todo("PART_PREPARE_COMMIT", t)
          /\ Todo("PART_PREPARE_ABORT", t)' = Todo("PART_PREPARE_ABORT", t)
        BY <1>4, <1>9
    <2>2. QED
        BY <1>2, <1>10, <2>1 DEF Asked, Voting, Replies
<1>12. ~HasWAL(Coord(t), t)'
    BY <1>1 DEF HasWAL
<1>13. ASSUME DebitOf(t)
       PROVE  /\ t \in commitStarted /\ Done("COORD_PREPARE", t) = 1
              /\ Todo("COORD_PREPARE", t) = 0 /\ Agreed("COORD_PREPARE", t) = 0
    <2>1. Todo(op, t) > 0
        BY <1>9
    <2>2. t \in commitStarted
        <3>1. CASE op = "COORD_COMMIT"
            BY <1>13, <2>1, <3>1, CountsOf DEF DebitOf
        <3>2. CASE op = "COORD_ABORT"
            BY <1>13, <2>1, <3>2, CountsOf DEF DebitOf
        <3>3. QED
            BY <1>4, <3>1, <3>2
    <2>3. Done("COORD_PREPARE", t) > 0
        BY <1>13, <2>2 DEF DebitOf
    <2>4. Todo("COORD_PREPARE", t) + Done("COORD_PREPARE", t) <= 1
        BY <1>13 DEF DebitOf
    <2>5. Todo("COORD_PREPARE", t) = 0 /\ Done("COORD_PREPARE", t) = 1
        BY <2>3, <2>4, CountsOf
    <2>6. Agreed("COORD_PREPARE", t) = 0
        BY <1>9, <2>5
    <2>7. QED
        BY <2>2, <2>5, <2>6
<1>14. OwnSource(t) => DebitOf(t)'
    <2> SUFFICES ASSUME DebitOf(t) PROVE DebitOf(t)'
        BY <1>5 DEF RetriesOf
    <2>1. /\ Todo("COORD_PREPARE", t)' = 0 /\ Agreed("COORD_PREPARE", t)' = 0
          /\ Done("COORD_PREPARE", t)' = 1
        BY <1>4, <1>9, <1>13
    <2>2. ~NeedsX(t)'
        BY <1>12, <2>1 DEF NeedsX
    <2>3. Done("COORD_COMMIT", t)' > 0 \/ Done("COORD_ABORT", t)' > 0
        BY <1>4, <1>9
    <2>4. QED
        BY <1>2, <1>5, <1>6, <1>12, <1>13, <2>1, <2>2, <2>3 DEF DebitOf
<1>15. ASSUME DebitOf(t), DecisionOf(t), op = "COORD_COMMIT"
       PROVE  /\ Todo("COORD_COMMIT", t) = 1 /\ Done("COORD_COMMIT", t) = 0
              /\ Todo("COORD_ABORT", t) = 0 /\ Done("COORD_ABORT", t) = 0
              /\ Agreed("COORD_ABORT", t) = 0 /\ HasWAL(Coord(t), t)
    <2>1. Todo("COORD_COMMIT", t) > 0 /\ Todo("COORD_COMMIT", t) + Done("COORD_COMMIT", t) <= 1
        BY <1>9, <1>15 DEF DecisionOf
    <2>2. Todo("COORD_COMMIT", t) = 1 /\ Done("COORD_COMMIT", t) = 0
        BY <2>1, CountsOf
    <2>3. Todo("COORD_ABORT", t) = 0 /\ Done("COORD_ABORT", t) = 0
        BY <1>15, <2>1 DEF DecisionOf
    <2>4. Agreed("COORD_ABORT", t) = 0
        BY <1>9, <2>3
    <2>5. HasWAL(Coord(t), t)
        BY <1>13, <1>15, <2>2, <2>3 DEF DebitOf
    <2>6. QED
        BY <2>2, <2>3, <2>4, <2>5
<1>16. ASSUME DecisionOf(t), op = "COORD_ABORT"
       PROVE  Todo("COORD_COMMIT", t) = 0 /\ Done("COORD_COMMIT", t) = 0
    <2>1. Agreed("COORD_ABORT", t) > 0 /\ Todo("COORD_ABORT", t) > 0
        BY <1>9, <1>16
    <2>2. Done("COORD_COMMIT", t) = 0 /\ Todo("COORD_COMMIT", t) = 0
        BY <1>16, <2>1, CountsOf DEF DecisionOf
    <2>3. QED
        BY <2>2
<1>17. OwnItems(t) => DecisionOf(t)'
    <2> SUFFICES ASSUME DebitOf(t), DecisionOf(t) PROVE DecisionOf(t)'
        BY <1>5 DEF RetriesOf, OwnItems
    <2>1. /\ Agreed("PART_PREPARE_COMMIT", t)' = Agreed("PART_PREPARE_COMMIT", t)
          /\ Done("PART_PREPARE_COMMIT", t)' = Done("PART_PREPARE_COMMIT", t)
          /\ Done("COORD_COMMIT", t)' + Done("COORD_ABORT", t)' > 0
        BY <1>4, <1>9
    <2>2. CASE op = "COORD_COMMIT"
        <3>1. /\ Todo("COORD_COMMIT", t)' = 0 /\ Done("COORD_COMMIT", t)' = 1
              /\ Agreed("COORD_ABORT", t)' = 0 /\ Done("COORD_ABORT", t)' = 0
            BY <1>9, <1>15, <2>2
        <3>2. watch'[t] # "aborting"
            BY <1>2, <1>15, <2>2 DEF DecisionOf
        <3>3. QED
            BY <1>10, <1>15, <2>1, <2>2, <3>1, <3>2, CountsOf DEF DecisionOf
    <2>3. CASE op = "COORD_ABORT"
        <3>1. Todo("COORD_COMMIT", t)' = 0 /\ Done("COORD_COMMIT", t)' = 0
            BY <1>9, <1>16, <2>3
        <3>2. QED
            BY <1>10, <1>16, <2>1, <2>3, <3>1, CountsOf DEF DecisionOf
    <2>4. QED
        BY <1>4, <2>2, <2>3
<1>18. OwnItems(t) => SourceOf(t)'
    <2> SUFFICES ASSUME DebitOf(t), DecisionOf(t), SourceOf(t) PROVE SourceOf(t)'
        BY <1>5 DEF RetriesOf, OwnItems
    <2>1. CASE op = "COORD_COMMIT"
        <3>1. bal' = bal /\ Done("COORD_COMMIT", t)' > 0
            BY <1>2, <1>9, <1>15, <2>1
        <3>2. bal[t.x] = InitialBalance - t.amt
            BY <1>15, <2>1 DEF SourceOf
        <3>3. QED
            BY <1>12, <3>1, <3>2 DEF SourceOf
    <2>2. CASE op = "COORD_ABORT"
        <3>1. Done("COORD_COMMIT", t)' = 0 /\ Done("COORD_COMMIT", t) = 0
            BY <1>9, <1>16, <2>2
        <3>2. bal'[t.x] = InitialBalance
            <4>1. CASE HasWAL(Coord(t), t)
                BY <1>2, <1>5, <2>2, <4>1 DEF Undone, SourceOf, TypeOK
            <4>2. CASE ~HasWAL(Coord(t), t)
                BY <1>2, <1>5, <2>2, <3>1, <4>2 DEF Undone, SourceOf
            <4>3. QED
                BY <4>1, <4>2
        <3>3. QED
            BY <1>5, <1>12, <3>1, <3>2 DEF SourceOf
    <2>3. QED
        BY <1>4, <2>1, <2>2
<1>19. RetriesOf(t)'
    BY <1>14, <1>17, <1>18 DEF RetriesOf, OwnSource, OwnItems
<1>20. QED
    BY <1>8, <1>19, RetriesStep

\* What ends at the participant has been decided.
LEMMA OutcomeIsDecided ==
    ASSUME TypeOK, BackedInv, NEW t \in Transfer, NEW o \in Outcome, ExecuteOutcome(t, o)
    PROVE  Done("COORD_COMMIT", t) + Done("COORD_ABORT", t) > 0
<1> DEFINE e == Op(PartOpFor(o), t)
<1>1. Part(t) \in Cluster /\ ExecutesNext(Part(t), e) /\ e \in Operation
    BY TransferFields, OperationTypes DEF ExecuteOutcome, Settles
<1>2. e \in Underway(Part(t))
    <2>1. inflight[Part(t)] \in Seq(Operation)
        BY <1>1 DEF TypeOK
    <2>2. e \in OpsOf(inflight[Part(t)])
        BY <1>1, <2>1 DEF ExecutesNext, OpsOf
    <2>3. QED
        BY <1>1, <2>2, UnderwayMembers
<1>3. Backed(e)
    BY <1>1, <1>2 DEF BackedInv
<1>4. Recorded(Coord(t), Op(CoordOpFor(o), t))
    BY <1>3 DEF Backed, Op, PartOpFor, CoordOpFor, Outcome
<1>5. Done(CoordOpFor(o), t) > 0
    <2>1. HomeOf(Op(CoordOpFor(o), t)) = Coord(t)
        BY OperationNames
    <2>2. QED
        BY <1>4, <2>1, RecordedIsDone
<1>6. QED
    BY <1>5, CountsOf DEF CoordOpFor

LEMMA RetriesOutcome ==
    ASSUME TypeOK, TypeOK', BackedInv, RetriesInv, NEW t \in Transfer, NEW o \in Outcome,
           ExecuteOutcome(t, o)
    PROVE  RetriesInv'
<1> DEFINE op == PartOpFor(o)
<1>1. /\ TodoLess(op, t) /\ AgreedLess(op, t) /\ DoneMore(op, t)
      /\ \A d \in Cluster, u \in Transfer : d # Part(t) \/ u # t => wal'[d][u] = wal[d][u]
    BY OutcomeMoves
<1>2. /\ net' = Sent(AckMsg(t)) /\ lock' = Released({t.y})
      /\ bal' = bal \/ bal' = Undone(Part(t), t, t.y)
      /\ UNCHANGED <<commitStarted, watch, preparing>>
    BY OperationNames DEF ExecuteOutcome, Settles, coordVars
<1>3. op = "PART_COMMIT" \/ op = "PART_ABORT"
    BY DEF PartOpFor
<1> HIDE DEF op
<1>4. /\ RetriesOf(t) /\ t.x \in Item /\ t.y \in Item /\ t.x # t.y
      /\ Coord(t) \in Cluster /\ Coord(t) # Part(t)
    BY TransferFields, TransferAssumption, OperationNames DEF RetriesInv
<1>5. \A i \in Item : i # t.y => lock'[i] = lock[i] /\ bal'[i] = bal[i]
    BY <1>2, <1>4 DEF Released, Undone, TypeOK
<1>6. \A m \in Message : m # AckMsg(t) => net'[m] = net[m]
    BY <1>2, MessagesOf, SentCounts
<1>7. \A u \in Transfer : u # t => Idle(u)
    <2>1. \A p : \A u \in Transfer : u # t => /\ Todo(p, u)' <= Todo(p, u)
                                              /\ Agreed(p, u)' = Agreed(p, u)
                                              /\ Done(p, u)' = Done(p, u)
        BY <1>1, CountTypes DEF TodoLess, AgreedLess, DoneMore
    <2>2. Touches(t)
        BY <1>5 DEF Touches
    <2>3. \A m \in Message : m.txn # t => net'[m] = net[m]
        BY <1>6, MessagesDiffer
    <2>4. QED
        BY <1>1, <1>2, <2>1, <2>2, <2>3, OthersIdle
<1>8. \A p : p # op => /\ Todo(p, t)' = Todo(p, t) /\ Agreed(p, t)' = Agreed(p, t)
                       /\ Done(p, t)' = Done(p, t)
    BY <1>1 DEF TodoLess, AgreedLess, DoneMore
<1>9. op \notin Course
    BY <1>3 DEF Course, CoordOp, PrepareOp
<1>10. \A p \in Course : /\ Todo(p, t)' = Todo(p, t) /\ Agreed(p, t)' = Agreed(p, t)
                         /\ Done(p, t)' = Done(p, t) /\ Todo(p, t) \in Nat
                         /\ Agreed(p, t) \in Nat
    BY <1>8, <1>9, CountTypes
<1>11. {"COORD_PREPARE", "COORD_COMMIT", "COORD_ABORT", "PART_PREPARE_COMMIT",
        "PART_PREPARE_ABORT"} \subseteq Course /\ CoordOp \subseteq Course
    BY DEF Course, CoordOp, PrepareOp
<1>12. /\ net'[PrepareMsg(t)] = net[PrepareMsg(t)]
       /\ \A p \in {"commit", "abort"} :
              net'[ReplyMsg(t, p, "part")] = net[ReplyMsg(t, p, "part")]
    BY <1>6, MessagesOf, MessagesDiffer
<1>13. Asked(t)' <=> Asked(t)
    <2>1. Voting(t)' = Voting(t)
        BY <1>2, <1>10, <1>11 DEF Voting
    <2>2. Replies(t)' = Replies(t)
        BY <1>12 DEF Replies
    <2>3. QED
        BY <1>2, <1>10, <1>11, <1>12, <2>1, <2>2 DEF Asked
<1>14. wal'[Coord(t)][t] = wal[Coord(t)][t]
    BY <1>1, <1>4
<1>15. DebitIdle(t)
    <2>1. \A p \in CoordOp : Todo(p, t)' <= Todo(p, t) /\ Done(p, t)' = Done(p, t)
        BY <1>10, <1>11
    <2>2. Agreed("COORD_PREPARE", t)' = Agreed("COORD_PREPARE", t)
        BY <1>10, <1>11
    <2>3. lock'[t.x] = lock[t.x]
        BY <1>4, <1>5
    <2>4. QED
        BY <1>2, <1>13, <1>14, <2>1, <2>2, <2>3 DEF DebitIdle
<1>16. SourceIdle(t)
    BY <1>4, <1>5, <1>10, <1>11, <1>14 DEF SourceIdle
<1>17. OwnItems(t) => DecisionOf(t)'
    <2> SUFFICES ASSUME DecisionOf(t) PROVE DecisionOf(t)'
        BY <1>4 DEF RetriesOf
    <2>1. Done("COORD_COMMIT", t) + Done("COORD_ABORT", t) > 0
        BY OutcomeIsDecided
    <2>2. /\ \A p \in {"COORD_COMMIT", "COORD_ABORT", "PART_PREPARE_COMMIT"} :
                /\ Todo(p, t)' = Todo(p, t) /\ Agreed(p, t)' = Agreed(p, t)
                /\ Done(p, t)' = Done(p, t)
          /\ net'[ReplyMsg(t, "commit", "part")] = net[ReplyMsg(t, "commit", "part")]
        BY <1>10, <1>11, <1>12
    <2>3. QED
        BY <1>2, <2>1, <2>2 DEF DecisionOf
<1>18. RetriesOf(t)'
    BY <1>4, <1>15, <1>16, <1>17, DebitIdles, SourceIdles DEF RetriesOf, OwnSource, OwnItems
<1>19. QED
    BY <1>7, <1>18, RetriesStep

LEMMA RetriesExecute ==
    ASSUME TypeOK, TypeOK', BackedInv, RetriesInv, NEW t \in Transfer, Execute(t)
    PROVE  RetriesInv'
BY RetriesCoordPrepare, RetriesVote, RetriesDecision, RetriesOutcome DEF Execute


-----------------------------------------------------------------------------
(***************************************************************************)
(* Messages and retries.                                                   *)
(***************************************************************************)
\* Neither store changes, and nothing is agreed on.
LEMMA OthersWait ==
    ASSUME TypeOK, TypeOK', NEW t \in Transfer, AgreedSame,
           UNCHANGED <<bal, lock, wal, datastore>>,
           \A op : \A u \in Transfer : u # t => Todo(op, u)' <= Todo(op, u),
           \A m \in Message : m.txn # t => net'[m] = net[m],
           \A u \in Transfer : u # t => /\ preparing'[u] = preparing[u]
                                        /\ watch'[u] = watch[u]
                                        /\ u \in commitStarted' <=> u \in commitStarted
    PROVE  /\ \A u \in Transfer : u # t => Idle(u)
           /\ \A op : Done(op, t)' = Done(op, t) /\ Agreed(op, t)' = Agreed(op, t)
           /\ SourceIdle(t)
<1>1. \A op : \A u \in Transfer : Done(op, u)' = Done(op, u) /\ Agreed(op, u)' = Agreed(op, u)
    BY RecordsUnchanged DEF DoneSame, AgreedSame
<1>2. \A u \in Transfer : u # t => Idle(u)
    BY <1>1, OthersIdle DEF Touches
<1>3. SourceIdle(t)
    BY <1>1 DEF SourceIdle
<1>4. QED
    BY <1>1, <1>2, <1>3

LEMMA RetriesOnPrepare ==
    ASSUME TypeOK, TypeOK', RetriesInv, NEW t \in Transfer, OnPrepare(t)
    PROVE  RetriesInv'
<1>1. /\ UNCHANGED <<clientQueue, internalQueue, starting, inflight>>
      /\ UNCHANGED <<bal, lock, wal, datastore, commitStarted, watch>>
      /\ net[PrepareMsg(t)] > 0
    BY DEF OnPrepare, storeVars, engineVars, coordVars
<1>2. TodoSame /\ AgreedSame
    BY <1>1, QueuesUnchanged
<1>3. /\ \A m \in Message : m # PrepareMsg(t) /\ (\A o : m # ReplyMsg(t, o, "coord")) =>
             net'[m] = net[m]
      /\ \A u \in Transfer : u # t => preparing'[u] = preparing[u]
    <2>1. PICK o : \/ /\ net' = Received(PrepareMsg(t))
                      /\ preparing' = [preparing EXCEPT ![t] = @ + 1]
                   \/ /\ net' = [Received(PrepareMsg(t)) EXCEPT ![ReplyMsg(t, o, "coord")] = @ + 1]
                      /\ preparing' = preparing
        BY DEF OnPrepare
    <2>2. \A u \in Transfer : u # t => preparing'[u] = preparing[u]
        BY <2>1 DEF TypeOK
    <2>3. QED
        BY <2>1, <2>2 DEF Received, TypeOK
<1>4. \A op : \A u \in Transfer : Todo(op, u)' <= Todo(op, u)
    BY <1>2, CountTypes DEF TodoSame
<1>5. \A m \in Message : m.txn # t => net'[m] = net[m]
    BY <1>3, MessagesDiffer
<1>6. /\ \A u \in Transfer : u # t => Idle(u)
      /\ \A op : Done(op, t)' = Done(op, t) /\ Agreed(op, t)' = Agreed(op, t)
      /\ SourceIdle(t)
    BY <1>1, <1>2, <1>3, <1>4, <1>5, OthersWait
<1>7. net'[ReplyMsg(t, "commit", "part")] = net[ReplyMsg(t, "commit", "part")]
    BY <1>3, MessagesOf, MessagesDiffer
<1>8. Asked(t)
    BY <1>1, CountsOf DEF Asked
<1>9. DebitIdle(t)
    BY <1>1, <1>4, <1>6, <1>8 DEF DebitIdle
<1>10. DecisionIdle(t)
    BY <1>1, <1>4, <1>6, <1>7, CountsOf, CountTypes DEF DecisionIdle
<1>11. Idle(t)
    BY <1>6, <1>9, <1>10 DEF Idle
<1>12. QED
    BY <1>6, <1>11, AllIdleKeeps

\* A yes that comes late, or twice, finds no commit to be executed.
LEMMA NoCommitWaits ==
    ASSUME TypeOK, NEW t \in Transfer, DecisionOf(t), net[ReplyMsg(t, "commit", "part")] > 0
    PROVE  Todo("COORD_COMMIT", t) = 0
<1> SUFFICES ASSUME Todo("COORD_COMMIT", t) > 0 PROVE FALSE
    BY CountsOf
<1>1. Done("COORD_COMMIT", t) = 0 /\ Done("COORD_ABORT", t) = 0
    BY CountsOf DEF DecisionOf
<1>2. Agreed("PART_PREPARE_COMMIT", t) + Done("PART_PREPARE_COMMIT", t) <= 1
    BY <1>1 DEF DecisionOf
<1>3. net[ReplyMsg(t, "commit", "part")] + Todo("COORD_COMMIT", t) + Done("COORD_COMMIT", t)
          <= Done("PART_PREPARE_COMMIT", t)
    BY DEF DecisionOf
<1>4. Agreed("PART_PREPARE_COMMIT", t) \in Nat
    BY CountTypes
<1>5. QED
    BY <1>1, <1>2, <1>3, <1>4, CountsOf

LEMMA RetriesOnReply ==
    ASSUME TypeOK, TypeOK', RetriesInv, NEW t \in Transfer, NEW o \in Outcome, OnReply(t, o)
    PROVE  RetriesInv'
<1>1. /\ net' = Received(ReplyMsg(t, o, "part")) /\ net[ReplyMsg(t, o, "part")] > 0
      /\ commitStarted' = commitStarted \cup {t}
      /\ Enqueues(Coord(t), DecisionsFor(t, o))
      /\ UNCHANGED <<bal, lock, wal, datastore, watch, preparing>>
    BY DEF OnReply, storeVars, Enqueues
<1>2. /\ net'[ReplyMsg(t, o, "part")] = net[ReplyMsg(t, o, "part")] - 1
      /\ \A n \in Message : n # ReplyMsg(t, o, "part") => net'[n] = net[n]
    BY <1>1, MessageTypes, ReceivedCounts
<1>3. /\ RetriesOf(t) /\ Coord(t) \in Cluster /\ (o = "commit" \/ o = "abort")
      /\ \A p \in {"COORD_COMMIT", "COORD_ABORT"} :
             Op(p, t) \in Operation /\ HomeOf(Op(p, t)) = Coord(t)
    BY TransferFields, OperationTypes, OperationNames DEF RetriesInv, Outcome, CoordOp
\* What is enqueued, if anything.
<1>4. /\ AgreedSame
      /\ \/ TodoSame /\ t \in commitStarted
         \/ TodoMore("COORD_COMMIT", t) /\ t \notin commitStarted /\ o = "commit"
         \/ TodoMore("COORD_ABORT", t) /\ (t \in commitStarted => o = "commit")
    <2>1. CASE t \notin commitStarted /\ o = "commit"
        <3>1. DecisionsFor(t, o) = <<Op("COORD_COMMIT", t)>>
            BY <2>1 DEF DecisionsFor, CoordOpFor
        <3>2. QED
            BY <1>1, <1>3, <2>1, <3>1, Handed
    <2>2. CASE t \notin commitStarted /\ o = "abort"
        <3>1. DecisionsFor(t, o) = <<Op("COORD_ABORT", t)>>
            BY <2>2 DEF DecisionsFor, CoordOpFor
        <3>2. QED
            BY <1>1, <1>3, <2>2, <3>1, Handed
    <2>3. CASE t \in commitStarted /\ o = "commit"
        <3>1. DecisionsFor(t, o) = <<Op("COORD_ABORT", t)>>
            BY <2>3 DEF DecisionsFor
        <3>2. QED
            BY <1>1, <1>3, <2>3, <3>1, Handed
    <2>4. CASE t \in commitStarted /\ o = "abort"
        <3>1. DecisionsFor(t, o) = <<>>
            BY <2>4 DEF DecisionsFor
        <3>2. QED
            BY <1>1, <1>3, <2>4, <3>1, HandedNothing
    <2>5. QED
        BY <1>3, <2>1, <2>2, <2>3, <2>4
<1>5. \A op : \A u \in Transfer : u # t => Todo(op, u)' <= Todo(op, u)
    BY <1>4, CountTypes DEF TodoSame, TodoMore
<1>6. \A m \in Message : m.txn # t => net'[m] = net[m]
    BY <1>2, MessagesDiffer
<1>7. /\ \A u \in Transfer : u # t => Idle(u)
      /\ \A op : Done(op, t)' = Done(op, t) /\ Agreed(op, t)' = Agreed(op, t)
      /\ SourceIdle(t)
    BY <1>1, <1>4, <1>5, <1>6, OthersWait
<1>8. /\ \A op : op # "COORD_COMMIT" /\ op # "COORD_ABORT" => Todo(op, t)' = Todo(op, t)
      /\ \/ /\ t \in commitStarted
            /\ Todo("COORD_COMMIT", t)' = Todo("COORD_COMMIT", t)
            /\ Todo("COORD_ABORT", t)' = Todo("COORD_ABORT", t)
         \/ /\ t \notin commitStarted /\ o = "commit"
            /\ Todo("COORD_COMMIT", t)' = Todo("COORD_COMMIT", t) + 1
            /\ Todo("COORD_ABORT", t)' = Todo("COORD_ABORT", t)
         \/ /\ t \in commitStarted => o = "commit"
            /\ Todo("COORD_COMMIT", t)' = Todo("COORD_COMMIT", t)
            /\ Todo("COORD_ABORT", t)' = Todo("COORD_ABORT", t) + 1
    BY <1>4 DEF TodoSame, TodoMore
<1>9. Asked(t)
    <2>1. Replies(t) > 0
        BY <1>1, <1>3, CountsOf DEF Replies
    <2>2. QED
        BY <2>1, CountsOf DEF Asked
<1>10. /\ HasWAL(Coord(t), t)' <=> HasWAL(Coord(t), t)
       /\ NeedsX(t)' <=> NeedsX(t)
       /\ t \in commitStarted'
    BY <1>1, <1>7 DEF HasWAL, NeedsX
<1>11. OwnSource(t) => DebitOf(t)'
    <2> SUFFICES ASSUME DebitOf(t) PROVE DebitOf(t)'
        BY <1>3 DEF RetriesOf
    <2>1. Done("COORD_PREPARE", t) > 0
        BY <1>9 DEF DebitOf
    <2>2. Todo("COORD_PREPARE", t)' = Todo("COORD_PREPARE", t)
        BY <1>8
    <2>3. QED
        BY <1>1, <1>7, <1>10, <2>1, <2>2 DEF DebitOf
<1>12. OwnItems(t) => DecisionOf(t)'
    <2> SUFFICES ASSUME DebitOf(t), DecisionOf(t) PROVE DecisionOf(t)'
        BY <1>3 DEF RetriesOf, OwnItems
    <2>1. /\ net[ReplyMsg(t, "commit", "part")] \in Nat
          /\ net'[ReplyMsg(t, "commit", "part")] =
                 IF o = "commit" THEN net[ReplyMsg(t, "commit", "part")] - 1
                                 ELSE net[ReplyMsg(t, "commit", "part")]
        BY <1>2, <1>3, MessagesOf, MessagesDiffer, CountsOf
    <2>2. \A op : /\ Todo(op, t) \in Nat /\ Todo(op, t)' \in Nat /\ Done(op, t) \in Nat
                  /\ Agreed(op, t) \in Nat
        BY CountTypes, CountTypesNext
    <2>3. CASE t \notin commitStarted
        <3>1. /\ Todo("COORD_COMMIT", t) = 0 /\ Todo("COORD_ABORT", t) = 0
              /\ Done("COORD_COMMIT", t) = 0 /\ Done("COORD_ABORT", t) = 0
              /\ watch[t] # "aborting"
            BY <2>2, <2>3 DEF DebitOf
        <3>2. QED
            BY <1>1, <1>7, <1>8, <2>1, <2>2, <2>3, <3>1 DEF DecisionOf
    <2>4. CASE t \in commitStarted /\ o = "commit"
        <3>1. Todo("COORD_COMMIT", t) = 0 /\ Todo("COORD_COMMIT", t)' = 0
            BY <1>1, <1>8, <2>4, NoCommitWaits
        <3>2. QED
            BY <1>1, <1>7, <2>1, <2>2, <2>4, <3>1 DEF DecisionOf
    <2>5. CASE t \in commitStarted /\ o # "commit"
        <3>1. /\ Todo("COORD_COMMIT", t)' = Todo("COORD_COMMIT", t)
              /\ Todo("COORD_ABORT", t)' = Todo("COORD_ABORT", t)
            BY <1>8, <2>5
        <3>2. DecisionIdle(t)
            BY <1>1, <1>7, <2>1, <2>2, <2>5, <3>1 DEF DecisionIdle
        <3>3. QED
            BY <3>2, DecisionIdles
    <2>6. QED
        BY <2>3, <2>4, <2>5
<1>13. RetriesOf(t)'
    BY <1>3, <1>7, <1>11, <1>12, SourceIdles DEF RetriesOf, OwnSource, OwnItems
<1>14. QED
    BY <1>7, <1>13, RetriesStep

LEMMA RetriesOnDecision ==
    ASSUME TypeOK, TypeOK', RetriesInv, NEW t \in Transfer, NEW o \in Outcome, OnDecision(t, o)
    PROVE  RetriesInv'
<1>1. /\ UNCHANGED <<bal, lock, wal, datastore, commitStarted, watch, preparing>>
      /\ UNCHANGED <<clientQueue, starting, inflight>>
      /\ net' = Received(DecisionMsg(t, o))
      /\ internalQueue' = internalQueue \/ internalQueue' = Enqueued(Part(t), Op(PartOpFor(o), t))
    BY DEF OnDecision, storeVars, coordVars
<1>2. \A m \in Message : m.type = "PREPARE" \/ (m.type = "REPLY" /\ m.signer = "part") =>
          net'[m] <= net[m]
    <2>1. DecisionMsg(t, o).type = "DECISION" /\ DecisionMsg(t, o) \in Message
        BY MessageTypes DEF DecisionMsg
    <2>2. \A m \in Message : m # DecisionMsg(t, o) => net'[m] = net[m]
        BY <1>1, <2>1, ReceivedCounts
    <2>3. \A m \in Message : net[m] \in Nat
        BY DEF TypeOK
    <2>4. QED
        BY <2>1, <2>2, <2>3
<1>3. \A op \in Course : \A v \in Transfer : /\ Todo(op, v)' <= Todo(op, v)
                                             /\ Agreed(op, v)' = Agreed(op, v)
    <2>1. CASE internalQueue' = internalQueue
        BY <1>1, <2>1, QueuesUnchanged, CountTypes DEF TodoSame, AgreedSame
    <2>2. CASE internalQueue' = Enqueued(Part(t), Op(PartOpFor(o), t))
        <3>1. /\ Part(t) \in Cluster /\ Part(t) = HomeOf(Op(PartOpFor(o), t))
              /\ Op(PartOpFor(o), t) \in Operation
            BY TransferFields, OperationTypes, OperationNames
        <3>2. TodoMore(PartOpFor(o), t) /\ AgreedSame
            BY <1>1, <2>2, <3>1, EnqueuedMore
        <3>3. PartOpFor(o) \notin Course
            BY DEF PartOpFor, Course, CoordOp, PrepareOp
        <3>4. QED
            BY <3>2, <3>3, CountTypes DEF TodoMore, AgreedSame
    <2>3. QED
        BY <1>1, <2>1, <2>2
<1>4. QED
    BY <1>1, <1>2, <1>3, AllIdle, AllIdleKeeps

LEMMA RetriesReceive ==
    ASSUME TypeOK, TypeOK', RetriesInv, NEW t \in Transfer, Receive(t)
    PROVE  RetriesInv'
<1>1. ASSUME OnAck(t) \/ \E o \in Outcome : OnStaleReply(t, o) PROVE RetriesInv'
    <2>1. \A m \in Message : net'[m] <= net[m]
        <3>1. PICK n \in Message : net' = Received(n)
            BY <1>1, MessageTypes, MessagesOf DEF OnAck, OnStaleReply
        <3>2. \A m \in Message : net[m] \in Nat
            BY DEF TypeOK
        <3>3. QED
            BY <3>1, <3>2, ReceivedCounts
    <2>2. /\ UNCHANGED <<clientQueue, internalQueue, starting, inflight>>
          /\ UNCHANGED <<bal, lock, wal, datastore, commitStarted, preparing, watch>>
        BY <1>1 DEF OnAck, OnStaleReply, storeVars, engineVars, coordVars
    <2>3. QED
        BY <2>1, <2>2, IdleQueues
<1>2. QED
    BY <1>1, RetriesOnPrepare, RetriesOnReply, RetriesOnDecision DEF Receive

LEMMA RetriesDecidePrepare ==
    ASSUME TypeOK, TypeOK', RetriesInv, NEW t \in Transfer, DecidePrepare(t)
    PROVE  RetriesInv'
<1>1. PICK op \in {"PART_PREPARE_COMMIT", "PART_PREPARE_ABORT"} : TodoMore(op, t) /\ AgreedSame
    BY VotingMoves
<1>2. /\ preparing[t] > 0 /\ preparing' = [preparing EXCEPT ![t] = @ - 1]
      /\ UNCHANGED <<bal, lock, wal, datastore, commitStarted, watch, net>>
    BY DEF DecidePrepare, storeVars, coordVars
<1>3. \A op1 : \A u \in Transfer : u # t => Todo(op1, u)' <= Todo(op1, u)
    BY <1>1, CountTypes DEF TodoMore
<1>4. \A u \in Transfer : u # t => preparing'[u] = preparing[u]
    BY <1>2 DEF TypeOK
<1>5. /\ \A u \in Transfer : u # t => Idle(u)
      /\ \A p : Done(p, t)' = Done(p, t) /\ Agreed(p, t)' = Agreed(p, t)
      /\ SourceIdle(t)
    BY <1>1, <1>2, <1>3, <1>4, OthersWait
<1>6. op \notin CoordOp /\ "COORD_COMMIT" \in CoordOp /\ "COORD_ABORT" \in CoordOp
    BY DEF CoordOp
<1>7. \A p \in CoordOp : Todo(p, t)' <= Todo(p, t)
    BY <1>1, <1>6, CountTypes DEF TodoMore
<1>8. Asked(t)
    BY <1>2, CountsOf DEF Asked, Voting
<1>9. DebitIdle(t)
    BY <1>2, <1>5, <1>7, <1>8 DEF DebitIdle
<1>10. DecisionIdle(t)
    BY <1>2, <1>5, <1>6, <1>7, CountsOf, CountTypes DEF DecisionIdle
<1>11. QED
    BY <1>5, <1>9, <1>10, AllIdleKeeps DEF Idle

LEMMA RetriesResendPrepare ==
    ASSUME TypeOK, TypeOK', RetriesInv, NEW t \in Transfer, ResendPrepare(t)
    PROVE  RetriesInv'
<1>1. /\ watch[t] = "preparing" /\ net' = Sent(PrepareMsg(t))
      /\ UNCHANGED <<bal, lock, wal, datastore, commitStarted, watch, preparing>>
      /\ UNCHANGED <<clientQueue, internalQueue, starting, inflight>>
    BY DEF ResendPrepare, storeVars, engineVars, coordVars
<1>2. TodoSame /\ AgreedSame
    BY <1>1, QueuesUnchanged
<1>3. \A m \in Message : m # PrepareMsg(t) => net'[m] = net[m]
    BY <1>1, MessagesOf, SentCounts
<1>4. \A op : \A u \in Transfer : Todo(op, u)' <= Todo(op, u)
    BY <1>2, CountTypes DEF TodoSame
<1>5. \A m \in Message : m.txn # t => net'[m] = net[m]
    BY <1>3, MessagesDiffer
<1>6. /\ \A u \in Transfer : u # t => Idle(u)
      /\ \A op : Done(op, t)' = Done(op, t) /\ Agreed(op, t)' = Agreed(op, t)
      /\ SourceIdle(t)
    BY <1>1, <1>2, <1>4, <1>5, OthersWait
<1>7. net'[ReplyMsg(t, "commit", "part")] = net[ReplyMsg(t, "commit", "part")]
    BY <1>3, MessagesOf, MessagesDiffer
<1>8. DebitIdle(t)
    BY <1>1, <1>4, <1>6 DEF DebitIdle
<1>9. DecisionIdle(t)
    BY <1>1, <1>4, <1>6, <1>7, CountsOf, CountTypes DEF DecisionIdle
<1>10. QED
    BY <1>6, <1>8, <1>9, AllIdleKeeps DEF Idle

\* The deadline decides: no reply has been taken up before, and none that
\* comes later commits.
LEMMA RetriesPrepareTimesOut ==
    ASSUME TypeOK, TypeOK', RetriesInv, NEW t \in Transfer, PrepareTimesOut(t)
    PROVE  RetriesInv'
<1>1. /\ watch[t] = "preparing" /\ t \notin commitStarted
      /\ watch' = [watch EXCEPT ![t] = "aborting"] /\ commitStarted' = commitStarted \cup {t}
      /\ UNCHANGED <<bal, lock, wal, datastore, preparing, net>>
      /\ UNCHANGED <<clientQueue, internalQueue, starting, inflight>>
    BY DEF PrepareTimesOut, WatchDone, storeVars, engineVars
<1>2. TodoSame /\ AgreedSame
    BY <1>1, QueuesUnchanged
<1>3. \A u \in Transfer : /\ u # t => watch'[u] = watch[u]
                          /\ u # t => (u \in commitStarted' <=> u \in commitStarted)
                          /\ watch'[t] = "aborting" /\ t \in commitStarted'
    BY <1>1 DEF TypeOK
<1>4. \A op : \A u \in Transfer : Todo(op, u)' <= Todo(op, u)
    BY <1>2, CountTypes DEF TodoSame
<1>5. /\ \A u \in Transfer : u # t => Idle(u)
      /\ \A op : Done(op, t)' = Done(op, t) /\ Agreed(op, t)' = Agreed(op, t)
      /\ SourceIdle(t)
    BY <1>1, <1>2, <1>3, <1>4, OthersWait
<1>6. \A op : Todo(op, t)' = Todo(op, t)
    BY <1>2 DEF TodoSame
<1>7. RetriesOf(t)
    BY DEF RetriesInv
<1>8. OwnSource(t) => DebitOf(t)'
    <2> SUFFICES ASSUME DebitOf(t) PROVE DebitOf(t)'
        BY <1>7 DEF RetriesOf
    <2>1. Done("COORD_PREPARE", t) > 0
        BY <1>1 DEF DebitOf
    <2>2. /\ HasWAL(Coord(t), t)' <=> HasWAL(Coord(t), t)
          /\ NeedsX(t)' <=> NeedsX(t)
        BY <1>1, <1>5 DEF HasWAL, NeedsX
    <2>3. QED
        BY <1>1, <1>3, <1>5, <1>6, <2>1, <2>2 DEF DebitOf
<1>9. OwnItems(t) => DecisionOf(t)'
    <2> SUFFICES ASSUME DebitOf(t), DecisionOf(t) PROVE DecisionOf(t)'
        BY <1>7 DEF RetriesOf, OwnItems
    <2>1. Todo("COORD_COMMIT", t) = 0 /\ Done("COORD_COMMIT", t) = 0
        BY <1>1, CountsOf DEF DebitOf
    <2>2. QED
        BY <1>1, <1>5, <1>6, <2>1 DEF DecisionOf
<1>10. RetriesOf(t)'
    BY <1>5, <1>7, <1>8, <1>9, SourceIdles DEF RetriesOf, OwnSource, OwnItems
<1>11. QED
    BY <1>5, <1>10, RetriesStep

LEMMA RetriesRetryAbort ==
    ASSUME TypeOK, TypeOK', RetriesInv, NEW t \in Transfer, RetryAbort(t)
    PROVE  RetriesInv'
<1>1. /\ watch[t] = "aborting" /\ internalQueue' = Enqueued(Coord(t), Op("COORD_ABORT", t))
      /\ UNCHANGED <<bal, lock, wal, datastore, commitStarted, watch, preparing, net>>
      /\ UNCHANGED <<clientQueue, starting, inflight>>
    BY DEF RetryAbort, storeVars, coordVars
<1>2. TodoMore("COORD_ABORT", t) /\ AgreedSame
    <2>1. /\ Coord(t) \in Cluster /\ Coord(t) = HomeOf(Op("COORD_ABORT", t))
          /\ Op("COORD_ABORT", t) \in Operation
        BY TransferFields, OperationTypes, OperationNames DEF CoordOp
    <2>2. QED
        BY <1>1, <2>1, EnqueuedMore
<1>3. \A op : \A u \in Transfer : u # t => Todo(op, u)' <= Todo(op, u)
    BY <1>2, CountTypes DEF TodoMore
<1>4. /\ \A u \in Transfer : u # t => Idle(u)
      /\ \A op : Done(op, t)' = Done(op, t) /\ Agreed(op, t)' = Agreed(op, t)
      /\ SourceIdle(t)
    BY <1>1, <1>2, <1>3, OthersWait
<1>5. /\ \A op : op # "COORD_ABORT" => Todo(op, t)' = Todo(op, t)
      /\ RetriesOf(t)
    BY <1>2 DEF TodoMore, RetriesInv
<1>6. /\ HasWAL(Coord(t), t)' <=> HasWAL(Coord(t), t)
      /\ NeedsX(t)' <=> NeedsX(t)
      /\ Asked(t)' <=> Asked(t)
    BY <1>1, <1>4, <1>5 DEF HasWAL, NeedsX, Asked, Voting, Replies
<1>7. OwnSource(t) => DebitOf(t)'
    <2> SUFFICES ASSUME DebitOf(t) PROVE DebitOf(t)'
        BY <1>5 DEF RetriesOf
    <2>1. t \in commitStarted
        BY <1>1 DEF DebitOf
    <2>2. QED
        BY <1>1, <1>4, <1>5, <1>6, <2>1 DEF DebitOf
<1>8. OwnItems(t) => DecisionOf(t)'
    <2> SUFFICES ASSUME DecisionOf(t) PROVE DecisionOf(t)'
        BY <1>5 DEF RetriesOf
    <2>1. Todo("COORD_COMMIT", t) = 0 /\ Done("COORD_COMMIT", t) = 0
        BY <1>1, CountsOf DEF DecisionOf
    <2>2. QED
        BY <1>1, <1>4, <1>5, <2>1 DEF DecisionOf
<1>9. RetriesOf(t)'
    BY <1>4, <1>5, <1>7, <1>8, SourceIdles DEF RetriesOf, OwnSource, OwnItems
<1>10. QED
    BY <1>4, <1>9, RetriesStep

LEMMA RetriesUnwatched ==
    ASSUME TypeOK, TypeOK', RetriesInv, NEW t \in Transfer,
           EndWatch(t) \/ \E o \in Outcome : ResendDecision(t, o)
    PROVE  RetriesInv'
<1>1. /\ UNCHANGED <<clientQueue, internalQueue, starting, inflight>>
      /\ UNCHANGED <<bal, lock, wal, datastore, commitStarted, preparing>>
    BY DEF EndWatch, ResendDecision, storeVars, engineVars, coordVars
<1>2. \A v \in Transfer : watch'[v] = watch[v] \/ watch'[v] = "off"
    BY DEF EndWatch, ResendDecision, coordVars, TypeOK
<1>3. \A m \in Message : m.type = "PREPARE" \/ (m.type = "REPLY" /\ m.signer = "part") =>
          net'[m] <= net[m]
    <2>1. CASE EndWatch(t)
        BY <2>1 DEF EndWatch, TypeOK
    <2>2. ASSUME NEW o \in Outcome, ResendDecision(t, o)
          PROVE  \A m \in Message : m.type = "PREPARE" \/ (m.type = "REPLY" /\ m.signer = "part") =>
                     net'[m] <= net[m]
        <3>1. DecisionMsg(t, o).type = "DECISION" /\ DecisionMsg(t, o) \in Message
            BY MessageTypes DEF DecisionMsg
        <3>2. \A m \in Message : m # DecisionMsg(t, o) => net'[m] = net[m]
            BY <2>2, <3>1, SentCounts DEF ResendDecision
        <3>3. \A m \in Message : net[m] \in Nat
            BY DEF TypeOK
        <3>4. QED
            BY <3>1, <3>2, <3>3
    <2>3. QED
        BY <2>1, <2>2
<1>4. QED
    BY <1>1, <1>2, <1>3, IdleQueues

LEMMA RetriesUnchanged ==
    ASSUME TypeOK, TypeOK', RetriesInv, UNCHANGED vars
    PROVE  RetriesInv'
<1>1. \A m \in Message : net'[m] <= net[m]
    BY DEF vars, TypeOK
<1>2. QED
    BY <1>1, IdleQueues DEF vars, storeVars, engineVars, coordVars

-----------------------------------------------------------------------------
(***************************************************************************)
(* The inductive invariant, and what follows from it.                      *)
(***************************************************************************)
AloneInv == TypeOK /\ HomeInv /\ SlotInv /\ BackedInv /\ RetriesInv

LEMMA AloneInit == Init => AloneInv
<1> SUFFICES ASSUME Init PROVE AloneInv
    OBVIOUS
<1>1. TypeOK /\ HomeInv /\ SlotInv /\ BackedInv
    BY TypeInit, HomeInit, SlotInit, BackedInit
<1>2. ASSUME NEW t \in Transfer PROVE RetriesOf(t)
    <2>1. \A op : Todo(op, t) = 0 /\ Agreed(op, t) = 0 /\ Done(op, t) = 0
        BY CountsInit
    <2>2. ~HasWAL(Coord(t), t) /\ ~NeedsX(t)
        BY <2>1, TransferFields DEF Init, HasWAL, NeedsX
    <2>3. /\ net[PrepareMsg(t)] = 0
          /\ \A o \in {"commit", "abort"} : net[ReplyMsg(t, o, "part")] = 0
        BY MessagesOf DEF Init
    <2>4. /\ watch[t] = "off" /\ preparing[t] = 0 /\ t \notin commitStarted
          /\ lock[t.x] = NoTransfer /\ bal[t.x] = InitialBalance
        BY TransferFields DEF Init
    <2>5. ~Asked(t)
        BY <2>1, <2>3, <2>4 DEF Asked, Voting, Replies
    <2>6. DebitOf(t)
        BY <2>1, <2>2, <2>4, <2>5, TransferAssumption DEF DebitOf
    <2>7. DecisionOf(t)
        BY <2>1, <2>3, <2>4 DEF DecisionOf
    <2>8. SourceOf(t)
        BY <2>1, <2>2, <2>4, BoundAssumption DEF SourceOf
    <2>9. QED
        BY <2>6, <2>7, <2>8 DEF RetriesOf
<1>3. QED
    BY <1>1, <1>2 DEF AloneInv, RetriesInv

LEMMA AloneNext == AloneInv /\ [Next]_vars => AloneInv'
<1> SUFFICES ASSUME AloneInv, [Next]_vars PROVE AloneInv'
    OBVIOUS
<1> USE DEF AloneInv
<1>1. TypeOK'
    BY TypeStep
<1>2. HomeInv' /\ SlotInv' /\ BackedInv'
    BY <1>1, HomeNext, SlotNext, BackedNext
<1>3. ASSUME NEW t \in Transfer, NEW k \in Handler, Submit(t, k) \/ ClientHandler(t, k)
      PROVE  RetriesInv'
    BY <1>1, <1>3, RetriesClients
<1>4. ASSUME NEW c \in Cluster, Ingress(c) \/ Reclaim(c)
      PROVE  RetriesInv'
    BY <1>1, <1>4, RetriesIngress, RetriesReclaim
<1>5. ASSUME NEW t \in Transfer, Execute(t) \/ Receive(t)
      PROVE  RetriesInv'
    BY <1>1, <1>5, RetriesExecute, RetriesReceive
<1>6. ASSUME NEW t \in Transfer,
             \/ DecidePrepare(t) \/ ResendPrepare(t) \/ PrepareTimesOut(t) \/ RetryAbort(t)
             \/ EndWatch(t) \/ \E o \in Outcome : ResendDecision(t, o)
      PROVE  RetriesInv'
    BY <1>1, <1>6, RetriesDecidePrepare, RetriesResendPrepare, RetriesPrepareTimesOut,
       RetriesRetryAbort, RetriesUnwatched
<1>7. CASE UNCHANGED vars
    BY <1>1, <1>2, <1>7, RetriesUnchanged
<1>8. QED
    BY <1>2, <1>1, <1>3, <1>4, <1>5, <1>6, <1>7 DEF Next

LEMMA AloneInvariant == Spec => []AloneInv
<1>1. QED
    BY AloneInit, AloneNext, PTL DEF Spec

\* Whatever is resent, reclaimed or times out, a transfer whose sender's item
\* no other transfer moves is debited at most once.
THEOREM OneDebitRetried ==
    ASSUME \A t \in Transfer : OwnSource(t)
    PROVE  Spec => []DebitedAtMostOnce
<1>1. AloneInv => DebitedAtMostOnce
    <2> SUFFICES ASSUME AloneInv, NEW t \in Transfer,
                        NEW i \in DOMAIN datastore[Coord(t)],
                        NEW j \in DOMAIN datastore[Coord(t)],
                        datastore[Coord(t)][i] = Op("COORD_PREPARE", t),
                        datastore[Coord(t)][j] = Op("COORD_PREPARE", t)
                 PROVE  i = j
        BY DEF DebitedAtMostOnce
    <2>1. /\ HomeOf(Op("COORD_PREPARE", t)) = Coord(t)
          /\ Op("COORD_PREPARE", t) \in Operation
        BY OperationNames, OperationTypes DEF CoordOp
    <2>2. datastore[Coord(t)] \in Seq(Operation)
        BY TransferFields DEF AloneInv, TypeOK
    <2>3. Todo("COORD_PREPARE", t) + Done("COORD_PREPARE", t) <= 1
        BY DEF AloneInv, RetriesInv, RetriesOf, DebitOf
    <2>4. Copies(datastore[Coord(t)], {Op("COORD_PREPARE", t)}) <= 1
        <3>1. Done("COORD_PREPARE", t) <= 1
            BY <2>3, CountsOf DEF AloneInv
        <3>2. QED
            BY <2>1, <3>1 DEF Done
    <2>5. QED
        BY <2>1, <2>2, <2>4, TwoPositions
<1>2. QED
    BY <1>1, AloneInvariant, PTL

\* Nor do resent prepares, second votes and the deadline of the prepare phase
\* get a transfer committed and aborted, if no other moves its items.
THEOREM OneOutcomeRetried ==
    ASSUME \A t \in Transfer : OwnItems(t)
    PROVE  Spec => []DecidedOnce
<1>1. AloneInv => DecidedOnce
    <2> SUFFICES ASSUME AloneInv, NEW t \in Transfer,
                        Recorded(Coord(t), Op("COORD_COMMIT", t)),
                        Recorded(Coord(t), Op("COORD_ABORT", t))
                 PROVE  FALSE
        BY DEF DecidedOnce
    <2>1. Done("COORD_COMMIT", t) > 0 /\ Done("COORD_ABORT", t) > 0
        BY CommittedIsDone DEF AloneInv, Committed
    <2>2. DecisionOf(t)
        BY DEF AloneInv, RetriesInv, RetriesOf
    <2>3. QED
        BY <2>1, <2>2 DEF DecisionOf
<1>2. QED
    BY <1>1, AloneInvariant, PTL

\* And its sender has lost the amount if the transfer is prepared or committed,
\* and nothing otherwise, at every moment.
THEOREM SourceIsAccounted == Spec => []SourceAccounted
<1>1. AloneInv => SourceAccounted
    <2> SUFFICES ASSUME AloneInv, NEW t \in Transfer, OwnItems(t)
                 PROVE  bal[t.x] = InitialBalance -
                            IF HasWAL(Coord(t), t) \/ Recorded(Coord(t), Op("COORD_COMMIT", t))
                            THEN t.amt ELSE 0
        BY DEF SourceAccounted
    <2>1. Recorded(Coord(t), Op("COORD_COMMIT", t)) <=> Done("COORD_COMMIT", t) > 0
        BY CommittedIsDone DEF AloneInv, Committed
    <2>2. SourceOf(t)
        BY DEF AloneInv, RetriesInv, RetriesOf
    <2>3. QED
        BY <2>1, <2>2 DEF SourceOf
<1>2. QED
    BY <1>1, AloneInvariant, PTL

=============================================================================
