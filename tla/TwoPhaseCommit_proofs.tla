--------------------------- MODULE TwoPhaseCommit_proofs ---------------------------
(***************************************************************************)
(* Type correctness of the two-phase commit and the agreement of the two   *)
(* clusters on outcomes, for every set of clusters and transfers and every *)
(* bound; then the locks of the clusters.                                  *)
(***************************************************************************)
EXTENDS TwoPhaseCommit, SequenceTheorems, FiniteSetTheorems, TLAPS

-----------------------------------------------------------------------------
(***************************************************************************)
(* Types of what the actions are built from.                               *)
(***************************************************************************)
LEMMA TransferFields ==
    ASSUME NEW t \in Transfer
    PROVE  /\ t.x \in Item /\ t.y \in Item
           /\ t.client \in Client /\ t.ts \in Nat /\ t.amt \in Nat
           /\ Coord(t) \in Cluster /\ Part(t) \in Cluster
BY HomeAssumption, TransferAssumption DEF Coord, Part

LEMMA OperationTypes ==
    ASSUME NEW t \in Transfer
    PROVE  /\ \A op \in CoordOp \cup PartOp \cup {"HOLE"} : Op(op, t) \in Operation
           /\ \A o \in Outcome : /\ Op(CoordOpFor(o), t) \in Operation
                                 /\ Op(PartOpFor(o), t) \in Operation
           /\ Op(PrepareVote(t), t) \in Operation
BY DEF Op, Operation, CoordOp, PartOp, CoordOpFor, PartOpFor, PrepareVote, Outcome

LEMMA OperationFields ==
    ASSUME NEW e \in Operation
    PROVE  e.txn \in Transfer
BY DEF Operation

LEMMA MessageTypes ==
    ASSUME NEW t \in Transfer
    PROVE  /\ PrepareMsg(t) \in Message
           /\ AckMsg(t) \in Message
           /\ \A o \in Outcome : /\ DecisionMsg(t, o) \in Message
                                 /\ ReplyMsg(t, o, "part") \in Message
                                 /\ ReplyMsg(t, o, "coord") \in Message
BY DEF PrepareMsg, AckMsg, DecisionMsg, ReplyMsg, Message

LEMMA SentTypes ==
    ASSUME net \in [Message -> Nat], NEW m \in Message
    PROVE  Sent(m) \in [Message -> Nat]
BY DEF Sent

LEMMA ReceivedTypes ==
    ASSUME net \in [Message -> Nat], NEW m \in Message, net[m] > 0
    PROVE  Received(m) \in [Message -> Nat]
BY DEF Received

LEMMA EnqueuedTypes ==
    ASSUME internalQueue \in [Cluster -> Seq(Operation)],
           NEW c \in Cluster, NEW e \in Operation
    PROVE  Enqueued(c, e) \in [Cluster -> Seq(Operation)]
BY DEF Enqueued

LEMMA AppendedTypes ==
    ASSUME datastore \in [Cluster -> Seq(Operation)],
           NEW c \in Cluster, NEW e \in Operation
    PROVE  Appended(c, e) \in [Cluster -> Seq(Operation)]
BY DEF Appended

LEMMA LockTypes ==
    ASSUME lock \in [Item -> Transfer \cup {NoTransfer}], NEW e \in Operation
    PROVE  /\ Acquired(e) \in [Item -> Transfer \cup {NoTransfer}]
           /\ \A items : Released(items) \in [Item -> Transfer \cup {NoTransfer}]
BY OperationFields DEF Acquired, Released

LEMMA WALTypes ==
    ASSUME wal \in [Cluster -> [Transfer -> Nat \cup {NoPreimage}]],
           NEW c \in Cluster, NEW t \in Transfer, NEW n \in Nat
    PROVE  [wal EXCEPT ![c][t] = n] \in [Cluster -> [Transfer -> Nat \cup {NoPreimage}]]
OBVIOUS

LEMMA CrossSlotTypes ==
    ASSUME crossBusy \in [Cluster -> BOOLEAN], NEW c \in Cluster, NEW e \in Operation
    PROVE  CrossSlotAfterDrop(c, e) \in [Cluster -> BOOLEAN]
BY DEF CrossSlotAfterDrop

LEMMA ExecutesNextTypes ==
    ASSUME TypeOK, NEW c \in Cluster, NEW e \in Operation, ExecutesNext(c, e)
    PROVE  inflight' \in [Cluster -> Seq(Operation)]
BY DEF TypeOK, ExecutesNext

LEMMA DecisionTypes ==
    ASSUME NEW t \in Transfer, NEW o \in Outcome
    PROVE  DecisionsFor(t, o) \in Seq(Operation)
<1>1. Op(CoordOpFor(o), t) \in Operation /\ Op("COORD_ABORT", t) \in Operation
    BY OperationTypes DEF CoordOp
<1>2. QED
    BY <1>1 DEF DecisionsFor

LEMMA RemoveAtTypes ==
    ASSUME NEW S, NEW s \in Seq(S), NEW i \in DOMAIN s
    PROVE  /\ RemoveAt(s, i) \in Seq(S)
           /\ \A j \in DOMAIN RemoveAt(s, i) : \E k \in DOMAIN s : RemoveAt(s, i)[j] = s[k]
<1> DEFINE front == SubSeq(s, 1, i - 1)
           back  == SubSeq(s, i + 1, Len(s))
<1>1. i \in 1 .. Len(s) /\ Len(s) \in Nat /\ DOMAIN s = 1 .. Len(s)
    OBVIOUS
<1>2. /\ front \in Seq(S) /\ Len(front) = i - 1
      /\ \A j \in 1 .. i - 1 : front[j] = s[j]
    BY <1>1
<1>3. /\ back \in Seq(S) /\ Len(back) = Len(s) - i
      /\ \A j \in 1 .. Len(s) - i : back[j] = s[j + i]
    BY <1>1
<1>4. RemoveAt(s, i) = front \o back
    BY DEF RemoveAt
<1> HIDE DEF front, back
<1>5. /\ front \o back \in Seq(S) /\ Len(front \o back) = Len(s) - 1
      /\ \A j \in 1 .. Len(s) - 1 :
            (front \o back)[j] = IF j <= i - 1 THEN front[j] ELSE back[j - (i - 1)]
    <2>1. /\ front \o back \in Seq(S)
          /\ Len(front \o back) = Len(front) + Len(back)
          /\ \A j \in 1 .. Len(front) + Len(back) : (front \o back)[j] =
                IF j <= Len(front) THEN front[j] ELSE back[j - Len(front)]
        BY <1>2, <1>3, ConcatProperties
    <2>2. Len(front) + Len(back) = Len(s) - 1 /\ Len(front) = i - 1
        BY <1>1, <1>2, <1>3
    <2>3. QED
        BY <2>1, <2>2
<1>6. ASSUME NEW j \in 1 .. Len(s) - 1
      PROVE  \E k \in 1 .. Len(s) : (front \o back)[j] = s[k]
    <2>1. CASE j <= i - 1
        BY <2>1, <1>1, <1>2, <1>5
    <2>2. CASE j > i - 1
        <3>1. /\ j - (i - 1) \in 1 .. Len(s) - i
              /\ j + 1 \in 1 .. Len(s)
              /\ (j - (i - 1)) + i = j + 1
              /\ ~(j <= i - 1)
            BY <2>2, <1>1
        <3>2. back[j - (i - 1)] = s[j + 1]
            BY <3>1, <1>3
        <3>3. QED
            BY <3>1, <3>2, <1>5
    <2>3. j <= i - 1 \/ j > i - 1
        BY <1>1
    <2>4. QED
        BY <2>1, <2>2, <2>3
<1>7. DOMAIN (front \o back) = 1 .. Len(s) - 1
    BY <1>5, <1>1
<1>8. QED
    BY <1>1, <1>4, <1>5, <1>6, <1>7

-----------------------------------------------------------------------------
(***************************************************************************)
(* Every action keeps the types.                                           *)
(***************************************************************************)
LEMMA TypeInit == Init => TypeOK
BY BoundAssumption DEF Init, TypeOK

LEMMA TypeSubmit ==
    ASSUME TypeOK, NEW t \in Transfer, NEW k \in Handler, Submit(t, k)
    PROVE  TypeOK'
BY DEF TypeOK, Submit, storeVars, engineVars

LEMMA TypeClientHandler ==
    ASSUME TypeOK, NEW t \in Transfer, NEW k \in Handler, ClientHandler(t, k)
    PROVE  TypeOK'
<1>1. CASE AcquireCrossSlot(t, k)
    BY <1>1 DEF TypeOK, AcquireCrossSlot, storeVars, engineVars
<1>2. CASE CrossSlotExpires(t, k)
    BY <1>2 DEF TypeOK, CrossSlotExpires, storeVars, engineVars
<1>3. CASE StartPrepare(t, k)
    <2>1. Op("COORD_PREPARE", t) \in Operation
        BY OperationTypes DEF CoordOp
    <2>2. clientQueue' \in [Cluster -> Seq(Operation)]
        BY <1>3, <2>1, TransferFields DEF TypeOK, StartPrepare
    <2>3. handler' \in [Transfer -> [Handler -> {"idle", "slot", "lock"}]]
        BY <1>3 DEF TypeOK, StartPrepare
    <2>4. QED
        BY <1>3, <2>2, <2>3 DEF TypeOK, StartPrepare, storeVars
<1>4. CASE DropClientRequest(t, k)
    BY <1>4 DEF TypeOK, DropClientRequest, storeVars, engineVars
<1>5. QED
    BY <1>1, <1>2, <1>3, <1>4 DEF ClientHandler

LEMMA TypeIngress ==
    ASSUME TypeOK, NEW c \in Cluster, Ingress(c)
    PROVE  TypeOK'
<1>1. CASE Take(c)
    <2>1. ASSUME NEW q \in [Cluster -> Seq(Operation)], q[c] # <<>>
          PROVE  /\ [starting EXCEPT ![c] = <<Head(q[c])>>] \in [Cluster -> Seq(Operation)]
                 /\ [q EXCEPT ![c] = Tail(@)] \in [Cluster -> Seq(Operation)]
        <3>1. Head(q[c]) \in Operation /\ Tail(q[c]) \in Seq(Operation)
            BY <2>1, HeadTailProperties
        <3>2. QED
            BY <3>1 DEF TypeOK
    <2>2. /\ starting' \in [Cluster -> Seq(Operation)]
          /\ clientQueue' \in [Cluster -> Seq(Operation)]
          /\ internalQueue' \in [Cluster -> Seq(Operation)]
        <3>1. CASE /\ clientQueue[c] # <<>>
                   /\ starting' = [starting EXCEPT ![c] = <<Head(clientQueue[c])>>]
                   /\ clientQueue' = [clientQueue EXCEPT ![c] = Tail(@)]
                   /\ UNCHANGED internalQueue
            BY <3>1, <2>1 DEF TypeOK
        <3>2. CASE /\ internalQueue[c] # <<>>
                   /\ starting' = [starting EXCEPT ![c] = <<Head(internalQueue[c])>>]
                   /\ internalQueue' = [internalQueue EXCEPT ![c] = Tail(@)]
                   /\ UNCHANGED clientQueue
            BY <3>2, <2>1 DEF TypeOK
        <3>3. QED
            BY <1>1, <3>1, <3>2 DEF Take
    <2>3. QED
        BY <1>1, <2>2 DEF TypeOK, Take, storeVars, coordVars
<1>2. CASE Propose(c)
    BY <1>2, LockTypes DEF TypeOK, Propose, coordVars
<1>3. CASE BurnSequence(c)
    <2>1. \A e \in Operation : Op("HOLE", e.txn) \in Operation
        BY OperationTypes, OperationFields
    <2>2. QED
        BY <1>3, <2>1 DEF TypeOK, BurnSequence, storeVars, coordVars
<1>4. CASE Refuse(c)
    BY <1>4, CrossSlotTypes DEF TypeOK, Refuse, storeVars
<1>5. QED
    BY <1>1, <1>2, <1>3, <1>4 DEF Ingress

LEMMA TypeReclaim ==
    ASSUME TypeOK, NEW c \in Cluster, Reclaim(c)
    PROVE  TypeOK'
<1>1. PICK i \in DOMAIN inflight[c] :
        /\ inflight' = [inflight EXCEPT ![c] = RemoveAt(@, i)]
        /\ lock' = Released(LockItems(inflight[c][i]))
        /\ crossBusy' = CrossSlotAfterDrop(c, inflight[c][i])
    BY DEF Reclaim
<1>2. inflight[c] \in Seq(Operation) /\ inflight[c][i] \in Operation
    BY DEF TypeOK
<1>3. RemoveAt(inflight[c], i) \in Seq(Operation)
    BY <1>2, RemoveAtTypes
<1>4. inflight' \in [Cluster -> Seq(Operation)]
    BY <1>1, <1>3 DEF TypeOK
<1>5. crossBusy' \in [Cluster -> BOOLEAN]
    BY <1>1, <1>2, CrossSlotTypes DEF TypeOK
<1>6. lock' \in [Item -> Transfer \cup {NoTransfer}]
    BY <1>1, <1>2, LockTypes DEF TypeOK
<1>7. reclaims' \in 0 .. MaxReclaims
    BY BoundAssumption DEF TypeOK, Reclaim
<1>8. QED
    BY <1>4, <1>5, <1>6, <1>7 DEF TypeOK, Reclaim

LEMMA UndoneTypes ==
    ASSUME TypeOK, NEW c \in Cluster, NEW t \in Transfer, NEW i \in Item
    PROVE  Undone(c, t, i) \in [Item -> Nat]
BY DEF TypeOK, Undone, HasWAL

LEMMA SettlesTypes ==
    ASSUME TypeOK, NEW c \in Cluster, NEW e \in Operation, NEW i \in Item, Settles(c, e, i)
    PROVE  /\ bal' \in [Item -> Nat]
           /\ wal' \in [Cluster -> [Transfer -> Nat \cup {NoPreimage}]]
           /\ datastore' \in [Cluster -> Seq(Operation)]
           /\ lock' \in [Item -> Transfer \cup {NoTransfer}]
           /\ inflight' \in [Cluster -> Seq(Operation)]
           /\ UNCHANGED <<clientQueue, internalQueue, starting, reclaims>>
<1>1. e.txn \in Transfer
    BY OperationFields
<1>2. bal' \in [Item -> Nat]
    BY <1>1, UndoneTypes DEF TypeOK, Settles
<1>3. wal' \in [Cluster -> [Transfer -> Nat \cup {NoPreimage}]]
    BY <1>1 DEF TypeOK, Settles
<1>4. datastore' \in [Cluster -> Seq(Operation)]
    BY AppendedTypes DEF TypeOK, Settles
<1>5. lock' \in [Item -> Transfer \cup {NoTransfer}]
    BY LockTypes DEF TypeOK, Settles
<1>6. inflight' \in [Cluster -> Seq(Operation)]
    BY ExecutesNextTypes DEF Settles
<1>7. QED
    BY <1>2, <1>3, <1>4, <1>5, <1>6 DEF Settles, ExecutesNext

LEMMA TypeExecute ==
    ASSUME TypeOK, NEW t \in Transfer, Execute(t)
    PROVE  TypeOK'
<1> USE TransferFields
<1>1. CASE ExecuteCoordPrepare(t)
    <2>1. Op("COORD_PREPARE", t) \in Operation
        BY OperationTypes DEF CoordOp
    <2>2. /\ Appended(Coord(t), Op("COORD_PREPARE", t)) \in [Cluster -> Seq(Operation)]
          /\ Sent(PrepareMsg(t)) \in [Message -> Nat]
          /\ Released({t.x}) \in [Item -> Transfer \cup {NoTransfer}]
          /\ inflight' \in [Cluster -> Seq(Operation)]
        BY <1>1, <2>1, AppendedTypes, SentTypes, MessageTypes, LockTypes, ExecutesNextTypes
           DEF TypeOK, ExecuteCoordPrepare
    <2>3. CASE bal[t.x] >= t.amt
        <3>1. bal' \in [Item -> Nat] /\ bal[t.x] \in Nat
            <4>1. bal[t.x] \in Nat /\ bal[t.x] - t.amt \in Nat
                BY <2>3 DEF TypeOK
            <4>2. bal' = [bal EXCEPT ![t.x] = bal[t.x] - t.amt]
                BY <1>1, <2>3 DEF ExecuteCoordPrepare
            <4>3. QED
                BY <4>1, <4>2 DEF TypeOK
        <3>2. wal' \in [Cluster -> [Transfer -> Nat \cup {NoPreimage}]]
            <4>1. wal' = [wal EXCEPT ![Coord(t)][t] = bal[t.x]]
                BY <1>1, <2>3 DEF ExecuteCoordPrepare
            <4>2. QED
                BY <3>1, <4>1, WALTypes DEF TypeOK
        <3>3. /\ datastore' = Appended(Coord(t), Op("COORD_PREPARE", t))
              /\ net' = Sent(PrepareMsg(t))
              /\ crossBusy' \in [Cluster -> BOOLEAN]
              /\ watch' \in [Transfer -> {"off", "preparing", "aborting"}]
              /\ UNCHANGED <<lock, clientQueue, internalQueue, starting, reclaims, clientTS,
                             handler, commitStarted, collected, acked, preparing>>
            BY <1>1, <2>3 DEF TypeOK, ExecuteCoordPrepare, ExecutesNext
        <3>4. QED
            BY <2>2, <3>1, <3>2, <3>3 DEF TypeOK
    <2>4. CASE ~(bal[t.x] >= t.amt)
        BY <1>1, <2>2, <2>4 DEF TypeOK, ExecuteCoordPrepare, ExecutesNext
    <2>5. QED
        BY <2>3, <2>4
<1>2. CASE ExecutePartPrepareCommit(t)
    <2>1. Op("PART_PREPARE_COMMIT", t) \in Operation
        BY OperationTypes DEF PartOp
    <2>2. /\ Appended(Part(t), Op("PART_PREPARE_COMMIT", t)) \in [Cluster -> Seq(Operation)]
          /\ Sent(ReplyMsg(t, "commit", "part")) \in [Message -> Nat]
          /\ inflight' \in [Cluster -> Seq(Operation)]
        BY <1>2, <2>1, AppendedTypes, SentTypes, MessageTypes, ExecutesNextTypes
           DEF TypeOK, ExecutePartPrepareCommit, Outcome
    <2>3. /\ bal' \in [Item -> Nat]
          /\ wal' \in [Cluster -> [Transfer -> Nat \cup {NoPreimage}]]
        <3>1. bal[t.y] \in Nat /\ bal[t.y] + t.amt \in Nat
            BY DEF TypeOK
        <3>2. CASE HasWAL(Part(t), t)
            BY <1>2, <3>2 DEF TypeOK, ExecutePartPrepareCommit
        <3>3. CASE ~HasWAL(Part(t), t)
            <4>1. /\ bal' = [bal EXCEPT ![t.y] = bal[t.y] + t.amt]
                  /\ wal' = [wal EXCEPT ![Part(t)][t] = bal[t.y]]
                BY <1>2, <3>3 DEF ExecutePartPrepareCommit
            <4>2. bal' \in [Item -> Nat]
                BY <3>1, <4>1 DEF TypeOK
            <4>3. QED
                BY <3>1, <4>1, <4>2, WALTypes DEF TypeOK
        <3>4. QED
            BY <3>2, <3>3
    <2>4. QED
        BY <1>2, <2>2, <2>3 DEF TypeOK, ExecutePartPrepareCommit, ExecutesNext, coordVars
<1>3. CASE ExecutePartPrepareAbort(t)
    <2>1. Op("PART_PREPARE_ABORT", t) \in Operation
        BY OperationTypes DEF PartOp
    <2>2. /\ Appended(Part(t), Op("PART_PREPARE_ABORT", t)) \in [Cluster -> Seq(Operation)]
          /\ Sent(ReplyMsg(t, "abort", "part")) \in [Message -> Nat]
          /\ inflight' \in [Cluster -> Seq(Operation)]
        BY <1>3, <2>1, AppendedTypes, SentTypes, MessageTypes, ExecutesNextTypes
           DEF TypeOK, ExecutePartPrepareAbort, Outcome
    <2>3. QED
        BY <1>3, <2>2 DEF TypeOK, ExecutePartPrepareAbort, ExecutesNext, coordVars
<1>4. ASSUME NEW o \in Outcome, ExecuteDecision(t, o) PROVE TypeOK'
    <2>1. Settles(Coord(t), Op(CoordOpFor(o), t), t.x) /\ Op(CoordOpFor(o), t) \in Operation
        BY <1>4, OperationTypes DEF ExecuteDecision
    <2>2. Sent(DecisionMsg(t, o)) \in [Message -> Nat]
        BY SentTypes, MessageTypes DEF TypeOK
    <2>3. clientTS' \in [Cluster -> [Client -> Nat]]
        BY <1>4 DEF TypeOK, ExecuteDecision
    <2>4. QED
        BY <1>4, <2>1, <2>2, <2>3, SettlesTypes DEF TypeOK, ExecuteDecision, coordVars
<1>5. ASSUME NEW o \in Outcome, ExecuteOutcome(t, o) PROVE TypeOK'
    <2>1. Settles(Part(t), Op(PartOpFor(o), t), t.y) /\ Op(PartOpFor(o), t) \in Operation
        BY <1>5, OperationTypes DEF ExecuteOutcome
    <2>2. Sent(AckMsg(t)) \in [Message -> Nat]
        BY SentTypes, MessageTypes DEF TypeOK
    <2>3. QED
        BY <1>5, <2>1, <2>2, SettlesTypes DEF TypeOK, ExecuteOutcome, coordVars
<1>6. QED
    BY <1>1, <1>2, <1>3, <1>4, <1>5 DEF Execute

LEMMA TypeReceive ==
    ASSUME TypeOK, NEW t \in Transfer, Receive(t)
    PROVE  TypeOK'
<1> USE MessageTypes, ReceivedTypes
<1>1. CASE OnPrepare(t)
    <2>1. Received(PrepareMsg(t)) \in [Message -> Nat]
        BY <1>1 DEF TypeOK, OnPrepare
    <2>2. PrepareOutcome(t) \in Outcome
        BY DEF PrepareOutcome, Outcome
    <2>3. net' \in [Message -> Nat] /\ preparing' \in [Transfer -> Nat]
        <3>1. CASE HasWAL(Part(t), t) \/ PrepareRecords(t) # {}
            <4> DEFINE o == IF HasWAL(Part(t), t) THEN "commit" ELSE PrepareOutcome(t)
            <4>1. o \in Outcome
                BY <2>2 DEF Outcome
            <4>2. ReplyMsg(t, o, "coord") \in Message
                BY <4>1
            <4>3. /\ net' = [Received(PrepareMsg(t)) EXCEPT ![ReplyMsg(t, o, "coord")] = @ + 1]
                  /\ preparing' = preparing
                BY <1>1, <3>1 DEF OnPrepare
            <4> HIDE DEF o
            <4>4. QED
                BY <2>1, <4>2, <4>3 DEF TypeOK
        <3>2. CASE ~(HasWAL(Part(t), t) \/ PrepareRecords(t) # {})
            BY <1>1, <2>1, <3>2 DEF TypeOK, OnPrepare
        <3>3. QED
            BY <3>1, <3>2
    <2>4. QED
        BY <1>1, <2>3 DEF TypeOK, OnPrepare, storeVars, engineVars, coordVars
<1>2. ASSUME NEW o \in Outcome, OnStaleReply(t, o) PROVE TypeOK'
    BY <1>2 DEF TypeOK, OnStaleReply, storeVars, engineVars, coordVars
<1>3. ASSUME NEW o \in Outcome, OnReply(t, o) PROVE TypeOK'
    <2>1. net' \in [Message -> Nat]
        BY <1>3 DEF TypeOK, OnReply
    <2>2. internalQueue' \in [Cluster -> Seq(Operation)]
        BY <1>3, DecisionTypes, TransferFields DEF TypeOK, OnReply
    <2>3. QED
        BY <1>3, <2>1, <2>2 DEF TypeOK, OnReply, storeVars
<1>4. ASSUME NEW o \in Outcome, OnDecision(t, o) PROVE TypeOK'
    <2>1. net' \in [Message -> Nat]
        BY <1>4 DEF TypeOK, OnDecision
    <2>2. internalQueue' \in [Cluster -> Seq(Operation)]
        BY <1>4, OperationTypes, EnqueuedTypes, TransferFields DEF TypeOK, OnDecision
    <2>3. QED
        BY <1>4, <2>1, <2>2 DEF TypeOK, OnDecision, storeVars, coordVars
<1>5. CASE OnAck(t)
    <2>1. net' \in [Message -> Nat]
        BY <1>5 DEF TypeOK, OnAck
    <2>2. QED
        BY <1>5, <2>1 DEF TypeOK, OnAck, storeVars, engineVars
<1>6. QED
    BY <1>1, <1>2, <1>3, <1>4, <1>5 DEF Receive

LEMMA TypeRetries ==
    ASSUME TypeOK, NEW t \in Transfer
    PROVE  /\ DecidePrepare(t) => TypeOK'
           /\ ResendPrepare(t) => TypeOK'
           /\ PrepareTimesOut(t) => TypeOK'
           /\ RetryAbort(t) => TypeOK'
           /\ EndWatch(t) => TypeOK'
           /\ \A o \in Outcome : ResendDecision(t, o) => TypeOK'
<1>1. ASSUME DecidePrepare(t) PROVE TypeOK'
    <2>1. internalQueue' \in [Cluster -> Seq(Operation)]
        BY <1>1, OperationTypes, EnqueuedTypes, TransferFields DEF TypeOK, DecidePrepare
    <2>2. preparing' \in [Transfer -> Nat]
        BY <1>1 DEF TypeOK, DecidePrepare
    <2>3. QED
        BY <1>1, <2>1, <2>2 DEF TypeOK, DecidePrepare, storeVars, coordVars
<1>2. ASSUME ResendPrepare(t) PROVE TypeOK'
    <2>1. net' \in [Message -> Nat]
        BY <1>2, MessageTypes, SentTypes DEF TypeOK, ResendPrepare
    <2>2. QED
        BY <1>2, <2>1 DEF TypeOK, ResendPrepare, storeVars, engineVars, coordVars
<1>3. ASSUME PrepareTimesOut(t) PROVE TypeOK'
    BY <1>3 DEF TypeOK, PrepareTimesOut, storeVars, engineVars
<1>4. ASSUME RetryAbort(t) PROVE TypeOK'
    <2>1. internalQueue' \in [Cluster -> Seq(Operation)]
        BY <1>4, OperationTypes, EnqueuedTypes, TransferFields DEF TypeOK, RetryAbort, CoordOp
    <2>2. QED
        BY <1>4, <2>1 DEF TypeOK, RetryAbort, storeVars, coordVars
<1>5. ASSUME EndWatch(t) PROVE TypeOK'
    BY <1>5 DEF TypeOK, EndWatch, storeVars, engineVars
<1>6. ASSUME NEW o \in Outcome, ResendDecision(t, o) PROVE TypeOK'
    <2>1. net' \in [Message -> Nat]
        BY <1>6, MessageTypes, SentTypes DEF TypeOK, ResendDecision
    <2>2. QED
        BY <1>6, <2>1 DEF TypeOK, ResendDecision, storeVars, engineVars, coordVars
<1>7. QED
    BY <1>1, <1>2, <1>3, <1>4, <1>5, <1>6

LEMMA TypeStep == TypeOK /\ [Next]_vars => TypeOK'
<1> SUFFICES ASSUME TypeOK, [Next]_vars PROVE TypeOK'
    OBVIOUS
<1>1. ASSUME NEW t \in Transfer, NEW k \in Handler, Submit(t, k) \/ ClientHandler(t, k)
      PROVE  TypeOK'
    BY <1>1, TypeSubmit, TypeClientHandler
<1>2. ASSUME NEW c \in Cluster, Ingress(c) \/ Reclaim(c)
      PROVE  TypeOK'
    BY <1>2, TypeIngress, TypeReclaim
<1>3. ASSUME NEW t \in Transfer, Execute(t) \/ Receive(t)
      PROVE  TypeOK'
    BY <1>3, TypeExecute, TypeReceive
<1>4. CASE UNCHANGED vars
    BY <1>4 DEF TypeOK, vars, storeVars, engineVars, coordVars
<1>5. QED
    BY <1>1, <1>2, <1>3, <1>4, TypeRetries DEF Next

\* Every variable keeps its type; in particular no balance becomes negative,
\* whatever is retried, reclaimed or timed out (executeCoordPrepare checks
\* the balance again, WALUndo restores a balance only from a WAL entry).
THEOREM TypeCorrect == Spec => []TypeOK
<1>1. Init => TypeOK
    BY TypeInit
<1>2. TypeOK /\ [Next]_vars => TypeOK'
    BY TypeStep
<1>3. QED
    BY <1>1, <1>2, PTL DEF Spec

-----------------------------------------------------------------------------
(***************************************************************************)
(* No cluster settles a transfer without the other one having agreed.      *)
(* Agreement travels: it is recorded at one cluster, carried by a message, *)
(* and waits as an operation at the other until that executes.  The        *)
(* invariant says of everything on the way that it rests on a record.      *)
(***************************************************************************)

OpsOf(s) == {s[i] : i \in DOMAIN s}

\* What a cluster has recorded, is executing, starting or has queued.
Underway(c) ==
    OpsOf(clientQueue[c]) \cup OpsOf(internalQueue[c]) \cup OpsOf(starting[c])
        \cup OpsOf(inflight[c]) \cup OpsOf(datastore[c])

\* The record at the other cluster that an operation needs.
Backed(e) ==
    /\ e.op = "COORD_COMMIT" => Recorded(Part(e.txn), Op("PART_PREPARE_COMMIT", e.txn))
    /\ e.op = "PART_COMMIT" => Recorded(Coord(e.txn), Op("COORD_COMMIT", e.txn))
    /\ e.op = "PART_ABORT" => Recorded(Coord(e.txn), Op("COORD_ABORT", e.txn))

\* The record that a message reports.
Reports(m) ==
    /\ m.type = "REPLY" /\ m.signer = "part" /\ m.outcome = "commit" =>
           Recorded(Part(m.txn), Op("PART_PREPARE_COMMIT", m.txn))
    /\ m.type = "DECISION" => Recorded(Coord(m.txn), Op(CoordOpFor(m.outcome), m.txn))

BackedInv ==
    /\ \A c \in Cluster : \A e \in Underway(c) : Backed(e)
    /\ \A m \in Message : net[m] > 0 => Reports(m)

-----------------------------------------------------------------------------
(***************************************************************************)
(* What a step may do to keep the invariant: records stay, new operations  *)
(* are backed, new messages report what is recorded.                       *)
(***************************************************************************)
RecordsStay == \A c \in Cluster : OpsOf(datastore[c]) \subseteq OpsOf(datastore'[c])

Flows(q) == \A c \in Cluster : \A e \in OpsOf(q'[c]) : e \in Underway(c) \/ Backed(e)'

MessagesFlow == \A m \in Message : net'[m] > 0 => net[m] > 0 \/ Reports(m)'

LEMMA RecordedIsMember ==
    /\ \A c, e : Recorded(c, e) <=> e \in OpsOf(datastore[c])
    /\ \A c, e : Recorded(c, e)' <=> e \in OpsOf(datastore'[c])
BY DEF Recorded, OpsOf

LEMMA UnderwayMembers ==
    ASSUME NEW c
    PROVE  /\ OpsOf(clientQueue[c]) \subseteq Underway(c)
           /\ OpsOf(internalQueue[c]) \subseteq Underway(c)
           /\ OpsOf(starting[c]) \subseteq Underway(c)
           /\ OpsOf(inflight[c]) \subseteq Underway(c)
           /\ OpsOf(datastore[c]) \subseteq Underway(c)
BY DEF Underway

LEMMA BackedStep ==
    ASSUME TypeOK, TypeOK', BackedInv, RecordsStay, MessagesFlow,
           Flows(clientQueue), Flows(internalQueue), Flows(starting), Flows(inflight),
           Flows(datastore)
    PROVE  BackedInv'
<1>1. ASSUME NEW t \in Transfer, NEW e,
             Recorded(Part(t), e) \/ Recorded(Coord(t), e)
      PROVE  /\ Recorded(Part(t), e) => Recorded(Part(t), e)'
             /\ Recorded(Coord(t), e) => Recorded(Coord(t), e)'
    BY <1>1, RecordedIsMember, TransferFields DEF RecordsStay
<1>2. ASSUME NEW e, e.txn \in Transfer, Backed(e)
      PROVE  Backed(e)'
    BY <1>1, <1>2 DEF Backed
<1>3. ASSUME NEW m \in Message, Reports(m)
      PROVE  Reports(m)'
    <2>1. m.txn \in Transfer
        BY DEF Message
    <2>2. QED
        BY <1>1, <1>3, <2>1 DEF Reports
<1>4. ASSUME NEW c \in Cluster, NEW e \in Underway(c)'
      PROVE  Backed(e)'
    <2>1. e \in Underway(c) \/ Backed(e)'
        BY <1>4 DEF Underway, Flows
    <2>2. CASE e \in Underway(c)
        <3>1. e.txn \in Transfer
            BY <2>2, OperationFields DEF Underway, OpsOf, TypeOK
        <3>2. QED
            BY <2>2, <3>1, <1>2 DEF BackedInv
    <2>3. QED
        BY <2>1, <2>2
<1>5. ASSUME NEW m \in Message, net'[m] > 0
      PROVE  Reports(m)'
    BY <1>3, <1>5 DEF BackedInv, MessagesFlow
<1>6. QED
    BY <1>4, <1>5 DEF BackedInv

\* A variable that does not change, or does so at one cluster.
LEMMA FlowsUnchanged ==
    /\ UNCHANGED clientQueue => Flows(clientQueue)
    /\ UNCHANGED internalQueue => Flows(internalQueue)
    /\ UNCHANGED starting => Flows(starting)
    /\ UNCHANGED inflight => Flows(inflight)
    /\ UNCHANGED datastore => Flows(datastore) /\ RecordsStay
    /\ UNCHANGED net => MessagesFlow
BY DEF Flows, Underway, RecordsStay, MessagesFlow

LEMMA OpsOfAppend ==
    ASSUME NEW S, NEW s \in Seq(S), NEW e \in S
    PROVE  OpsOf(Append(s, e)) = OpsOf(s) \cup {e}
<1>1. /\ Len(Append(s, e)) = Len(s) + 1
      /\ \A i \in 1 .. Len(s) : Append(s, e)[i] = s[i]
      /\ Append(s, e)[Len(s) + 1] = e
      /\ DOMAIN Append(s, e) = 1 .. Len(s) + 1
      /\ DOMAIN s = 1 .. Len(s) /\ Len(s) \in Nat
    BY AppendProperties
<1>2. QED
    BY <1>1 DEF OpsOf

LEMMA OpsOfTail ==
    ASSUME NEW S, NEW s \in Seq(S), s # <<>>
    PROVE  OpsOf(Tail(s)) \subseteq OpsOf(s) /\ Head(s) \in OpsOf(s)
<1>1. /\ Len(Tail(s)) = Len(s) - 1 /\ Tail(s) \in Seq(S)
      /\ \A i \in 1 .. Len(Tail(s)) : Tail(s)[i] = s[i + 1]
      /\ Head(s) = s[1] /\ Len(s) \in Nat \ {0}
    BY HeadTailProperties, EmptySeq
<1>2. DOMAIN s = 1 .. Len(s) /\ DOMAIN Tail(s) = 1 .. Len(s) - 1
    BY <1>1
<1>3. ASSUME NEW i \in 1 .. Len(s) - 1
      PROVE  i + 1 \in 1 .. Len(s) /\ Tail(s)[i] = s[i + 1]
    BY <1>1, <1>3
<1>4. QED
    BY <1>1, <1>2, <1>3 DEF OpsOf

LEMMA OpsOfConcat ==
    ASSUME NEW S, NEW s \in Seq(S), NEW r \in Seq(S)
    PROVE  OpsOf(s \o r) \subseteq OpsOf(s) \cup OpsOf(r)
<1>1. /\ s \o r \in Seq(S) /\ Len(s \o r) = Len(s) + Len(r)
      /\ \A i \in 1 .. Len(s) + Len(r) :
            (s \o r)[i] = IF i <= Len(s) THEN s[i] ELSE r[i - Len(s)]
    BY ConcatProperties
<1>2. /\ DOMAIN (s \o r) = 1 .. Len(s) + Len(r)
      /\ DOMAIN s = 1 .. Len(s) /\ DOMAIN r = 1 .. Len(r)
      /\ Len(s) \in Nat /\ Len(r) \in Nat
    BY <1>1
<1>3. ASSUME NEW i \in 1 .. Len(s) + Len(r)
      PROVE  \/ i \in 1 .. Len(s) /\ (s \o r)[i] = s[i]
             \/ i - Len(s) \in 1 .. Len(r) /\ (s \o r)[i] = r[i - Len(s)]
    BY <1>1, <1>2, <1>3
<1>4. QED
    BY <1>2, <1>3 DEF OpsOf

LEMMA OpsOfSmall ==
    /\ OpsOf(<<>>) = {}
    /\ \A e : OpsOf(<<e>>) = {e}
BY DEF OpsOf

LEMMA EnqueuedFlows ==
    ASSUME TypeOK, NEW c \in Cluster, NEW e \in Operation, Backed(e)',
           internalQueue' = Enqueued(c, e)
    PROVE  Flows(internalQueue)
<1>1. ASSUME NEW d \in Cluster
      PROVE  OpsOf(internalQueue'[d]) \subseteq OpsOf(internalQueue[d]) \cup {e}
    <2>1. internalQueue[c] \in Seq(Operation)
        BY DEF TypeOK
    <2>2. OpsOf(Append(internalQueue[c], e)) = OpsOf(internalQueue[c]) \cup {e}
        BY <2>1, OpsOfAppend
    <2>3. QED
        BY <2>2 DEF Enqueued, TypeOK
<1>2. QED
    BY <1>1, UnderwayMembers DEF Flows

LEMMA AppendedFlows ==
    ASSUME TypeOK, NEW c \in Cluster, NEW e \in Operation, e \in Underway(c),
           datastore' = Appended(c, e)
    PROVE  Flows(datastore) /\ RecordsStay /\ Recorded(c, e)'
<1>1. OpsOf(Append(datastore[c], e)) = OpsOf(datastore[c]) \cup {e}
    BY OpsOfAppend DEF TypeOK
<1>2. \A d \in Cluster :
          datastore'[d] = IF d = c THEN Append(datastore[c], e) ELSE datastore[d]
    BY DEF Appended, TypeOK
<1>3. \A d \in Cluster : OpsOf(datastore'[d]) = IF d = c THEN OpsOf(datastore[c]) \cup {e}
                                                     ELSE OpsOf(datastore[d])
    BY <1>1, <1>2
<1>4. QED
    BY <1>3, UnderwayMembers, RecordedIsMember DEF Flows, RecordsStay

LEMMA ExecutesFlows ==
    ASSUME TypeOK, NEW c \in Cluster, NEW e, ExecutesNext(c, e)
    PROVE  /\ e \in Underway(c)
           /\ Flows(clientQueue) /\ Flows(internalQueue) /\ Flows(starting) /\ Flows(inflight)
<1>1. inflight[c] \in Seq(Operation) /\ inflight[c] # <<>>
    BY DEF TypeOK, ExecutesNext
<1>2. OpsOf(Tail(inflight[c])) \subseteq OpsOf(inflight[c]) /\ e \in OpsOf(inflight[c])
    BY <1>1, OpsOfTail DEF ExecutesNext
<1>3. Flows(inflight)
    BY <1>2, UnderwayMembers DEF Flows, ExecutesNext, TypeOK
<1>4. QED
    BY <1>2, <1>3, UnderwayMembers, FlowsUnchanged DEF ExecutesNext

LEMMA MessageFlows ==
    ASSUME TypeOK, NEW m \in Message
    PROVE  /\ net' = Sent(m) /\ Reports(m)' => MessagesFlow
           /\ net' = Received(m) => MessagesFlow
<1>1. /\ \A n \in Message : n # m => Sent(m)[n] = net[n] /\ Received(m)[n] = net[n]
      /\ net[m] \in Nat /\ Received(m)[m] = net[m] - 1
    BY DEF TypeOK, Sent, Received
<1>2. ASSUME net' = Sent(m), Reports(m)' PROVE MessagesFlow
    BY <1>1, <1>2 DEF MessagesFlow
<1>3. ASSUME net' = Received(m), NEW n \in Message, net'[n] > 0 PROVE net[n] > 0
    BY <1>1, <1>3
<1>4. QED
    BY <1>2, <1>3 DEF MessagesFlow

\* Operations and messages that need no record.
LEMMA NothingToBack ==
    ASSUME NEW t \in Transfer
    PROVE  /\ \A op \in PrepareOp \cup {"COORD_ABORT", "HOLE"} : Backed(Op(op, t))'
           /\ Reports(PrepareMsg(t))' /\ Reports(AckMsg(t))'
           /\ Reports(ReplyMsg(t, "abort", "part"))'
           /\ \A o \in Outcome : Reports(ReplyMsg(t, o, "coord"))'
<1>1. \A op \in PrepareOp \cup {"COORD_ABORT", "HOLE"} : Backed(Op(op, t))'
    BY DEF Backed, Op, PrepareOp
<1>2. QED
    BY <1>1 DEF Reports, PrepareMsg, AckMsg, ReplyMsg

-----------------------------------------------------------------------------
(***************************************************************************)
(* Every action keeps the invariant.                                       *)
(***************************************************************************)
LEMMA QuietStep ==
    ASSUME TypeOK, TypeOK', BackedInv,
           UNCHANGED <<clientQueue, internalQueue, starting, inflight, datastore>>,
           MessagesFlow
    PROVE  BackedInv'
BY FlowsUnchanged, BackedStep

LEMMA BackedClients ==
    ASSUME TypeOK, TypeOK', BackedInv, NEW t \in Transfer, NEW k \in Handler,
           Submit(t, k) \/ ClientHandler(t, k)
    PROVE  BackedInv'
<1>1. CASE StartPrepare(t, k)
    <2> DEFINE e == Op("COORD_PREPARE", t)
    <2>1. e \in Operation /\ Backed(e)'
        BY OperationTypes, NothingToBack DEF CoordOp, PrepareOp
    <2> HIDE DEF e
    <2>2. clientQueue' = [clientQueue EXCEPT ![Coord(t)] = Append(@, e)]
        BY <1>1 DEF StartPrepare, e
    <2>3. OpsOf(Append(clientQueue[Coord(t)], e)) = OpsOf(clientQueue[Coord(t)]) \cup {e}
        <3>1. Coord(t) \in Cluster
            BY TransferFields
        <3>2. clientQueue[Coord(t)] \in Seq(Operation)
            BY <3>1 DEF TypeOK
        <3>3. QED
            BY <2>1, <3>2, OpsOfAppend
    <2>4. \A d \in Cluster : OpsOf(clientQueue'[d]) \subseteq OpsOf(clientQueue[d]) \cup {e}
        BY <2>2, <2>3 DEF TypeOK
    <2>5. Flows(clientQueue)
        BY <2>1, <2>4, UnderwayMembers DEF Flows
    <2>6. QED
        BY <1>1, <2>5, FlowsUnchanged, BackedStep DEF StartPrepare, storeVars
<1>2. CASE Submit(t, k) \/ AcquireCrossSlot(t, k) \/ CrossSlotExpires(t, k)
               \/ DropClientRequest(t, k)
    <2>1. UNCHANGED <<storeVars, engineVars, net>>
        BY <1>2 DEF Submit, AcquireCrossSlot, CrossSlotExpires, DropClientRequest
    <2>2. QED
        BY <2>1, QuietStep, FlowsUnchanged DEF storeVars, engineVars
<1>3. QED
    BY <1>1, <1>2 DEF ClientHandler

LEMMA BackedIngress ==
    ASSUME TypeOK, TypeOK', BackedInv, NEW c \in Cluster, Ingress(c)
    PROVE  BackedInv'
<1>1. CASE Take(c)
    <2>1. ASSUME NEW q \in [Cluster -> Seq(Operation)], q[c] # <<>>,
                 starting' = [starting EXCEPT ![c] = <<Head(q[c])>>],
                 \A d \in Cluster : OpsOf(q[d]) \subseteq Underway(d)
          PROVE  /\ Flows(starting)
                 /\ \A d \in Cluster : OpsOf([q EXCEPT ![c] = Tail(@)][d]) \subseteq Underway(d)
        <3>1. OpsOf(Tail(q[c])) \subseteq OpsOf(q[c]) /\ Head(q[c]) \in OpsOf(q[c])
            BY <2>1, OpsOfTail
        <3>2. \A d \in Cluster : OpsOf(starting'[d]) \subseteq
                  OpsOf(starting[d]) \cup IF d = c THEN {Head(q[c])} ELSE {}
            BY <2>1, OpsOfSmall DEF TypeOK
        <3>3. Flows(starting)
            BY <2>1, <3>1, <3>2, UnderwayMembers DEF Flows
        <3>4. QED
            BY <2>1, <3>1, <3>3
    <2>2. UNCHANGED <<inflight, datastore, net>>
        BY <1>1 DEF Take, storeVars
    <2>3. CASE /\ clientQueue[c] # <<>>
               /\ starting' = [starting EXCEPT ![c] = <<Head(clientQueue[c])>>]
               /\ clientQueue' = [clientQueue EXCEPT ![c] = Tail(@)]
               /\ UNCHANGED internalQueue
        <3>1. clientQueue \in [Cluster -> Seq(Operation)]
            BY DEF TypeOK
        <3>2. /\ Flows(starting)
              /\ \A d \in Cluster :
                     OpsOf([clientQueue EXCEPT ![c] = Tail(@)][d]) \subseteq Underway(d)
            BY <2>1, <2>3, <3>1, UnderwayMembers
        <3>3. Flows(clientQueue)
            BY <2>3, <3>2 DEF Flows
        <3>4. QED
            BY <2>2, <2>3, <3>2, <3>3, FlowsUnchanged, BackedStep
    <2>4. CASE /\ internalQueue[c] # <<>>
               /\ starting' = [starting EXCEPT ![c] = <<Head(internalQueue[c])>>]
               /\ internalQueue' = [internalQueue EXCEPT ![c] = Tail(@)]
               /\ UNCHANGED clientQueue
        <3>1. internalQueue \in [Cluster -> Seq(Operation)]
            BY DEF TypeOK
        <3>2. /\ Flows(starting)
              /\ \A d \in Cluster :
                     OpsOf([internalQueue EXCEPT ![c] = Tail(@)][d]) \subseteq Underway(d)
            BY <2>1, <2>4, <3>1, UnderwayMembers
        <3>3. Flows(internalQueue)
            BY <2>4, <3>2 DEF Flows
        <3>4. QED
            BY <2>2, <2>4, <3>2, <3>3, FlowsUnchanged, BackedStep
    <2>5. QED
        BY <1>1, <2>3, <2>4 DEF Take
<1>2. ASSUME NEW e \in Operation, NEW f \in Operation, starting[c] = <<e>>,
             starting' = [starting EXCEPT ![c] = <<>>],
             \/ inflight' = [inflight EXCEPT ![c] = Append(@, f)] /\ (f = e \/ Backed(f)')
             \/ UNCHANGED inflight,
             UNCHANGED <<clientQueue, internalQueue, datastore, net>>
      PROVE  BackedInv'
    <2>1. \A d \in Cluster : OpsOf(starting'[d]) \subseteq OpsOf(starting[d])
        BY <1>2, OpsOfSmall DEF TypeOK
    <2>2. Flows(starting)
        BY <2>1, UnderwayMembers DEF Flows
    <2>3. e \in Underway(c)
        BY <1>2, OpsOfSmall, UnderwayMembers
    <2>4. OpsOf(Append(inflight[c], f)) = OpsOf(inflight[c]) \cup {f}
        BY OpsOfAppend DEF TypeOK
    <2>5. Flows(inflight)
        <3>1. CASE UNCHANGED inflight
            BY <3>1, FlowsUnchanged
        <3>2. CASE inflight' = [inflight EXCEPT ![c] = Append(@, f)] /\ (f = e \/ Backed(f)')
            <4>1. \A d \in Cluster : OpsOf(inflight'[d]) \subseteq
                      OpsOf(inflight[d]) \cup IF d = c THEN {f} ELSE {}
                BY <3>2, <2>4 DEF TypeOK
            <4>2. QED
                BY <3>2, <4>1, <2>3, UnderwayMembers DEF Flows
        <3>3. QED
            BY <1>2, <3>1, <3>2
    <2>6. QED
        BY <1>2, <2>2, <2>5, FlowsUnchanged, BackedStep
<1>3. CASE Propose(c) \/ Refuse(c)
    BY <1>2, <1>3 DEF Propose, Refuse, storeVars
<1>4. CASE BurnSequence(c)
    <2>1. \A e \in Operation : Op("HOLE", e.txn) \in Operation /\ Backed(Op("HOLE", e.txn))'
        BY OperationTypes, OperationFields, NothingToBack
    <2>2. QED
        BY <1>2, <1>4, <2>1 DEF BurnSequence, storeVars
<1>5. QED
    BY <1>1, <1>3, <1>4 DEF Ingress

LEMMA BackedReclaim ==
    ASSUME TypeOK, TypeOK', BackedInv, NEW c \in Cluster, Reclaim(c)
    PROVE  BackedInv'
<1>1. PICK i \in DOMAIN inflight[c] : inflight' = [inflight EXCEPT ![c] = RemoveAt(@, i)]
    BY DEF Reclaim
<1>2. inflight[c] \in Seq(Operation)
    BY DEF TypeOK
<1>3. OpsOf(RemoveAt(inflight[c], i)) \subseteq OpsOf(inflight[c])
    BY <1>2, RemoveAtTypes DEF OpsOf
<1>4. \A d \in Cluster : OpsOf(inflight'[d]) \subseteq OpsOf(inflight[d])
    BY <1>1, <1>3 DEF TypeOK
<1>5. Flows(inflight)
    BY <1>4, UnderwayMembers DEF Flows
<1>6. QED
    BY <1>5, FlowsUnchanged, BackedStep DEF Reclaim

LEMMA BackedExecute ==
    ASSUME TypeOK, TypeOK', BackedInv, NEW t \in Transfer, Execute(t)
    PROVE  BackedInv'
<1>0. Coord(t) \in Cluster /\ Part(t) \in Cluster
    BY TransferFields
\* All that an execution has to show, whatever it records.
<1>1. ASSUME NEW c \in Cluster, NEW e \in Operation, ExecutesNext(c, e),
             datastore' = Appended(c, e) \/ UNCHANGED datastore, MessagesFlow
      PROVE  BackedInv'
    <2>1. /\ e \in Underway(c)
          /\ Flows(clientQueue) /\ Flows(internalQueue) /\ Flows(starting) /\ Flows(inflight)
        BY <1>1, ExecutesFlows
    <2>2. Flows(datastore) /\ RecordsStay
        BY <1>1, <2>1, AppendedFlows, FlowsUnchanged
    <2>3. QED
        BY <1>1, <2>1, <2>2, BackedStep
\* What is executed and recorded may be reported.
<1>2. ASSUME NEW c \in Cluster, NEW e \in Operation, ExecutesNext(c, e),
             datastore' = Appended(c, e)
      PROVE  Recorded(c, e)'
    BY <1>2, ExecutesFlows, AppendedFlows
<1>3. CASE ExecuteCoordPrepare(t)
    <2>1. Op("COORD_PREPARE", t) \in Operation
        BY OperationTypes DEF CoordOp
    <2>2. /\ ExecutesNext(Coord(t), Op("COORD_PREPARE", t))
          /\ datastore' = Appended(Coord(t), Op("COORD_PREPARE", t)) \/ UNCHANGED datastore
          /\ net' = Sent(PrepareMsg(t)) \/ UNCHANGED net
        BY <1>3 DEF ExecuteCoordPrepare
    <2>3. MessagesFlow
        BY <2>2, MessageFlows, MessageTypes, NothingToBack, FlowsUnchanged
    <2>4. QED
        BY <1>0, <1>1, <2>1, <2>2, <2>3
<1>4. CASE ExecutePartPrepareCommit(t)
    <2>1. Op("PART_PREPARE_COMMIT", t) \in Operation
        BY OperationTypes DEF PartOp
    <2>2. /\ ExecutesNext(Part(t), Op("PART_PREPARE_COMMIT", t))
          /\ datastore' = Appended(Part(t), Op("PART_PREPARE_COMMIT", t))
          /\ net' = Sent(ReplyMsg(t, "commit", "part"))
        BY <1>4 DEF ExecutePartPrepareCommit
    <2>3. Recorded(Part(t), Op("PART_PREPARE_COMMIT", t))'
        BY <1>0, <1>2, <2>1, <2>2
    <2>4. Reports(ReplyMsg(t, "commit", "part"))'
        BY <2>3 DEF Reports, ReplyMsg
    <2>5. ReplyMsg(t, "commit", "part") \in Message
        BY MessageTypes DEF Outcome
    <2>6. MessagesFlow
        BY <2>2, <2>4, <2>5, MessageFlows
    <2>7. QED
        BY <1>0, <1>1, <2>1, <2>2, <2>6
<1>5. CASE ExecutePartPrepareAbort(t)
    <2>1. Op("PART_PREPARE_ABORT", t) \in Operation
        BY OperationTypes DEF PartOp
    <2>2. /\ ExecutesNext(Part(t), Op("PART_PREPARE_ABORT", t))
          /\ datastore' = Appended(Part(t), Op("PART_PREPARE_ABORT", t))
          /\ net' = Sent(ReplyMsg(t, "abort", "part"))
        BY <1>5 DEF ExecutePartPrepareAbort
    <2>3. ReplyMsg(t, "abort", "part") \in Message
        BY MessageTypes DEF Outcome
    <2>4. MessagesFlow
        BY <2>2, <2>3, MessageFlows, NothingToBack
    <2>5. QED
        BY <1>0, <1>1, <2>1, <2>2, <2>4
<1>6. ASSUME NEW o \in Outcome, ExecuteDecision(t, o)
      PROVE  BackedInv'
    <2> DEFINE e == Op(CoordOpFor(o), t)
    <2>1. e \in Operation
        BY OperationTypes
    <2>2. /\ ExecutesNext(Coord(t), e) /\ datastore' = Appended(Coord(t), e)
          /\ net' = Sent(DecisionMsg(t, o))
        BY <1>6 DEF ExecuteDecision, Settles
    <2>3. Recorded(Coord(t), e)'
        BY <1>0, <1>2, <2>1, <2>2
    <2>4. Reports(DecisionMsg(t, o))'
        BY <2>3 DEF Reports, DecisionMsg
    <2>5. MessagesFlow
        BY <2>2, <2>4, MessageFlows, MessageTypes
    <2>6. QED
        BY <1>0, <1>1, <2>1, <2>2, <2>5
<1>7. ASSUME NEW o \in Outcome, ExecuteOutcome(t, o)
      PROVE  BackedInv'
    <2> DEFINE e == Op(PartOpFor(o), t)
    <2>1. e \in Operation
        BY OperationTypes
    <2>2. /\ ExecutesNext(Part(t), e) /\ datastore' = Appended(Part(t), e)
          /\ net' = Sent(AckMsg(t))
        BY <1>7 DEF ExecuteOutcome, Settles
    <2>3. MessagesFlow
        BY <2>2, MessageFlows, MessageTypes, NothingToBack
    <2>4. QED
        BY <1>0, <1>1, <2>1, <2>2, <2>3
<1>8. QED
    BY <1>3, <1>4, <1>5, <1>6, <1>7 DEF Execute

LEMMA BackedReceive ==
    ASSUME TypeOK, TypeOK', BackedInv, NEW t \in Transfer, Receive(t)
    PROVE  BackedInv'
<1>0. Coord(t) \in Cluster /\ Part(t) \in Cluster
    BY TransferFields
<1>1. CASE OnPrepare(t)
    <2>1. ASSUME NEW o \in Outcome, net' = [Received(PrepareMsg(t)) EXCEPT
                                              ![ReplyMsg(t, o, "coord")] = @ + 1]
          PROVE  MessagesFlow
        <3> DEFINE n == [Received(PrepareMsg(t)) EXCEPT ![ReplyMsg(t, o, "coord")] = @ + 1]
        <3>1. PrepareMsg(t) \in Message /\ ReplyMsg(t, o, "coord") \in Message
            BY MessageTypes
        <3>2. ASSUME NEW m \in Message, m # ReplyMsg(t, o, "coord"), n[m] > 0
              PROVE  net[m] > 0
            <4>1. n[m] = Received(PrepareMsg(t))[m] /\ net[m] \in Nat
                BY <3>1, <3>2 DEF TypeOK, Received
            <4>2. Received(PrepareMsg(t))[m] = IF m = PrepareMsg(t) THEN net[m] - 1 ELSE net[m]
                BY <3>1 DEF TypeOK, Received
            <4> HIDE DEF n
            <4>3. QED
                BY <3>2, <4>1, <4>2
        <3> HIDE DEF n
        <3>3. QED
            BY <2>1, <3>2, NothingToBack DEF MessagesFlow, n
    <2>2. MessagesFlow
        <3>1. CASE HasWAL(Part(t), t) \/ PrepareRecords(t) # {}
            <4> DEFINE o == IF HasWAL(Part(t), t) THEN "commit" ELSE PrepareOutcome(t)
            <4>1. o \in Outcome
                BY DEF Outcome, PrepareOutcome
            <4>2. net' = [Received(PrepareMsg(t)) EXCEPT ![ReplyMsg(t, o, "coord")] = @ + 1]
                BY <1>1, <3>1 DEF OnPrepare
            <4> HIDE DEF o
            <4>3. QED
                BY <2>1, <4>1, <4>2
        <3>2. CASE ~(HasWAL(Part(t), t) \/ PrepareRecords(t) # {})
            BY <1>1, <3>2, MessageTypes, MessageFlows DEF OnPrepare
        <3>3. QED
            BY <3>1, <3>2
    <2>3. QED
        BY <1>1, <2>2, QuietStep DEF OnPrepare, storeVars, engineVars
<1>2. ASSUME NEW o \in Outcome, OnStaleReply(t, o)
      PROVE  BackedInv'
    <2>1. MessagesFlow
        BY <1>2, MessageTypes, MessageFlows DEF OnStaleReply
    <2>2. QED
        BY <1>2, <2>1, QuietStep DEF OnStaleReply, storeVars, engineVars
<1>3. ASSUME NEW o \in Outcome, OnReply(t, o)
      PROVE  BackedInv'
    <2>1. MessagesFlow /\ UNCHANGED <<clientQueue, starting, inflight, datastore>>
        BY <1>3, MessageTypes, MessageFlows DEF OnReply, storeVars
    <2>2. o = "commit" => Recorded(Part(t), Op("PART_PREPARE_COMMIT", t))'
        <3>1. Reports(ReplyMsg(t, o, "part"))
            BY <1>3, MessageTypes DEF OnReply, BackedInv
        <3>2. QED
            BY <2>1, <3>1 DEF Reports, ReplyMsg, Recorded
    <2>3. \A e \in OpsOf(DecisionsFor(t, o)) : Backed(e)'
        <3>1. Backed(Op("COORD_ABORT", t))'
            BY NothingToBack
        <3>2. Backed(Op(CoordOpFor(o), t))'
            <4>1. CASE o = "commit"
                BY <2>2, <4>1 DEF Backed, Op, CoordOpFor
            <4>2. CASE o # "commit"
                BY <3>1, <4>2 DEF CoordOpFor
            <4>3. QED
                BY <4>1, <4>2
        <3>3. DecisionsFor(t, o) \in
                  {<<Op(CoordOpFor(o), t)>>, <<Op("COORD_ABORT", t)>>, <<>>}
            BY DEF DecisionsFor
        <3>4. QED
            BY <3>1, <3>2, <3>3, OpsOfSmall
    <2>4. internalQueue[Coord(t)] \in Seq(Operation)
        BY <1>0 DEF TypeOK
    <2>5. OpsOf(internalQueue[Coord(t)] \o DecisionsFor(t, o)) \subseteq
              OpsOf(internalQueue[Coord(t)]) \cup OpsOf(DecisionsFor(t, o))
        BY <2>4, DecisionTypes, OpsOfConcat
    <2>6. \A d \in Cluster : OpsOf(internalQueue'[d]) \subseteq
              OpsOf(internalQueue[d]) \cup OpsOf(DecisionsFor(t, o))
        BY <1>3, <2>5 DEF OnReply, TypeOK
    <2>7. Flows(internalQueue)
        BY <2>3, <2>6, UnderwayMembers DEF Flows
    <2>8. QED
        BY <2>1, <2>7, FlowsUnchanged, BackedStep
<1>4. ASSUME NEW o \in Outcome, OnDecision(t, o)
      PROVE  BackedInv'
    <2>1. MessagesFlow /\ UNCHANGED <<clientQueue, starting, inflight, datastore>>
        BY <1>4, MessageTypes, MessageFlows DEF OnDecision, storeVars
    <2>2. Recorded(Coord(t), Op(CoordOpFor(o), t))'
        <3>1. Reports(DecisionMsg(t, o))
            BY <1>4, MessageTypes DEF OnDecision, BackedInv
        <3>2. QED
            BY <2>1, <3>1 DEF Reports, DecisionMsg, Recorded
    <2>3. Backed(Op(PartOpFor(o), t))'
        BY <2>2 DEF Backed, Op, PartOpFor, CoordOpFor, Outcome
    <2>4. Flows(internalQueue)
        BY <1>0, <1>4, <2>3, OperationTypes, EnqueuedFlows, FlowsUnchanged DEF OnDecision
    <2>5. QED
        BY <2>1, <2>4, FlowsUnchanged, BackedStep
<1>5. CASE OnAck(t)
    <2>1. MessagesFlow
        BY <1>5, MessageTypes, MessageFlows DEF OnAck
    <2>2. QED
        BY <1>5, <2>1, QuietStep DEF OnAck, storeVars, engineVars
<1>6. QED
    BY <1>1, <1>2, <1>3, <1>4, <1>5 DEF Receive

LEMMA BackedRetries ==
    ASSUME TypeOK, TypeOK', BackedInv, NEW t \in Transfer
    PROVE  /\ DecidePrepare(t) => BackedInv'
           /\ ResendPrepare(t) => BackedInv'
           /\ PrepareTimesOut(t) => BackedInv'
           /\ RetryAbort(t) => BackedInv'
           /\ EndWatch(t) => BackedInv'
           /\ \A o \in Outcome : ResendDecision(t, o) => BackedInv'
<1>0. Coord(t) \in Cluster /\ Part(t) \in Cluster
    BY TransferFields
<1>1. ASSUME DecidePrepare(t) PROVE BackedInv'
    <2>1. PICK v \in {"PART_PREPARE_COMMIT", "PART_PREPARE_ABORT"} : v = PrepareVote(t)
        BY DEF PrepareVote
    <2>2. Op(v, t) \in Operation /\ Backed(Op(v, t))'
        BY OperationTypes, NothingToBack DEF PartOp, PrepareOp
    <2>3. Flows(internalQueue)
        BY <1>0, <1>1, <2>1, <2>2, EnqueuedFlows DEF DecidePrepare
    <2>4. QED
        BY <1>1, <2>3, FlowsUnchanged, BackedStep DEF DecidePrepare, storeVars
<1>2. ASSUME ResendPrepare(t) PROVE BackedInv'
    <2>1. MessagesFlow
        BY <1>2, MessageTypes, MessageFlows, NothingToBack DEF ResendPrepare
    <2>2. QED
        BY <1>2, <2>1, QuietStep DEF ResendPrepare, storeVars, engineVars
<1>3. ASSUME PrepareTimesOut(t) \/ EndWatch(t) PROVE BackedInv'
    BY <1>3, QuietStep, FlowsUnchanged DEF PrepareTimesOut, EndWatch, storeVars, engineVars
<1>4. ASSUME RetryAbort(t) PROVE BackedInv'
    <2>1. Op("COORD_ABORT", t) \in Operation /\ Backed(Op("COORD_ABORT", t))'
        BY OperationTypes, NothingToBack DEF CoordOp
    <2>2. Flows(internalQueue)
        BY <1>0, <1>4, <2>1, EnqueuedFlows DEF RetryAbort
    <2>3. QED
        BY <1>4, <2>2, FlowsUnchanged, BackedStep DEF RetryAbort, storeVars
<1>5. ASSUME NEW o \in Outcome, ResendDecision(t, o) PROVE BackedInv'
    <2>1. UNCHANGED <<clientQueue, internalQueue, starting, inflight, datastore>>
        BY <1>5 DEF ResendDecision, storeVars, engineVars
    <2>2. Reports(DecisionMsg(t, o))'
        BY <1>5, <2>1 DEF ResendDecision, Reports, DecisionMsg, Recorded
    <2>3. MessagesFlow
        BY <1>5, <2>2, MessageTypes, MessageFlows DEF ResendDecision
    <2>4. QED
        BY <2>1, <2>3, QuietStep
<1>6. QED
    BY <1>1, <1>2, <1>3, <1>4, <1>5

LEMMA BackedNext == TypeOK /\ TypeOK' /\ BackedInv /\ [Next]_vars => BackedInv'
<1> SUFFICES ASSUME TypeOK, TypeOK', BackedInv, [Next]_vars PROVE BackedInv'
    OBVIOUS
<1>1. ASSUME NEW t \in Transfer, NEW k \in Handler, Submit(t, k) \/ ClientHandler(t, k)
      PROVE  BackedInv'
    BY <1>1, BackedClients
<1>2. ASSUME NEW c \in Cluster, Ingress(c) \/ Reclaim(c)
      PROVE  BackedInv'
    BY <1>2, BackedIngress, BackedReclaim
<1>3. ASSUME NEW t \in Transfer, Execute(t) \/ Receive(t)
      PROVE  BackedInv'
    BY <1>3, BackedExecute, BackedReceive
<1>4. CASE UNCHANGED vars
    BY <1>4, QuietStep, FlowsUnchanged DEF vars, storeVars, engineVars
<1>5. QED
    BY <1>1, <1>2, <1>3, <1>4, BackedRetries DEF Next

-----------------------------------------------------------------------------
LEMMA BackedInit == Init => BackedInv
BY OpsOfSmall DEF Init, BackedInv, Underway

LEMMA BackedImpliesOutcomes == BackedInv => OutcomesAreBacked
<1> SUFFICES ASSUME BackedInv, NEW t \in Transfer, NEW o \in Outcome
             PROVE  /\ Recorded(Coord(t), Op("COORD_COMMIT", t)) =>
                           Recorded(Part(t), Op("PART_PREPARE_COMMIT", t))
                    /\ Recorded(Part(t), Op(PartOpFor(o), t)) =>
                           Recorded(Coord(t), Op(CoordOpFor(o), t))
    BY DEF OutcomesAreBacked, Outcome
<1>1. ASSUME NEW c \in Cluster, NEW e, Recorded(c, e)
      PROVE  Backed(e)
    BY <1>1, RecordedIsMember, UnderwayMembers DEF BackedInv
<1>2. ASSUME Recorded(Coord(t), Op("COORD_COMMIT", t))
      PROVE  Recorded(Part(t), Op("PART_PREPARE_COMMIT", t))
    <2>1. Backed(Op("COORD_COMMIT", t))
        BY <1>1, <1>2, TransferFields
    <2>2. QED
        BY <2>1 DEF Backed, Op
<1>3. ASSUME Recorded(Part(t), Op(PartOpFor(o), t))
      PROVE  Recorded(Coord(t), Op(CoordOpFor(o), t))
    <2>1. Backed(Op(PartOpFor(o), t))
        BY <1>1, <1>3, TransferFields
    <2>2. QED
        BY <2>1 DEF Backed, Op, PartOpFor, CoordOpFor, Outcome
<1>4. QED
    BY <1>2, <1>3

\* A COORD_COMMIT is recorded only after the participant cluster recorded its
\* agreement, a PART_COMMIT or PART_ABORT only after the same decision of the
\* coordinator cluster, for every number of retries, resubmissions, reclaims
\* and timeouts (maybeStartFinalCommit, HandleCommit).
THEOREM Outcomes == Spec => []OutcomesAreBacked
<1>1. Init => TypeOK /\ BackedInv
    BY TypeInit, BackedInit
<1>2. TypeOK /\ BackedInv /\ [Next]_vars => TypeOK' /\ BackedInv'
    BY TypeStep, BackedNext
<1>3. BackedInv => OutcomesAreBacked
    BY BackedImpliesOutcomes
<1>4. QED
    BY <1>1, <1>2, <1>3, PTL DEF Spec

-----------------------------------------------------------------------------
(***************************************************************************)
(* The locks of the two-phase commit.  First the cross-shard slot of a     *)
(* coordinator cluster; then, where retries find no copy of themselves and *)
(* the prepare phase does not time out, what a prepared transfer keeps     *)
(* locked, how often it is debited and decided.                            *)
(***************************************************************************)

-----------------------------------------------------------------------------
(***************************************************************************)
(* How often operations occur in a queue.                                  *)
(***************************************************************************)
Positions(s, E) == {i \in DOMAIN s : s[i] \in E}
Copies(s, E) == Cardinality(Positions(s, E))

LEMMA CopiesType ==
    ASSUME NEW S, NEW s \in Seq(S), NEW E
    PROVE  /\ IsFiniteSet(Positions(s, E))
           /\ Copies(s, E) \in Nat
           /\ Copies(s, E) = 0 <=> \A e \in OpsOf(s) : e \notin E
<1>1. DOMAIN s = 1 .. Len(s) /\ Len(s) \in Nat
    OBVIOUS
<1>2. IsFiniteSet(1 .. Len(s))
    BY <1>1, FS_Interval
<1>3. IsFiniteSet(Positions(s, E))
    BY <1>1, <1>2, FS_Subset DEF Positions
<1>4. Copies(s, E) \in Nat
    BY <1>3, FS_CardinalityType DEF Copies
<1>5. Copies(s, E) = 0 <=> Positions(s, E) = {}
    BY <1>3, FS_EmptySet DEF Copies
<1>6. Positions(s, E) = {} <=> \A e \in OpsOf(s) : e \notin E
    BY DEF Positions, OpsOf
<1>7. QED
    BY <1>3, <1>4, <1>5, <1>6

LEMMA CopiesConcat ==
    ASSUME NEW S, NEW s \in Seq(S), NEW r \in Seq(S), NEW E
    PROVE  Copies(s \o r, E) = Copies(s, E) + Copies(r, E)
<1> DEFINE m == Len(s)
           A == Positions(s, E)
           B == Positions(r, E)
           C == {i \in m + 1 .. m + Len(r) : r[i - m] \in E}
<1>1. /\ s \o r \in Seq(S) /\ Len(s \o r) = m + Len(r)
      /\ \A i \in 1 .. m + Len(r) : (s \o r)[i] = IF i <= m THEN s[i] ELSE r[i - m]
    BY ConcatProperties
<1>2. /\ DOMAIN (s \o r) = 1 .. m + Len(r)
      /\ DOMAIN s = 1 .. m /\ DOMAIN r = 1 .. Len(r)
      /\ m \in Nat /\ Len(r) \in Nat
    BY <1>1
<1>3. Positions(s \o r, E) = A \cup C
    BY <1>1, <1>2 DEF Positions
<1>4. A \cap C = {}
    BY <1>2 DEF Positions
<1>5. IsFiniteSet(A) /\ IsFiniteSet(B)
    BY CopiesType
<1>6. IsFiniteSet(C) /\ Cardinality(C) = Cardinality(B)
    <2> DEFINE f == [i \in B |-> i + m]
    <2>1. f \in Bijection(B, C)
        <3>1. B \subseteq 1 .. Len(r)
            BY <1>2 DEF Positions
        <3>2. \A i \in B : i + m \in C /\ (i + m) - m = i
            BY <1>2, <3>1 DEF Positions
        <3>3. \A j \in C : j - m \in B /\ (j - m) + m = j
            BY <1>2 DEF Positions
        <3>4. f \in [B -> C]
            BY <3>2
        <3>5. \A i, j \in B : f[i] = f[j] => i = j
            BY <3>1, <1>2
        <3>6. \A j \in C : \E i \in B : f[i] = j
            BY <3>3
        <3> HIDE DEF f, B, C
        <3>7. QED
            BY <3>4, <3>5, <3>6 DEF Bijection, Injection, Surjection, IsInjective
    <2>2. ExistsBijection(B, C)
        BY <2>1 DEF ExistsBijection
    <2>3. QED
        BY <1>5, <2>2, FS_Bijection
<1>7. Cardinality(A \cup C) = Cardinality(A) + Cardinality(C) - Cardinality(A \cap C)
    BY <1>5, <1>6, FS_Union
<1>8. Cardinality(A \cap C) = 0
    BY <1>4, FS_EmptySet
<1>9. Cardinality(A) \in Nat /\ Cardinality(C) \in Nat
    BY <1>5, <1>6, FS_CardinalityType
<1>10. QED
    BY <1>3, <1>6, <1>7, <1>8, <1>9 DEF Copies

LEMMA CopiesSmall ==
    ASSUME NEW E
    PROVE  /\ Copies(<<>>, E) = 0
           /\ \A e : Copies(<<e>>, E) = IF e \in E THEN 1 ELSE 0
<1>1. Positions(<<>>, E) = {}
    BY DEF Positions
<1>2. ASSUME NEW e PROVE Positions(<<e>>, E) = IF e \in E THEN {1} ELSE {}
    BY DEF Positions
<1>3. QED
    BY <1>1, <1>2, FS_EmptySet, FS_Singleton DEF Copies

LEMMA CopiesAppend ==
    ASSUME NEW S, NEW s \in Seq(S), NEW e \in S, NEW E
    PROVE  Copies(Append(s, e), E) = Copies(s, E) + IF e \in E THEN 1 ELSE 0
<1>1. Append(s, e) = s \o <<e>> /\ <<e>> \in Seq(S)
    BY AppendIsConcat
<1>2. Copies(s \o <<e>>, E) = Copies(s, E) + Copies(<<e>>, E)
    BY <1>1, CopiesConcat
<1>3. Copies(<<e>>, E) = IF e \in E THEN 1 ELSE 0
    BY CopiesSmall
<1>4. QED
    BY <1>1, <1>2, <1>3

LEMMA CopiesTail ==
    ASSUME NEW S, NEW s \in Seq(S), s # <<>>, NEW E
    PROVE  Copies(s, E) = Copies(Tail(s), E) + IF Head(s) \in E THEN 1 ELSE 0
<1>1. Head(s) \in S /\ Tail(s) \in Seq(S) /\ <<Head(s)>> \in Seq(S)
    BY HeadTailProperties
<1>2. s = <<Head(s)>> \o Tail(s)
    <2>1. /\ Len(Tail(s)) = Len(s) - 1 /\ Head(s) = s[1] /\ Len(s) \in Nat \ {0}
          /\ \A i \in 1 .. Len(s) - 1 : Tail(s)[i] = s[i + 1]
        BY HeadTailProperties, EmptySeq
    <2>2. /\ <<Head(s)>> \o Tail(s) \in Seq(S)
          /\ Len(<<Head(s)>> \o Tail(s)) = 1 + Len(Tail(s))
          /\ \A i \in 1 .. 1 + Len(Tail(s)) : (<<Head(s)>> \o Tail(s))[i] =
                 IF i <= 1 THEN <<Head(s)>>[i] ELSE Tail(s)[i - 1]
        BY <1>1, ConcatProperties, Len(<<Head(s)>>) = 1
    <2>3. ASSUME NEW i \in 1 .. Len(s)
          PROVE  s[i] = (<<Head(s)>> \o Tail(s))[i]
        <3>1. CASE i = 1
            BY <2>1, <2>2, <3>1
        <3>2. CASE i # 1
            <4>1. i - 1 \in 1 .. Len(s) - 1 /\ (i - 1) + 1 = i /\ ~(i <= 1)
                BY <2>1, <3>2
            <4>2. Tail(s)[i - 1] = s[i]
                BY <2>1, <4>1
            <4>3. QED
                BY <2>1, <2>2, <4>1, <4>2
        <3>3. QED
            BY <3>1, <3>2
    <2>4. Len(s) = Len(<<Head(s)>> \o Tail(s))
        BY <2>1, <2>2
    <2>5. QED
        BY <2>2, <2>3, <2>4, SeqEqual
<1>3. Copies(Tail(s), E) \in Nat
    BY <1>1, CopiesType
<1>4. Copies(<<Head(s)>>, E) = IF Head(s) \in E THEN 1 ELSE 0
    BY CopiesSmall
<1> DEFINE first == <<Head(s)>>
           rest  == Tail(s)
<1>5. s = first \o rest /\ first \in Seq(S) /\ rest \in Seq(S)
    BY <1>1, <1>2
<1>6. Copies(first, E) = IF Head(s) \in E THEN 1 ELSE 0
    BY <1>4
<1>7. Copies(rest, E) \in Nat
    BY <1>3
<1>8. SUFFICES Copies(s, E) = Copies(rest, E) + IF Head(s) \in E THEN 1 ELSE 0
    OBVIOUS
<1> HIDE DEF first, rest
<1>9. Copies(s, E) = Copies(first, E) + Copies(rest, E)
    BY <1>5, CopiesConcat
<1>10. QED
    BY <1>6, <1>7, <1>9

LEMMA CopiesRemoveAt ==
    ASSUME NEW S, NEW s \in Seq(S), NEW i \in DOMAIN s, NEW E
    PROVE  Copies(s, E) = Copies(RemoveAt(s, i), E) + IF s[i] \in E THEN 1 ELSE 0
<1> DEFINE front == SubSeq(s, 1, i - 1)
           mid   == SubSeq(s, 1, i)
           back  == SubSeq(s, i + 1, Len(s))
<1>1. i \in 1 .. Len(s) /\ Len(s) \in Nat /\ s[i] \in S
    OBVIOUS
<1>2. front \in Seq(S) /\ mid \in Seq(S) /\ back \in Seq(S)
    BY <1>1
<1>3. RemoveAt(s, i) = front \o back
    BY DEF RemoveAt
<1>4. mid = front \o <<s[i]>>
    <2>1. 1 \in 1 .. Len(s) /\ i \in 1 .. Len(s)
        BY <1>1
    <2>2. QED
        BY <2>1, SubSeqRecursiveSecond
<1>5. s = mid \o back
    <2>1. 1 \in 1 .. Len(s) + 1 /\ i \in 1 - 1 .. Len(s) /\ Len(s) \in i .. Len(s)
        BY <1>1
    <2>2. mid \o back = SubSeq(s, 1, Len(s))
        BY <2>1, ConcatAdjacentSubSeq
    <2>3. QED
        BY <2>2, SubSeqFull
<1> HIDE DEF front, mid, back
<1>6. /\ Copies(s, E) = Copies(mid, E) + Copies(back, E)
      /\ Copies(mid, E) = Copies(front, E) + Copies(<<s[i]>>, E)
      /\ Copies(RemoveAt(s, i), E) = Copies(front, E) + Copies(back, E)
    <2>1. <<s[i]>> \in Seq(S)
        BY <1>1
    <2>2. Copies(mid \o back, E) = Copies(mid, E) + Copies(back, E)
        BY <1>2, CopiesConcat
    <2>3. Copies(front \o <<s[i]>>, E) = Copies(front, E) + Copies(<<s[i]>>, E)
        BY <1>2, <2>1, CopiesConcat
    <2>4. Copies(front \o back, E) = Copies(front, E) + Copies(back, E)
        BY <1>2, CopiesConcat
    <2>5. QED
        BY <1>3, <1>4, <1>5, <2>2, <2>3, <2>4
<1>7. Copies(front, E) \in Nat /\ Copies(back, E) \in Nat
    BY <1>2, CopiesType
<1>8. Copies(<<s[i]>>, E) = IF s[i] \in E THEN 1 ELSE 0
    BY CopiesSmall
<1>9. QED
    BY <1>6, <1>7, <1>8

-----------------------------------------------------------------------------
(***************************************************************************)
(* Copies of operations that a cluster has yet to execute, and how every   *)
(* action moves, adds or removes them.                                     *)
(***************************************************************************)
Live(c, E) == Copies(clientQueue[c], E) + Copies(internalQueue[c], E)
                + Copies(starting[c], E) + Copies(inflight[c], E)

One(b) == IF b THEN 1 ELSE 0

\* What steps do to the queues of cluster c: e comes through the client
\* channel; s comes through the internal one; e leaves startConsensus, and f
\* (itself or a hole) is in flight; e leaves it for good; the i-th operation
\* in flight is reclaimed.
Submits(c, e) ==
    /\ clientQueue' = [clientQueue EXCEPT ![c] = Append(@, e)]
    /\ UNCHANGED <<internalQueue, starting, inflight>>

Enqueues(c, s) ==
    /\ internalQueue' = [internalQueue EXCEPT ![c] = @ \o s]
    /\ UNCHANGED <<clientQueue, starting, inflight>>

Proposes(c, e, f) ==
    /\ starting[c] = <<e>>
    /\ starting' = [starting EXCEPT ![c] = <<>>]
    /\ inflight' = [inflight EXCEPT ![c] = Append(@, f)]
    /\ UNCHANGED <<clientQueue, internalQueue>>

Refuses(c, e) ==
    /\ starting[c] = <<e>>
    /\ starting' = [starting EXCEPT ![c] = <<>>]
    /\ UNCHANGED <<clientQueue, internalQueue, inflight>>

Reclaims(c, i) ==
    /\ inflight' = [inflight EXCEPT ![c] = RemoveAt(@, i)]
    /\ UNCHANGED <<clientQueue, internalQueue, starting>>

LEMMA LiveType ==
    ASSUME TypeOK, NEW c \in Cluster, NEW E
    PROVE  /\ Copies(clientQueue[c], E) \in Nat /\ Copies(internalQueue[c], E) \in Nat
           /\ Copies(starting[c], E) \in Nat /\ Copies(inflight[c], E) \in Nat
           /\ Live(c, E) \in Nat
           /\ Live(c, E) = 0 <=>
                  \A e \in E : e \notin OpsOf(clientQueue[c]) \cup OpsOf(internalQueue[c])
                                          \cup OpsOf(starting[c]) \cup OpsOf(inflight[c])
<1>1. /\ clientQueue[c] \in Seq(Operation) /\ internalQueue[c] \in Seq(Operation)
      /\ starting[c] \in Seq(Operation) /\ inflight[c] \in Seq(Operation)
    BY DEF TypeOK
<1>2. ASSUME NEW s \in Seq(Operation)
      PROVE  Copies(s, E) \in Nat /\ (Copies(s, E) = 0 <=> \A e \in OpsOf(s) : e \notin E)
    BY CopiesType
<1>3. /\ Copies(clientQueue[c], E) \in Nat /\ Copies(internalQueue[c], E) \in Nat
      /\ Copies(starting[c], E) \in Nat /\ Copies(inflight[c], E) \in Nat
    BY <1>1, <1>2
<1>4. Live(c, E) = 0 <=> /\ Copies(clientQueue[c], E) = 0 /\ Copies(internalQueue[c], E) = 0
                         /\ Copies(starting[c], E) = 0 /\ Copies(inflight[c], E) = 0
    BY <1>3 DEF Live
<1>5. /\ Copies(clientQueue[c], E) = 0 <=> \A e \in OpsOf(clientQueue[c]) : e \notin E
      /\ Copies(internalQueue[c], E) = 0 <=> \A e \in OpsOf(internalQueue[c]) : e \notin E
      /\ Copies(starting[c], E) = 0 <=> \A e \in OpsOf(starting[c]) : e \notin E
      /\ Copies(inflight[c], E) = 0 <=> \A e \in OpsOf(inflight[c]) : e \notin E
    BY <1>1, <1>2
<1>6. Live(c, E) \in Nat
    BY <1>3 DEF Live
<1>7. QED
    BY <1>3, <1>4, <1>5, <1>6

LEMMA LiveTypeNext ==
    ASSUME TypeOK', NEW c \in Cluster, NEW E
    PROVE  Live(c, E)' \in Nat
<1>1. /\ clientQueue'[c] \in Seq(Operation) /\ internalQueue'[c] \in Seq(Operation)
      /\ starting'[c] \in Seq(Operation) /\ inflight'[c] \in Seq(Operation)
    BY DEF TypeOK
<1>2. ASSUME NEW s \in Seq(Operation) PROVE Copies(s, E) \in Nat
    BY CopiesType
<1>3. /\ Copies(clientQueue'[c], E) \in Nat /\ Copies(internalQueue'[c], E) \in Nat
      /\ Copies(starting'[c], E) \in Nat /\ Copies(inflight'[c], E) \in Nat
    BY <1>1, <1>2
<1>4. QED
    BY <1>3 DEF Live

LEMMA LiveUnchanged ==
    ASSUME UNCHANGED <<clientQueue, internalQueue, starting, inflight>>, NEW c, NEW E
    PROVE  Live(c, E)' = Live(c, E)
BY DEF Live

LEMMA TakeMoves ==
    ASSUME TypeOK, NEW c \in Cluster, Take(c), NEW d \in Cluster, NEW E
    PROVE  Live(d, E)' = Live(d, E)
<1>0. /\ Copies(clientQueue[d], E) \in Nat /\ Copies(internalQueue[d], E) \in Nat
      /\ Copies(starting[d], E) \in Nat /\ Copies(inflight[d], E) \in Nat
    BY LiveType
<1>1. /\ starting[c] = <<>> /\ inflight' = inflight
      /\ clientQueue[c] \in Seq(Operation) /\ internalQueue[c] \in Seq(Operation)
    BY DEF TypeOK, Take
<1>2. CASE d # c
    BY <1>2, TypeOK DEF Live, Take, TypeOK
<1>3. CASE d = c
    <2>1. ASSUME NEW s \in Seq(Operation), s # <<>>
          PROVE  Copies(s, E) = Copies(Tail(s), E) + Copies(<<Head(s)>>, E)
        <3>1. Copies(s, E) = Copies(Tail(s), E) + One(Head(s) \in E)
            BY <2>1, CopiesTail DEF One
        <3>2. Copies(<<Head(s)>>, E) = One(Head(s) \in E)
            BY CopiesSmall DEF One
        <3>3. QED
            BY <3>1, <3>2
    <2>2. Copies(starting[c], E) = 0
        BY <1>1, CopiesSmall
    <2>3. ASSUME NEW s \in Seq(Operation), s # <<>>
          PROVE  Copies(Tail(s), E) \in Nat /\ Copies(<<Head(s)>>, E) \in Nat
        <3>1. Tail(s) \in Seq(Operation) /\ <<Head(s)>> \in Seq(Operation)
            BY <2>3, HeadTailProperties
        <3>2. QED
            BY <3>1, CopiesType
    <2>5. CASE /\ clientQueue[c] # <<>>
               /\ starting' = [starting EXCEPT ![c] = <<Head(clientQueue[c])>>]
               /\ clientQueue' = [clientQueue EXCEPT ![c] = Tail(@)]
               /\ UNCHANGED internalQueue
        <3>1. /\ Copies(clientQueue[c], E) = Copies(Tail(clientQueue[c]), E)
                                               + Copies(<<Head(clientQueue[c])>>, E)
              /\ Copies(Tail(clientQueue[c]), E) \in Nat
              /\ Copies(<<Head(clientQueue[c])>>, E) \in Nat
            BY <1>1, <2>1, <2>3, <2>5
        <3>2. starting'[c] = <<Head(clientQueue[c])>> /\ clientQueue'[c] = Tail(clientQueue[c])
            BY <2>5 DEF TypeOK
        <3>3. Live(c, E)' = Copies(Tail(clientQueue[c]), E) + Copies(internalQueue[c], E)
                              + Copies(<<Head(clientQueue[c])>>, E) + Copies(inflight[c], E)
            BY <1>1, <2>5, <3>2 DEF Live
        <3>4. Live(c, E) = Copies(clientQueue[c], E) + Copies(internalQueue[c], E)
                              + 0 + Copies(inflight[c], E)
            BY <2>2 DEF Live
        <3>5. QED
            BY <1>0, <1>3, <3>1, <3>3, <3>4
    <2>6. CASE /\ internalQueue[c] # <<>>
               /\ starting' = [starting EXCEPT ![c] = <<Head(internalQueue[c])>>]
               /\ internalQueue' = [internalQueue EXCEPT ![c] = Tail(@)]
               /\ UNCHANGED clientQueue
        <3>1. /\ Copies(internalQueue[c], E) = Copies(Tail(internalQueue[c]), E)
                                                 + Copies(<<Head(internalQueue[c])>>, E)
              /\ Copies(Tail(internalQueue[c]), E) \in Nat
              /\ Copies(<<Head(internalQueue[c])>>, E) \in Nat
            BY <1>1, <2>1, <2>3, <2>6
        <3>2. starting'[c] = <<Head(internalQueue[c])>>
                  /\ internalQueue'[c] = Tail(internalQueue[c])
            BY <2>6 DEF TypeOK
        <3>3. Live(c, E)' = Copies(clientQueue[c], E) + Copies(Tail(internalQueue[c]), E)
                              + Copies(<<Head(internalQueue[c])>>, E) + Copies(inflight[c], E)
            BY <1>1, <2>6, <3>2 DEF Live
        <3>4. Live(c, E) = Copies(clientQueue[c], E) + Copies(internalQueue[c], E)
                              + 0 + Copies(inflight[c], E)
            BY <2>2 DEF Live
        <3>5. QED
            BY <1>0, <1>3, <3>1, <3>3, <3>4
    <2>7. QED
        BY <2>5, <2>6 DEF Take
<1>4. QED
    BY <1>2, <1>3

LEMMA ProposalMoves ==
    ASSUME TypeOK, NEW c \in Cluster, NEW e \in Operation, NEW f \in Operation,
           Proposes(c, e, f), NEW d \in Cluster, NEW E
    PROVE  Live(d, E)' + One(d = c /\ e \in E) = Live(d, E) + One(d = c /\ f \in E)
<1> USE DEF Proposes
<1>0. /\ Copies(clientQueue[d], E) \in Nat /\ Copies(internalQueue[d], E) \in Nat
      /\ Copies(starting[d], E) \in Nat /\ Copies(inflight[d], E) \in Nat
    BY LiveType
<1>1. CASE d # c
    BY <1>0, <1>1 DEF Live, TypeOK, One
<1>2. CASE d = c
    <2>1. Copies(starting[c], E) = One(e \in E) /\ Copies(<<>>, E) = 0
        BY CopiesSmall DEF One
    <2>2. inflight[c] \in Seq(Operation)
        BY DEF TypeOK
    <2>3. Copies(Append(inflight[c], f), E) = Copies(inflight[c], E) + One(f \in E)
        BY <2>2, CopiesAppend DEF One
    <2>4. starting'[c] = <<>> /\ inflight'[c] = Append(inflight[c], f)
        BY DEF TypeOK
    <2>5. /\ Live(c, E)' = Copies(clientQueue[c], E) + Copies(internalQueue[c], E)
                              + 0 + (Copies(inflight[c], E) + One(f \in E))
          /\ Live(c, E) = Copies(clientQueue[c], E) + Copies(internalQueue[c], E)
                              + One(e \in E) + Copies(inflight[c], E)
        BY <2>1, <2>3, <2>4 DEF Live
    <2>6. QED
        BY <1>2, <2>5, <1>0 DEF One
<1>3. QED
    BY <1>1, <1>2

LEMMA RefusalMoves ==
    ASSUME TypeOK, NEW c \in Cluster, NEW e \in Operation,
           Refuses(c, e), NEW d \in Cluster, NEW E
    PROVE  Live(d, E) = Live(d, E)' + One(d = c /\ e \in E)
<1> USE DEF Refuses
<1>0. /\ Copies(clientQueue[d], E) \in Nat /\ Copies(internalQueue[d], E) \in Nat
      /\ Copies(starting[d], E) \in Nat /\ Copies(inflight[d], E) \in Nat
    BY LiveType
<1>1. CASE d # c
    BY <1>0, <1>1 DEF Live, TypeOK, One
<1>2. CASE d = c
    <2>1. Copies(starting[c], E) = One(e \in E) /\ Copies(<<>>, E) = 0
        BY CopiesSmall DEF One
    <2>2. starting'[c] = <<>>
        BY DEF TypeOK
    <2>3. QED
        BY <1>2, <2>1, <2>2, <1>0 DEF Live, One
<1>3. QED
    BY <1>1, <1>2

LEMMA ReclaimMoves ==
    ASSUME TypeOK, NEW c \in Cluster, NEW i \in DOMAIN inflight[c],
           Reclaims(c, i), NEW d \in Cluster, NEW E
    PROVE  Live(d, E) = Live(d, E)' + One(d = c /\ inflight[c][i] \in E)
<1> USE DEF Reclaims
<1>0. /\ Copies(clientQueue[d], E) \in Nat /\ Copies(internalQueue[d], E) \in Nat
      /\ Copies(starting[d], E) \in Nat /\ Copies(inflight[d], E) \in Nat
    BY LiveType
<1>1. CASE d # c
    BY <1>0, <1>1 DEF Live, TypeOK, One
<1>2. CASE d = c
    <2>1. inflight[c] \in Seq(Operation)
        BY DEF TypeOK
    <2>2. Copies(inflight[c], E) = Copies(RemoveAt(inflight[c], i), E)
                                       + One(inflight[c][i] \in E)
        BY <2>1, CopiesRemoveAt DEF One
    <2>3. Copies(RemoveAt(inflight[c], i), E) \in Nat
        BY <2>1, RemoveAtTypes, CopiesType
    <2>4. inflight'[c] = RemoveAt(inflight[c], i)
        BY DEF TypeOK
    <2>5. QED
        BY <1>2, <2>2, <2>3, <2>4, <1>0 DEF Live, One
<1>3. QED
    BY <1>1, <1>2

LEMMA ExecutionMoves ==
    ASSUME TypeOK, NEW c \in Cluster, NEW e, ExecutesNext(c, e), NEW d \in Cluster, NEW E
    PROVE  Live(d, E) = Live(d, E)' + One(d = c /\ e \in E)
<1>0. /\ Copies(clientQueue[d], E) \in Nat /\ Copies(internalQueue[d], E) \in Nat
      /\ Copies(starting[d], E) \in Nat /\ Copies(inflight[d], E) \in Nat
    BY LiveType
<1>1. CASE d # c
    BY <1>0, <1>1 DEF Live, TypeOK, One, ExecutesNext
<1>2. CASE d = c
    <2>1. inflight[c] \in Seq(Operation) /\ inflight[c] # <<>> /\ e = Head(inflight[c])
        BY DEF TypeOK, ExecutesNext
    <2>2. Copies(inflight[c], E) = Copies(Tail(inflight[c]), E) + One(e \in E)
        BY <2>1, CopiesTail DEF One
    <2>3. Tail(inflight[c]) \in Seq(Operation)
        BY <2>1, HeadTailProperties
    <2>4. Copies(Tail(inflight[c]), E) \in Nat
        BY <2>3, CopiesType
    <2>5. /\ inflight'[c] = Tail(inflight[c])
          /\ UNCHANGED <<clientQueue, internalQueue, starting>>
        BY DEF TypeOK, ExecutesNext
    <2>6. QED
        BY <1>2, <2>2, <2>4, <2>5, <1>0 DEF Live, One
<1>3. QED
    BY <1>1, <1>2

LEMMA EnqueuedMoves ==
    ASSUME TypeOK, NEW c \in Cluster, NEW s \in Seq(Operation),
           Enqueues(c, s), NEW d \in Cluster, NEW E
    PROVE  Live(d, E)' = Live(d, E) + IF d = c THEN Copies(s, E) ELSE 0
<1> USE DEF Enqueues
<1>0. /\ Copies(clientQueue[d], E) \in Nat /\ Copies(internalQueue[d], E) \in Nat
      /\ Copies(starting[d], E) \in Nat /\ Copies(inflight[d], E) \in Nat
    BY LiveType
<1>1. CASE d # c
    BY <1>0, <1>1 DEF Live, TypeOK
<1>2. CASE d = c
    <2>1. internalQueue[c] \in Seq(Operation)
        BY DEF TypeOK
    <2>2. Copies(internalQueue[c] \o s, E) = Copies(internalQueue[c], E) + Copies(s, E)
        BY <2>1, CopiesConcat
    <2>3. internalQueue'[c] = internalQueue[c] \o s /\ Copies(s, E) \in Nat
        BY CopiesType DEF TypeOK
    <2>4. /\ Live(c, E)' = Copies(clientQueue[c], E)
                + (Copies(internalQueue[c], E) + Copies(s, E))
                + Copies(starting[c], E) + Copies(inflight[c], E)
          /\ Live(c, E) = Copies(clientQueue[c], E) + Copies(internalQueue[c], E)
                + Copies(starting[c], E) + Copies(inflight[c], E)
        BY <2>2, <2>3 DEF Live
    <2>5. QED
        BY <1>0, <1>2, <2>3, <2>4
<1>3. QED
    BY <1>1, <1>2

LEMMA EnqueueMoves ==
    ASSUME TypeOK, NEW c \in Cluster, NEW e \in Operation,
           Enqueues(c, <<e>>), NEW d \in Cluster, NEW E
    PROVE  Live(d, E)' = Live(d, E) + One(d = c /\ e \in E)
<1>1. <<e>> \in Seq(Operation)
    OBVIOUS
<1>2. Live(d, E)' = Live(d, E) + IF d = c THEN Copies(<<e>>, E) ELSE 0
    BY <1>1, EnqueuedMoves
<1>3. Copies(<<e>>, E) = One(e \in E)
    BY CopiesSmall DEF One
<1>4. QED
    BY <1>2, <1>3, LiveType DEF One

LEMMA SubmissionMoves ==
    ASSUME TypeOK, NEW c \in Cluster, NEW e \in Operation,
           Submits(c, e), NEW d \in Cluster, NEW E
    PROVE  Live(d, E)' = Live(d, E) + One(d = c /\ e \in E)
<1> USE DEF Submits
<1>0. /\ Copies(clientQueue[d], E) \in Nat /\ Copies(internalQueue[d], E) \in Nat
      /\ Copies(starting[d], E) \in Nat /\ Copies(inflight[d], E) \in Nat
    BY LiveType
<1>1. CASE d # c
    BY <1>0, <1>1 DEF Live, TypeOK, One
<1>2. CASE d = c
    <2>1. clientQueue[c] \in Seq(Operation)
        BY DEF TypeOK
    <2>2. Copies(Append(clientQueue[c], e), E) = Copies(clientQueue[c], E) + One(e \in E)
        BY <2>1, CopiesAppend DEF One
    <2>3. clientQueue'[c] = Append(clientQueue[c], e)
        BY DEF TypeOK
    <2>4. QED
        BY <1>2, <2>2, <2>3, <1>0 DEF Live, One
<1>3. QED
    BY <1>1, <1>2

-----------------------------------------------------------------------------
(***************************************************************************)
(* Operations are at home: those of the coordinator role at the cluster of *)
(* x, those of the participant role at the cluster of y; COORD_PREPAREs,   *)
(* and nothing else, come through the client channel.                      *)
(***************************************************************************)
HomeOf(e) == IF e.op \in CoordOp THEN Coord(e.txn) ELSE Part(e.txn)

HomeInv ==
    /\ \A c \in Cluster : \A e \in OpsOf(clientQueue[c]) : e.op = "COORD_PREPARE"
    /\ \A c \in Cluster : \A e \in OpsOf(internalQueue[c]) : e.op # "COORD_PREPARE"
    /\ \A c \in Cluster, e \in Operation : Live(c, {e}) > 0 => c = HomeOf(e)

LEMMA OperationNames ==
    ASSUME NEW t \in Transfer
    PROVE  /\ \A op : Op(op, t).op = op /\ Op(op, t).txn = t
           /\ \A op \in CoordOp : HomeOf(Op(op, t)) = Coord(t)
           /\ \A op \in PartOp \cup {"HOLE"} : HomeOf(Op(op, t)) = Part(t)
           /\ \A o \in Outcome : CoordOpFor(o) \in CoordOp /\ PartOpFor(o) \in PartOp
           /\ \A o \in Outcome : CoordOpFor(o) # "COORD_PREPARE"
           /\ Coord(t) # Part(t)
<1>1. \A op : Op(op, t).op = op /\ Op(op, t).txn = t
    BY DEF Op
<1>2. QED
    BY <1>1, TransferAssumption
       DEF HomeOf, CoordOp, PartOp, Outcome, CoordOpFor, PartOpFor, Coord, Part

LEMMA OneOrNone ==
    ASSUME NEW b \in BOOLEAN
    PROVE  One(b) \in {0, 1} /\ (One(b) = 1 <=> b) /\ (One(b) = 0 <=> ~b)
BY DEF One

LEMMA HomeQuiet ==
    ASSUME HomeInv, UNCHANGED <<clientQueue, internalQueue, starting, inflight>>
    PROVE  HomeInv'
BY LiveUnchanged DEF HomeInv

\* Nothing new comes in.
LEMMA HomeFewer ==
    ASSUME TypeOK, TypeOK', HomeInv, UNCHANGED <<clientQueue, internalQueue>>,
           \A d \in Cluster, e \in Operation :
               Live(d, {e})' > 0 => Live(d, {e}) > 0 \/ d = HomeOf(e)
    PROVE  HomeInv'
BY DEF HomeInv

LEMMA HomeEnqueued ==
    ASSUME TypeOK, TypeOK', HomeInv, NEW c \in Cluster, NEW s \in Seq(Operation),
           Enqueues(c, s),
           \A e \in OpsOf(s) : e.op # "COORD_PREPARE" /\ HomeOf(e) = c
    PROVE  HomeInv'
<1>1. internalQueue[c] \in Seq(Operation)
    BY DEF TypeOK
<1>2. OpsOf(internalQueue[c] \o s) \subseteq OpsOf(internalQueue[c]) \cup OpsOf(s)
    BY <1>1, OpsOfConcat
<1>3. ASSUME NEW d \in Cluster, NEW e \in OpsOf(internalQueue'[d])
      PROVE  e.op # "COORD_PREPARE"
    <2>1. e \in OpsOf(internalQueue[d]) \cup OpsOf(s)
        BY <1>2, <1>3 DEF TypeOK, Enqueues
    <2>2. QED
        BY <2>1 DEF HomeInv
<1>4. ASSUME NEW d \in Cluster, NEW e \in Operation, Live(d, {e})' > 0
      PROVE  d = HomeOf(e)
    <2>1. Live(d, {e})' = Live(d, {e}) + IF d = c THEN Copies(s, {e}) ELSE 0
        BY EnqueuedMoves
    <2>2. Live(d, {e}) \in Nat /\ Copies(s, {e}) \in Nat
        BY LiveType, CopiesType
    <2>3. Live(d, {e}) > 0 \/ (d = c /\ Copies(s, {e}) # 0)
        BY <1>4, <2>1, <2>2
    <2>4. Copies(s, {e}) # 0 => e \in OpsOf(s)
        BY CopiesType
    <2>5. QED
        BY <2>3, <2>4 DEF HomeInv
<1>5. QED
    BY <1>3, <1>4 DEF HomeInv, Enqueues

LEMMA EnqueuedIsConcat ==
    ASSUME TypeOK, NEW c \in Cluster, NEW e \in Operation,
           internalQueue' = Enqueued(c, e), UNCHANGED <<clientQueue, starting, inflight>>
    PROVE  /\ Enqueues(c, <<e>>)
           /\ <<e>> \in Seq(Operation) /\ OpsOf(<<e>>) = {e}
<1>1. internalQueue[c] \in Seq(Operation) /\ <<e>> \in Seq(Operation)
    BY DEF TypeOK
<1>2. Append(internalQueue[c], e) = internalQueue[c] \o <<e>>
    BY <1>1, AppendIsConcat
<1>3. QED
    BY <1>1, <1>2, OpsOfSmall DEF Enqueued, Enqueues

LEMMA HomeClients ==
    ASSUME TypeOK, TypeOK', HomeInv, NEW t \in Transfer, NEW k \in Handler,
           Submit(t, k) \/ ClientHandler(t, k)
    PROVE  HomeInv'
<1>1. CASE StartPrepare(t, k)
    <2> DEFINE e == Op("COORD_PREPARE", t)
    <2>1. e \in Operation /\ e.op = "COORD_PREPARE" /\ HomeOf(e) = Coord(t) /\ Coord(t) \in Cluster
        BY OperationTypes, OperationNames, TransferFields DEF CoordOp
    <2> HIDE DEF e
    <2>2. Submits(Coord(t), e)
        BY <1>1 DEF StartPrepare, e, Submits
    <2>3. clientQueue[Coord(t)] \in Seq(Operation)
        BY <2>1 DEF TypeOK
    <2>4. OpsOf(Append(clientQueue[Coord(t)], e)) = OpsOf(clientQueue[Coord(t)]) \cup {e}
        BY <2>1, <2>3, OpsOfAppend
    <2>5. \A d \in Cluster : OpsOf(clientQueue'[d]) \subseteq OpsOf(clientQueue[d]) \cup {e}
        BY <2>2, <2>4 DEF TypeOK, Submits
    <2>6. ASSUME NEW d \in Cluster, NEW f \in Operation, Live(d, {f})' > 0
          PROVE  d = HomeOf(f)
        <3>1. Live(d, {f})' = Live(d, {f}) + One(d = Coord(t) /\ e \in {f})
            BY <2>1, <2>2, SubmissionMoves DEF One
        <3>2. Live(d, {f}) \in Nat
            BY LiveType
        <3>3. Live(d, {f}) > 0 \/ (d = Coord(t) /\ e = f)
            BY <2>6, <3>1, <3>2 DEF One
        <3>4. QED
            BY <2>1, <3>3 DEF HomeInv
    <2>7. QED
        BY <2>1, <2>2, <2>5, <2>6 DEF HomeInv, Submits
<1>2. CASE Submit(t, k) \/ AcquireCrossSlot(t, k) \/ CrossSlotExpires(t, k)
               \/ DropClientRequest(t, k)
    <2>1. UNCHANGED <<clientQueue, internalQueue, starting, inflight>>
        BY <1>2 DEF Submit, AcquireCrossSlot, CrossSlotExpires, DropClientRequest, engineVars
    <2>2. QED
        BY <2>1, HomeQuiet
<1>3. QED
    BY <1>1, <1>2 DEF ClientHandler

LEMMA HomeIngress ==
    ASSUME TypeOK, TypeOK', HomeInv, NEW c \in Cluster, Ingress(c)
    PROVE  HomeInv'
<1>1. CASE Take(c)
    <2>1. \A d \in Cluster : /\ OpsOf(clientQueue'[d]) \subseteq OpsOf(clientQueue[d])
                             /\ OpsOf(internalQueue'[d]) \subseteq OpsOf(internalQueue[d])
        <3>1. ASSUME NEW q \in [Cluster -> Seq(Operation)], q[c] # <<>>, NEW d \in Cluster
              PROVE  OpsOf([q EXCEPT ![c] = Tail(@)][d]) \subseteq OpsOf(q[d])
            BY <3>1, OpsOfTail
        <3>2. clientQueue \in [Cluster -> Seq(Operation)] /\ internalQueue \in [Cluster -> Seq(Operation)]
            BY DEF TypeOK
        <3>3. QED
            BY <1>1, <3>1, <3>2 DEF Take
    <2>2. \A d \in Cluster, e \in Operation : Live(d, {e})' = Live(d, {e})
        BY <1>1, TakeMoves
    <2>3. QED
        BY <2>1, <2>2 DEF HomeInv
<1>2. ASSUME NEW e \in Operation, NEW f \in Operation, Proposes(c, e, f),
             f = e \/ (e.op = "PART_ABORT" /\ f = Op("HOLE", e.txn))
      PROVE  HomeInv'
    <2>1. HomeOf(f) = c
        <3>1. Live(c, {e}) > 0
            <4>1. OpsOf(starting[c]) = {e}
                BY <1>2, OpsOfSmall DEF Proposes
            <4>2. Live(c, {e}) # 0 /\ Live(c, {e}) \in Nat
                BY <4>1, LiveType
            <4>3. QED
                BY <4>2
        <3>2. HomeOf(e) = c
            BY <3>1 DEF HomeInv
        <3>3. QED
            BY <1>2, <3>2 DEF HomeOf, CoordOp, Op
    <2>2. ASSUME NEW d \in Cluster, NEW g \in Operation, Live(d, {g})' > 0
          PROVE  Live(d, {g}) > 0 \/ d = HomeOf(g)
        <3>1. Live(d, {g})' + One(d = c /\ e \in {g}) = Live(d, {g}) + One(d = c /\ f \in {g})
            BY <1>2, ProposalMoves DEF One
        <3>2. Live(d, {g}) \in Nat /\ Live(d, {g})' \in Nat
            BY LiveType, LiveTypeNext
        <3>3. Live(d, {g}) > 0 \/ (d = c /\ f = g)
            BY <2>2, <3>1, <3>2 DEF One
        <3>4. QED
            BY <2>1, <3>3
    <2>3. QED
        BY <1>2, <2>2, HomeFewer DEF Proposes
<1>3. CASE Propose(c)
    BY <1>2, <1>3 DEF Propose, Proposes
<1>4. CASE BurnSequence(c)
    <2>1. PICK e \in Operation : ~LocksHeld(e) /\ Proposes(c, e, Op("HOLE", e.txn))
        BY <1>4 DEF BurnSequence, Proposes
    <2>2. e.op = "PART_ABORT" /\ Op("HOLE", e.txn) \in Operation
        BY <2>1, OperationTypes, OperationFields DEF LocksHeld
    <2>3. QED
        BY <1>2, <2>1, <2>2
<1>5. CASE Refuse(c)
    <2>1. PICK e \in Operation : Refuses(c, e)
        BY <1>5 DEF Refuse, Refuses
    <2>2. ASSUME NEW d \in Cluster, NEW g \in Operation, Live(d, {g})' > 0
          PROVE  Live(d, {g}) > 0
        <3>1. Live(d, {g}) = Live(d, {g})' + One(d = c /\ e \in {g})
            BY <2>1, RefusalMoves DEF One
        <3>2. Live(d, {g})' \in Nat
            BY LiveType, LiveTypeNext
        <3>3. QED
            BY <2>2, <3>1, <3>2 DEF One
    <2>3. QED
        BY <2>1, <2>2, HomeFewer DEF Refuses
<1>6. QED
    BY <1>1, <1>3, <1>4, <1>5 DEF Ingress

LEMMA HomeReclaim ==
    ASSUME TypeOK, TypeOK', HomeInv, NEW c \in Cluster, Reclaim(c)
    PROVE  HomeInv'
<1>1. PICK i \in DOMAIN inflight[c] : Reclaims(c, i)
    BY DEF Reclaim, Reclaims
<1>2. ASSUME NEW d \in Cluster, NEW g \in Operation, Live(d, {g})' > 0
      PROVE  Live(d, {g}) > 0
    <2>1. Live(d, {g}) = Live(d, {g})' + One(d = c /\ inflight[c][i] \in {g})
        BY <1>1, ReclaimMoves DEF One
    <2>2. Live(d, {g})' \in Nat
        BY LiveTypeNext
    <2>3. QED
        BY <1>2, <2>1, <2>2 DEF One
<1>3. QED
    BY <1>1, <1>2, HomeFewer DEF Reclaims

LEMMA HomeExecutes ==
    ASSUME TypeOK, TypeOK', HomeInv, NEW c \in Cluster, NEW e, ExecutesNext(c, e)
    PROVE  HomeInv'
<1>1. ASSUME NEW d \in Cluster, NEW g \in Operation, Live(d, {g})' > 0
      PROVE  Live(d, {g}) > 0
    <2>1. Live(d, {g}) = Live(d, {g})' + One(d = c /\ e \in {g})
        BY ExecutionMoves
    <2>2. Live(d, {g})' \in Nat
        BY LiveType, LiveTypeNext
    <2>3. QED
        BY <1>1, <2>1, <2>2 DEF One
<1>2. QED
    BY <1>1, HomeFewer DEF ExecutesNext

LEMMA HomeNext == TypeOK /\ TypeOK' /\ HomeInv /\ [Next]_vars => HomeInv'
<1> SUFFICES ASSUME TypeOK, TypeOK', HomeInv, [Next]_vars PROVE HomeInv'
    OBVIOUS
<1>1. ASSUME NEW t \in Transfer, NEW k \in Handler, Submit(t, k) \/ ClientHandler(t, k)
      PROVE  HomeInv'
    BY <1>1, HomeClients
<1>2. ASSUME NEW c \in Cluster, Ingress(c) \/ Reclaim(c)
      PROVE  HomeInv'
    BY <1>2, HomeIngress, HomeReclaim
<1>3. ASSUME NEW t \in Transfer, Execute(t)
      PROVE  HomeInv'
    <2>1. \E c \in Cluster, e \in Operation : ExecutesNext(c, e)
        BY <1>3, OperationTypes, TransferFields
           DEF Execute, ExecuteCoordPrepare, ExecutePartPrepareCommit, ExecutePartPrepareAbort,
               ExecuteDecision, ExecuteOutcome, Settles, CoordOp, PartOp
    <2>2. QED
        BY <2>1, HomeExecutes
\* Whoever enqueues one operation enqueues it at home.
<1>4. ASSUME NEW t \in Transfer, NEW op \in (CoordOp \ {"COORD_PREPARE"}) \cup PartOp,
             internalQueue' = Enqueued(HomeOf(Op(op, t)), Op(op, t)),
             UNCHANGED <<clientQueue, starting, inflight>>
      PROVE  HomeInv'
    <2>1. /\ Op(op, t) \in Operation /\ HomeOf(Op(op, t)) \in Cluster
          /\ Op(op, t).op # "COORD_PREPARE"
        BY OperationTypes, OperationNames, TransferFields DEF PartOp
    <2> DEFINE e == Op(op, t)
               c == HomeOf(e)
    <2>2. /\ e \in Operation /\ c \in Cluster /\ e.op # "COORD_PREPARE" /\ HomeOf(e) = c
          /\ internalQueue' = Enqueued(c, e)
        BY <1>4, <2>1
    <2> HIDE DEF e, c
    <2>3. Enqueues(c, <<e>>) /\ <<e>> \in Seq(Operation) /\ OpsOf(<<e>>) = {e}
        BY <1>4, <2>2, EnqueuedIsConcat
    <2>4. QED
        BY <2>2, <2>3, HomeEnqueued
<1>5. ASSUME NEW t \in Transfer, Receive(t)
      PROVE  HomeInv'
    <2>1. CASE OnPrepare(t) \/ OnAck(t)
        BY <2>1, HomeQuiet DEF OnPrepare, OnAck, engineVars
    <2>2. ASSUME NEW o \in Outcome, OnStaleReply(t, o) PROVE HomeInv'
        BY <2>2, HomeQuiet DEF OnStaleReply, engineVars
    <2>3. ASSUME NEW o \in Outcome, OnReply(t, o) PROVE HomeInv'
        <3>1. ASSUME NEW e \in OpsOf(DecisionsFor(t, o))
              PROVE  e.op # "COORD_PREPARE" /\ HomeOf(e) = Coord(t)
            <4>1. e \in {Op(CoordOpFor(o), t), Op("COORD_ABORT", t)}
                BY OpsOfSmall DEF DecisionsFor
            <4>2. QED
                BY <4>1, OperationNames DEF CoordOp
        <3>2. QED
            <4>1. Enqueues(Coord(t), DecisionsFor(t, o))
                BY <2>3 DEF OnReply, Enqueues
            <4>2. QED
                BY <3>1, <4>1, DecisionTypes, TransferFields, HomeEnqueued
    <2>4. ASSUME NEW o \in Outcome, OnDecision(t, o) PROVE HomeInv'
        <3>1. PartOpFor(o) \in PartOp /\ HomeOf(Op(PartOpFor(o), t)) = Part(t)
            BY OperationNames
        <3>2. QED
            BY <2>4, <3>1, <1>4, HomeQuiet DEF OnDecision
    <2>5. QED
        BY <1>5, <2>1, <2>2, <2>3, <2>4 DEF Receive
<1>6. ASSUME NEW t \in Transfer, DecidePrepare(t)
      PROVE  HomeInv'
    <2>1. PrepareVote(t) \in PartOp /\ HomeOf(Op(PrepareVote(t), t)) = Part(t)
        BY OperationNames DEF PrepareVote, PartOp
    <2>2. QED
        BY <1>4, <1>6, <2>1 DEF DecidePrepare
<1>7. ASSUME NEW t \in Transfer, RetryAbort(t)
      PROVE  HomeInv'
    <2>1. "COORD_ABORT" \in CoordOp /\ HomeOf(Op("COORD_ABORT", t)) = Coord(t)
        BY OperationNames DEF CoordOp
    <2>2. QED
        BY <1>4, <1>7, <2>1 DEF RetryAbort
<1>8. ASSUME NEW t \in Transfer,
             \/ ResendPrepare(t) \/ PrepareTimesOut(t) \/ EndWatch(t)
             \/ \E o \in Outcome : ResendDecision(t, o)
      PROVE  HomeInv'
    BY <1>8, HomeQuiet DEF ResendPrepare, PrepareTimesOut, EndWatch, ResendDecision, engineVars
<1>9. CASE UNCHANGED vars
    BY <1>9, HomeQuiet DEF vars, engineVars
<1>10. QED
    BY <1>1, <1>2, <1>3, <1>5, <1>6, <1>7, <1>8, <1>9 DEF Next

LEMMA HomeInit == Init => HomeInv
<1> SUFFICES ASSUME Init PROVE HomeInv
    OBVIOUS
<1>1. \A c \in Cluster : /\ clientQueue[c] = <<>> /\ internalQueue[c] = <<>>
                         /\ starting[c] = <<>> /\ inflight[c] = <<>>
    BY DEF Init
<1>2. \A c \in Cluster, e \in Operation : Live(c, {e}) = 0
    BY <1>1, CopiesSmall DEF Live
<1>3. QED
    BY <1>1, <1>2, OpsOfSmall DEF HomeInv

-----------------------------------------------------------------------------
(***************************************************************************)
(* The cross-shard slot: a handler that waits for x, or the COORD_PREPARE  *)
(* that it has handed over, has the slot, and nobody else has.             *)
(***************************************************************************)
CoordPrepares == {Op("COORD_PREPARE", t) : t \in Transfer}
Prepares(c) == Live(c, CoordPrepares)
Waits(c, t, k) == Coord(t) = c /\ handler[t][k] = "lock"

SlotInv ==
    \A c \in Cluster :
        /\ Prepares(c) <= 1
        /\ Prepares(c) > 0 => crossBusy[c]
        /\ \A t \in Transfer, k \in Handler :
               Waits(c, t, k) => crossBusy[c] /\ Prepares(c) = 0
        /\ \A t, u \in Transfer : \A k, l \in Handler :
               Waits(c, t, k) /\ Waits(c, u, l) => t = u /\ k = l

LEMMA CoordPrepareOps ==
    ASSUME NEW e \in Operation
    PROVE  e \in CoordPrepares <=> e.op = "COORD_PREPARE"
<1>1. e = [op |-> e.op, txn |-> e.txn] /\ e.txn \in Transfer
    BY DEF Operation
<1>2. QED
    BY <1>1 DEF CoordPrepares, Op

LEMMA SlotSame ==
    ASSUME TypeOK, TypeOK', SlotInv, UNCHANGED <<handler, crossBusy>>,
           \A c \in Cluster : Prepares(c)' = Prepares(c)
    PROVE  SlotInv'
BY DEF SlotInv, Waits

\* The only COORD_PREPARE of cluster c is gone.
LEMMA SlotFreed ==
    ASSUME TypeOK, TypeOK', SlotInv, NEW c \in Cluster, UNCHANGED handler,
           \A d \in Cluster : Prepares(d) = Prepares(d)' + One(d = c),
           UNCHANGED crossBusy \/ crossBusy' = [crossBusy EXCEPT ![c] = FALSE]
    PROVE  SlotInv'
<1>1. \A d \in Cluster : Prepares(d) \in Nat /\ Prepares(d)' \in Nat
    BY LiveType, LiveTypeNext DEF Prepares
<1>2. Prepares(c) = 1 /\ Prepares(c)' = 0
    BY <1>1 DEF SlotInv, One
<1>3. ASSUME NEW d \in Cluster, d # c
      PROVE  Prepares(d)' = Prepares(d) /\ crossBusy'[d] = crossBusy[d]
    <2>1. Prepares(d) = Prepares(d)' + One(d = c)
        OBVIOUS
    <2>2. One(d = c) = 0
        BY <1>3 DEF One
    <2>3. Prepares(d)' = Prepares(d)
        BY <1>1, <2>1, <2>2
    <2>4. CASE UNCHANGED crossBusy
        BY <2>3, <2>4
    <2>5. CASE crossBusy' = [crossBusy EXCEPT ![c] = FALSE]
        <3>1. crossBusy \in [Cluster -> BOOLEAN]
            BY DEF TypeOK
        <3>2. crossBusy'[d] = crossBusy[d]
            BY <1>3, <2>5, <3>1
        <3>3. QED
            BY <2>3, <3>2
    <2>6. QED
        BY <2>4, <2>5
<1>4. \A t \in Transfer, k \in Handler : ~Waits(c, t, k)
    BY <1>2 DEF SlotInv
<1>5. \A d, t, k : Waits(d, t, k)' <=> Waits(d, t, k)
    BY DEF Waits
<1>6. QED
    BY <1>2, <1>3, <1>4, <1>5 DEF SlotInv

LEMMA PreparesUnchanged ==
    ASSUME UNCHANGED <<clientQueue, internalQueue, starting, inflight>>
    PROVE  \A c \in Cluster : Prepares(c)' = Prepares(c)
BY LiveUnchanged DEF Prepares

LEMMA SlotClients ==
    ASSUME TypeOK, TypeOK', SlotInv, NEW t \in Transfer, NEW k \in Handler,
           Submit(t, k) \/ ClientHandler(t, k)
    PROVE  SlotInv'
<1>0. Coord(t) \in Cluster
    BY TransferFields
<1>1. CASE Submit(t, k) \/ CrossSlotExpires(t, k)
    <2>1. \A c \in Cluster : Prepares(c)' = Prepares(c)
        BY <1>1, PreparesUnchanged DEF Submit, CrossSlotExpires, engineVars
    <2>2. UNCHANGED crossBusy
        BY <1>1 DEF Submit, CrossSlotExpires
    <2>3. /\ handler \in [Transfer -> [Handler -> {"idle", "slot", "lock"}]]
          /\ handler[t][k] # "lock"
          /\ \E s \in {"idle", "slot"} : handler' = [handler EXCEPT ![t][k] = s]
        BY <1>1 DEF Submit, CrossSlotExpires, TypeOK
    <2>4. PICK s \in {"idle", "slot"} : handler' = [handler EXCEPT ![t][k] = s]
        BY <2>3
    <2>5. \A u \in Transfer, l \in Handler : (handler'[u][l] = "lock") <=> (handler[u][l] = "lock")
        BY <2>3, <2>4
    <2>6. \A c \in Cluster, u \in Transfer, l \in Handler : Waits(c, u, l)' <=> Waits(c, u, l)
        BY <2>5 DEF Waits
    <2>7. QED
        BY <2>1, <2>2, <2>6 DEF SlotInv
<1>2. CASE AcquireCrossSlot(t, k)
    <2>1. \A c \in Cluster : Prepares(c)' = Prepares(c) /\ Prepares(c) \in Nat
        BY <1>2, PreparesUnchanged, LiveType DEF AcquireCrossSlot, engineVars, Prepares
    <2>2. ~crossBusy[Coord(t)] /\ crossBusy' = [crossBusy EXCEPT ![Coord(t)] = TRUE]
        BY <1>2 DEF AcquireCrossSlot
    <2>3. \A u \in Transfer, l \in Handler : handler'[u][l] = "lock" <=>
                handler[u][l] = "lock" \/ (u = t /\ l = k)
        BY <1>2 DEF AcquireCrossSlot, TypeOK
    <2>4. Prepares(Coord(t)) = 0
        BY <1>0, <2>1, <2>2 DEF SlotInv
    <2>5. \A u \in Transfer, l \in Handler : ~Waits(Coord(t), u, l)
        BY <1>0, <2>2 DEF SlotInv
    <2>6. \A d \in Cluster, u \in Transfer, l \in Handler :
              Waits(d, u, l)' <=> Waits(d, u, l) \/ (d = Coord(t) /\ u = t /\ l = k)
        BY <2>3 DEF Waits
    <2>7. \A d \in Cluster : crossBusy'[d] = IF d = Coord(t) THEN TRUE ELSE crossBusy[d]
        BY <2>2 DEF TypeOK
    <2>8. ASSUME NEW d \in Cluster
          PROVE  /\ Prepares(d)' <= 1
                 /\ Prepares(d)' > 0 => crossBusy'[d]
                 /\ \A u \in Transfer, l \in Handler :
                        Waits(d, u, l)' => crossBusy'[d] /\ Prepares(d)' = 0
                 /\ \A u, v \in Transfer : \A l, m \in Handler :
                        Waits(d, u, l)' /\ Waits(d, v, m)' => u = v /\ l = m
        <3>1. Prepares(d)' <= 1
            BY <2>1 DEF SlotInv
        <3>2. Prepares(d)' > 0 => crossBusy'[d]
            BY <2>1, <2>7 DEF SlotInv
        <3>3. ASSUME NEW u \in Transfer, NEW l \in Handler, Waits(d, u, l)'
              PROVE  crossBusy'[d] /\ Prepares(d)' = 0
            <4>1. CASE d = Coord(t)
                BY <2>1, <2>4, <2>7, <4>1
            <4>2. CASE d # Coord(t)
                BY <2>1, <2>6, <2>7, <3>3, <4>2 DEF SlotInv
            <4>3. QED
                BY <4>1, <4>2
        <3>4. ASSUME NEW u \in Transfer, NEW l \in Handler, NEW v \in Transfer, NEW m \in Handler,
                     Waits(d, u, l)', Waits(d, v, m)'
              PROVE  u = v /\ l = m
            <4>1. CASE d = Coord(t)
                BY <2>5, <2>6, <3>4, <4>1
            <4>2. CASE d # Coord(t)
                BY <2>6, <3>4, <4>2 DEF SlotInv
            <4>3. QED
                BY <4>1, <4>2
        <3>5. QED
            BY <3>1, <3>2, <3>3, <3>4
    <2>9. QED
        BY <2>8 DEF SlotInv
<1>3. CASE StartPrepare(t, k)
    <2> DEFINE e == Op("COORD_PREPARE", t)
    <2>1. Submits(Coord(t), e) /\ e \in Operation
        BY <1>3, OperationTypes DEF StartPrepare, Submits, CoordOp
    <2>2. e \in CoordPrepares
        BY DEF CoordPrepares
    <2> HIDE DEF e
    <2>3. \A d \in Cluster : /\ Prepares(d)' = Prepares(d) + One(d = Coord(t))
                             /\ Prepares(d) \in Nat
        BY <1>0, <2>1, <2>2, SubmissionMoves, LiveType DEF Prepares, One
    <2>4. Waits(Coord(t), t, k)
        BY <1>3 DEF StartPrepare, Waits
    <2>5. Prepares(Coord(t)) = 0 /\ crossBusy[Coord(t)]
        BY <1>0, <2>4 DEF SlotInv
    <2>6. \A d \in Cluster, u \in Transfer, l \in Handler :
              Waits(d, u, l)' <=> Waits(d, u, l) /\ ~(u = t /\ l = k)
        BY <1>3 DEF StartPrepare, Waits, TypeOK
    <2>7. \A u \in Transfer, l \in Handler : ~Waits(Coord(t), u, l)'
        BY <1>0, <2>4, <2>6 DEF SlotInv
    <2>8. UNCHANGED crossBusy
        BY <1>3 DEF StartPrepare
    <2>9. \A d \in Cluster : /\ d # Coord(t) => Prepares(d)' = Prepares(d)
                             /\ d = Coord(t) => Prepares(d)' = 1
        BY <2>3, <2>5 DEF One
    <2>10. QED
        BY <1>0, <2>3, <2>5, <2>6, <2>7, <2>8, <2>9 DEF SlotInv
<1>4. CASE DropClientRequest(t, k)
    <2>1. \A c \in Cluster : Prepares(c)' = Prepares(c)
        BY <1>4, PreparesUnchanged DEF DropClientRequest, engineVars
    <2>2. Waits(Coord(t), t, k)
        BY <1>4 DEF DropClientRequest, Waits
    <2>3. Prepares(Coord(t)) = 0
        BY <1>0, <2>2 DEF SlotInv
    <2>4. \A d \in Cluster, u \in Transfer, l \in Handler :
              Waits(d, u, l)' <=> Waits(d, u, l) /\ ~(u = t /\ l = k)
        BY <1>4 DEF DropClientRequest, Waits, TypeOK
    <2>5. \A u \in Transfer, l \in Handler : ~Waits(Coord(t), u, l)'
        BY <1>0, <2>2, <2>4 DEF SlotInv
    <2>6. \A d \in Cluster : d # Coord(t) => crossBusy'[d] = crossBusy[d]
        BY <1>4 DEF DropClientRequest, TypeOK
    <2>7. QED
        BY <1>0, <2>1, <2>3, <2>4, <2>5, <2>6 DEF SlotInv
<1>5. QED
    BY <1>1, <1>2, <1>3, <1>4 DEF ClientHandler

LEMMA SlotIngress ==
    ASSUME TypeOK, TypeOK', SlotInv, NEW c \in Cluster, Ingress(c)
    PROVE  SlotInv'
<1>1. CASE Take(c)
    <2>1. \A d \in Cluster : Prepares(d)' = Prepares(d)
        BY <1>1, TakeMoves DEF Prepares
    <2>2. QED
        BY <1>1, <2>1, SlotSame DEF Take, coordVars
<1>2. ASSUME NEW e \in Operation, NEW f \in Operation, Proposes(c, e, f),
             e.op = "COORD_PREPARE" <=> f.op = "COORD_PREPARE", UNCHANGED coordVars
      PROVE  SlotInv'
    <2>1. ASSUME NEW d \in Cluster PROVE Prepares(d)' = Prepares(d)
        <3>1. Prepares(d)' + One(d = c /\ e \in CoordPrepares)
                  = Prepares(d) + One(d = c /\ f \in CoordPrepares)
            BY <1>2, ProposalMoves DEF Prepares, One
        <3>2. Prepares(d) \in Nat /\ Prepares(d)' \in Nat
            BY LiveType, LiveTypeNext DEF Prepares
        <3>3. e \in CoordPrepares <=> f \in CoordPrepares
            BY <1>2, CoordPrepareOps
        <3>4. QED
            BY <3>1, <3>2, <3>3 DEF One
    <2>2. QED
        BY <1>2, <2>1, SlotSame DEF coordVars
<1>3. CASE Propose(c)
    BY <1>2, <1>3 DEF Propose, Proposes
<1>4. CASE BurnSequence(c)
    <2>1. PICK e \in Operation : ~LocksHeld(e) /\ Proposes(c, e, Op("HOLE", e.txn))
        BY <1>4 DEF BurnSequence, Proposes
    <2>2. /\ e.op = "PART_ABORT" /\ Op("HOLE", e.txn) \in Operation
          /\ Op("HOLE", e.txn).op = "HOLE"
        BY <2>1, OperationTypes, OperationFields, OperationNames DEF LocksHeld
    <2>3. UNCHANGED coordVars
        BY <1>4 DEF BurnSequence
    <2>4. QED
        BY <1>2, <2>1, <2>2, <2>3
<1>5. CASE Refuse(c)
    <2>1. PICK e \in Operation : Refuses(c, e) /\ crossBusy' = CrossSlotAfterDrop(c, e)
        BY <1>5 DEF Refuse, Refuses
    <2>2. UNCHANGED handler
        BY <1>5 DEF Refuse
    <2>3. \A d \in Cluster : Prepares(d) = Prepares(d)' + One(d = c /\ e \in CoordPrepares)
        BY <2>1, RefusalMoves DEF Prepares, One
    <2>4. \A d \in Cluster : Prepares(d) \in Nat /\ Prepares(d)' \in Nat
        BY LiveType, LiveTypeNext DEF Prepares
    <2>5. CASE e.op = "COORD_PREPARE"
        <3>1. \A d \in Cluster : Prepares(d) = Prepares(d)' + One(d = c)
            BY <2>3, <2>5, CoordPrepareOps DEF One
        <3>2. QED
            BY <2>1, <2>2, <2>5, <3>1, SlotFreed DEF CrossSlotAfterDrop
    <2>6. CASE e.op # "COORD_PREPARE"
        <3>1. \A d \in Cluster : Prepares(d)' = Prepares(d)
            BY <2>3, <2>4, <2>6, CoordPrepareOps DEF One
        <3>2. QED
            BY <2>1, <2>2, <2>6, <3>1, SlotSame DEF CrossSlotAfterDrop
    <2>7. QED
        BY <2>5, <2>6
<1>6. QED
    BY <1>1, <1>3, <1>4, <1>5 DEF Ingress

LEMMA SlotReclaim ==
    ASSUME TypeOK, TypeOK', SlotInv, NEW c \in Cluster, Reclaim(c)
    PROVE  SlotInv'
<1>1. PICK i \in DOMAIN inflight[c] :
          Reclaims(c, i) /\ crossBusy' = CrossSlotAfterDrop(c, inflight[c][i])
    BY DEF Reclaim, Reclaims
<1> DEFINE e == inflight[c][i]
<1>2. e \in Operation /\ UNCHANGED handler
    BY DEF TypeOK, Reclaim
<1>3. \A d \in Cluster : Prepares(d) = Prepares(d)' + One(d = c /\ e \in CoordPrepares)
    BY <1>1, ReclaimMoves DEF Prepares, One
<1>4. \A d \in Cluster : Prepares(d) \in Nat /\ Prepares(d)' \in Nat
    BY LiveType, LiveTypeNext DEF Prepares
<1>5. crossBusy' = CrossSlotAfterDrop(c, e)
    BY <1>1
<1> HIDE DEF e
<1>6. CASE e.op = "COORD_PREPARE"
    <2>1. \A d \in Cluster : Prepares(d) = Prepares(d)' + One(d = c)
        BY <1>2, <1>3, <1>6, CoordPrepareOps DEF One
    <2>2. QED
        BY <1>2, <1>5, <1>6, <2>1, SlotFreed DEF CrossSlotAfterDrop
<1>7. CASE e.op # "COORD_PREPARE"
    <2>1. \A d \in Cluster : Prepares(d)' = Prepares(d)
        BY <1>2, <1>3, <1>4, <1>7, CoordPrepareOps DEF One
    <2>2. QED
        BY <1>2, <1>5, <1>7, <2>1, SlotSame DEF CrossSlotAfterDrop
<1>8. QED
    BY <1>6, <1>7

LEMMA SlotExecute ==
    ASSUME TypeOK, TypeOK', SlotInv, NEW t \in Transfer, Execute(t)
    PROVE  SlotInv'
<1>1. CASE ExecuteCoordPrepare(t)
    <2> DEFINE e == Op("COORD_PREPARE", t)
    <2>1. ExecutesNext(Coord(t), e) /\ Coord(t) \in Cluster
        BY <1>1, TransferFields DEF ExecuteCoordPrepare
    <2>2. e \in CoordPrepares
        BY DEF CoordPrepares
    <2>3. \A d \in Cluster : Prepares(d) = Prepares(d)' + One(d = Coord(t))
        BY <2>1, <2>2, ExecutionMoves DEF Prepares, One
    <2>4. /\ UNCHANGED handler
          /\ UNCHANGED crossBusy \/ crossBusy' = [crossBusy EXCEPT ![Coord(t)] = FALSE]
        BY <1>1 DEF ExecuteCoordPrepare
    <2>5. QED
        BY <2>1, <2>3, <2>4, SlotFreed
<1>2. ASSUME NEW c \in Cluster, NEW e \in Operation, ExecutesNext(c, e),
             e.op # "COORD_PREPARE", UNCHANGED <<handler, crossBusy>>
      PROVE  SlotInv'
    <2>1. \A d \in Cluster : Prepares(d) = Prepares(d)' + One(d = c /\ e \in CoordPrepares)
        BY <1>2, ExecutionMoves DEF Prepares, One
    <2>2. \A d \in Cluster : Prepares(d) \in Nat /\ Prepares(d)' \in Nat
        BY LiveType, LiveTypeNext DEF Prepares
    <2>3. \A d \in Cluster : Prepares(d)' = Prepares(d)
        BY <1>2, <2>1, <2>2, CoordPrepareOps DEF One
    <2>4. QED
        BY <1>2, <2>3, SlotSame
<1>3. CASE \/ ExecutePartPrepareCommit(t) \/ ExecutePartPrepareAbort(t)
           \/ \E o \in Outcome : ExecuteDecision(t, o) \/ ExecuteOutcome(t, o)
    <2>1. \E c \in Cluster, op \in (CoordOp \ {"COORD_PREPARE"}) \cup PartOp :
              ExecutesNext(c, Op(op, t)) /\ UNCHANGED coordVars
        <3>1. Coord(t) \in Cluster /\ Part(t) \in Cluster
            BY TransferFields
        <3>2. "PART_PREPARE_COMMIT" \in PartOp /\ "PART_PREPARE_ABORT" \in PartOp
            BY DEF PartOp
        <3>3. \A o \in Outcome : /\ CoordOpFor(o) \in CoordOp \ {"COORD_PREPARE"}
                                 /\ PartOpFor(o) \in PartOp
            BY OperationNames
        <3>4. CASE ExecutePartPrepareCommit(t) \/ ExecutePartPrepareAbort(t)
            BY <3>1, <3>2, <3>4 DEF ExecutePartPrepareCommit, ExecutePartPrepareAbort
        <3>5. ASSUME NEW o \in Outcome, ExecuteDecision(t, o)
              PROVE  ExecutesNext(Coord(t), Op(CoordOpFor(o), t)) /\ UNCHANGED coordVars
            BY <3>5 DEF ExecuteDecision, Settles
        <3>6. ASSUME NEW o \in Outcome, ExecuteOutcome(t, o)
              PROVE  ExecutesNext(Part(t), Op(PartOpFor(o), t)) /\ UNCHANGED coordVars
            BY <3>6 DEF ExecuteOutcome, Settles
        <3>7. QED
            BY <1>3, <3>1, <3>3, <3>4, <3>5, <3>6
    <2>2. PICK c \in Cluster, op \in (CoordOp \ {"COORD_PREPARE"}) \cup PartOp :
              ExecutesNext(c, Op(op, t)) /\ UNCHANGED coordVars
        BY <2>1
    <2>3. Op(op, t) \in Operation /\ Op(op, t).op # "COORD_PREPARE"
        BY OperationTypes, OperationNames DEF PartOp
    <2>4. QED
        BY <1>2, <2>2, <2>3 DEF coordVars
<1>4. QED
    BY <1>1, <1>3 DEF Execute

LEMMA SlotEnqueued ==
    ASSUME TypeOK, TypeOK', SlotInv, NEW c \in Cluster, NEW s \in Seq(Operation),
           Enqueues(c, s), \A e \in OpsOf(s) : e.op # "COORD_PREPARE",
           UNCHANGED <<handler, crossBusy>>
    PROVE  SlotInv'
<1>1. \A e \in OpsOf(s) : e \in Operation
    BY DEF OpsOf
<1>2. Copies(s, CoordPrepares) = 0
    BY <1>1, CopiesType, CoordPrepareOps
<1>3. \A d \in Cluster : Prepares(d)' = Prepares(d) + IF d = c THEN Copies(s, CoordPrepares) ELSE 0
    BY EnqueuedMoves DEF Prepares
<1>4. \A d \in Cluster : Prepares(d) \in Nat
    BY LiveType DEF Prepares
<1>5. \A d \in Cluster : Prepares(d)' = Prepares(d)
    BY <1>2, <1>3, <1>4
<1>6. QED
    BY <1>5, SlotSame

LEMMA SlotNext == TypeOK /\ TypeOK' /\ SlotInv /\ [Next]_vars => SlotInv'
<1> SUFFICES ASSUME TypeOK, TypeOK', SlotInv, [Next]_vars PROVE SlotInv'
    OBVIOUS
<1>1. ASSUME NEW t \in Transfer, NEW k \in Handler, Submit(t, k) \/ ClientHandler(t, k)
      PROVE  SlotInv'
    BY <1>1, SlotClients
<1>2. ASSUME NEW c \in Cluster, Ingress(c) \/ Reclaim(c)
      PROVE  SlotInv'
    BY <1>2, SlotIngress, SlotReclaim
<1>3. ASSUME UNCHANGED <<clientQueue, internalQueue, starting, inflight, handler, crossBusy>>
      PROVE  SlotInv'
    BY <1>3, PreparesUnchanged, SlotSame
<1>4. ASSUME NEW c \in Cluster, NEW e \in Operation, e.op # "COORD_PREPARE",
             internalQueue' = Enqueued(c, e),
             UNCHANGED <<clientQueue, starting, inflight, handler, crossBusy>>
      PROVE  SlotInv'
    <2>1. Enqueues(c, <<e>>) /\ <<e>> \in Seq(Operation) /\ OpsOf(<<e>>) = {e}
        BY <1>4, EnqueuedIsConcat
    <2>2. QED
        BY <1>4, <2>1, SlotEnqueued
<1>5. ASSUME NEW t \in Transfer, Receive(t)
      PROVE  SlotInv'
    <2>0. Coord(t) \in Cluster /\ Part(t) \in Cluster
        BY TransferFields
    <2>1. CASE OnPrepare(t) \/ OnAck(t)
        BY <2>1, <1>3 DEF OnPrepare, OnAck, engineVars, coordVars
    <2>2. ASSUME NEW o \in Outcome, OnStaleReply(t, o) PROVE SlotInv'
        BY <2>2, <1>3 DEF OnStaleReply, engineVars, coordVars
    <2>3. ASSUME NEW o \in Outcome, OnReply(t, o) PROVE SlotInv'
        <3>1. ASSUME NEW e \in OpsOf(DecisionsFor(t, o)) PROVE e.op # "COORD_PREPARE"
            <4>1. e \in {Op(CoordOpFor(o), t), Op("COORD_ABORT", t)}
                BY OpsOfSmall DEF DecisionsFor
            <4>2. QED
                BY <4>1, OperationNames
        <3>2. Enqueues(Coord(t), DecisionsFor(t, o)) /\ UNCHANGED <<handler, crossBusy>>
            BY <2>3 DEF OnReply, Enqueues
        <3>3. QED
            BY <2>0, <3>1, <3>2, DecisionTypes, SlotEnqueued
    <2>4. ASSUME NEW o \in Outcome, OnDecision(t, o) PROVE SlotInv'
        <3>1. Op(PartOpFor(o), t) \in Operation /\ Op(PartOpFor(o), t).op # "COORD_PREPARE"
            BY OperationTypes, OperationNames DEF PartOp
        <3>2. QED
            BY <2>0, <2>4, <3>1, <1>3, <1>4 DEF OnDecision, coordVars
    <2>5. QED
        BY <1>5, <2>1, <2>2, <2>3, <2>4 DEF Receive
<1>6. ASSUME NEW t \in Transfer, DecidePrepare(t) \/ RetryAbort(t)
      PROVE  SlotInv'
    <2>1. /\ Op(PrepareVote(t), t) \in Operation /\ Op(PrepareVote(t), t).op # "COORD_PREPARE"
          /\ Op("COORD_ABORT", t) \in Operation /\ Op("COORD_ABORT", t).op # "COORD_PREPARE"
          /\ Coord(t) \in Cluster /\ Part(t) \in Cluster
        BY OperationTypes, OperationNames, TransferFields DEF CoordOp, PrepareVote
    <2>2. QED
        BY <1>4, <1>6, <2>1 DEF DecidePrepare, RetryAbort, coordVars
<1>7. ASSUME NEW t \in Transfer,
             \/ ResendPrepare(t) \/ PrepareTimesOut(t) \/ EndWatch(t)
             \/ \E o \in Outcome : ResendDecision(t, o)
      PROVE  SlotInv'
    BY <1>3, <1>7 DEF ResendPrepare, PrepareTimesOut, EndWatch, ResendDecision, engineVars, coordVars
<1>8. CASE UNCHANGED vars
    BY <1>3, <1>8 DEF vars, engineVars, coordVars
<1>9. QED
    BY <1>1, <1>2, <1>5, <1>6, <1>7, <1>8, SlotExecute DEF Next

LEMMA SlotInit == Init => SlotInv
<1> SUFFICES ASSUME Init PROVE SlotInv
    OBVIOUS
<1>1. \A c \in Cluster : /\ clientQueue[c] = <<>> /\ internalQueue[c] = <<>>
                         /\ starting[c] = <<>> /\ inflight[c] = <<>>
    BY DEF Init
<1>2. \A c \in Cluster : Prepares(c) = 0
    BY <1>1, CopiesSmall DEF Live, Prepares
<1>3. \A t \in Transfer, k \in Handler : handler[t][k] = "idle"
    BY DEF Init
<1>4. QED
    BY <1>2, <1>3 DEF SlotInv, Waits

LEMMA SlotImpliesOne ==
    ASSUME TypeOK, SlotInv
    PROVE  OneCoordPrepareAtATime
<1> SUFFICES ASSUME NEW c \in Cluster
             PROVE  LET ops == clientQueue[c] \o starting[c] \o inflight[c]
                    IN  Cardinality({i \in DOMAIN ops : ops[i].op = "COORD_PREPARE"}) <= 1
    BY DEF OneCoordPrepareAtATime
<1> DEFINE q == clientQueue[c] \o starting[c]
           ops == q \o inflight[c]
<1>1. /\ clientQueue[c] \in Seq(Operation) /\ starting[c] \in Seq(Operation)
      /\ inflight[c] \in Seq(Operation)
    BY DEF TypeOK
<1>2. q \in Seq(Operation) /\ ops \in Seq(Operation)
    BY <1>1, ConcatProperties
<1>3. Copies(q, CoordPrepares) = Copies(clientQueue[c], CoordPrepares)
                                    + Copies(starting[c], CoordPrepares)
    BY <1>1, CopiesConcat
<1> HIDE DEF q
<1>4. Copies(ops, CoordPrepares) = Copies(q, CoordPrepares) + Copies(inflight[c], CoordPrepares)
    BY <1>1, <1>2, CopiesConcat
<1>5. Copies(ops, CoordPrepares) <= Prepares(c) /\ Prepares(c) <= 1
    <2>1. /\ Copies(clientQueue[c], CoordPrepares) \in Nat
          /\ Copies(internalQueue[c], CoordPrepares) \in Nat
          /\ Copies(starting[c], CoordPrepares) \in Nat
          /\ Copies(inflight[c], CoordPrepares) \in Nat
        BY LiveType
    <2>2. Prepares(c) <= 1
        BY DEF SlotInv
    <2>3. QED
        BY <1>3, <1>4, <2>1, <2>2 DEF Prepares, Live
<1> HIDE DEF ops
<1>6. {i \in DOMAIN ops : ops[i].op = "COORD_PREPARE"} = Positions(ops, CoordPrepares)
    <2>1. \A i \in DOMAIN ops : ops[i] \in Operation
        BY <1>2
    <2>2. QED
        BY <2>1, CoordPrepareOps DEF Positions
<1>7. Copies(ops, CoordPrepares) \in Nat /\ Prepares(c) \in Nat
    BY <1>2, CopiesType, LiveType DEF Prepares
<1>8. Cardinality({i \in DOMAIN ops : ops[i].op = "COORD_PREPARE"}) <= 1
    <2>1. Copies(ops, CoordPrepares) <= 1
        BY <1>5, <1>7
    <2>2. QED
        BY <1>6, <2>1 DEF Copies
<1>9. QED
    BY <1>8 DEF ops, q

\* A coordinator cluster works on one cross-shard prepare at a time, for any
\* number of handlers, resubmissions, reclaims and timeouts: crossBusy is
\* only freed by whoever holds it (HandleClientRequest, OnCoordPrepareDropped).
THEOREM OnePrepare == Spec => []OneCoordPrepareAtATime
<1>1. Init => TypeOK /\ SlotInv
    BY TypeInit, SlotInit
<1>2. TypeOK /\ SlotInv /\ [Next]_vars => TypeOK' /\ SlotInv'
    BY TypeStep, SlotNext
<1>3. TypeOK /\ SlotInv => OneCoordPrepareAtATime
    BY SlotImpliesOne
<1>4. QED
    BY <1>1, <1>2, <1>3, PTL DEF Spec
=============================================================================
