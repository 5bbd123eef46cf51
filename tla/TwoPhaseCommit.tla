--------------------------- MODULE TwoPhaseCommit ---------------------------
(***************************************************************************)
(* The cross-shard two-phase commit of ByzBank (internal/twopc), with the  *)
(* engine operations it runs (internal/pbft/engine.go).  The cluster of    *)
(* the sender's item coordinates, the cluster of the receiver's item takes *)
(* part, and every step of either is agreed inside its cluster first.      *)
(*                                                                         *)
(* A cluster is one state machine here: its primary proposes operations,   *)
(* they execute in the order of their sequence numbers, and a replica that *)
(* matters is the primary's.  LinearPBFT models what this rests on.  The   *)
(* goroutines of the primary are kept apart: HandleClientRequest and       *)
(* HandlePrepare, which wait; the ingress loop, which starts one operation *)
(* after the other; watchPreparePhase; and the handlers of messages.       *)
(*                                                                         *)
(* The deadlines of 45 s that end the retries are not modelled: a retry    *)
(* may go on for ever.                                                     *)
(***************************************************************************)
EXTENDS Integers, Sequences, SequencesExt, FiniteSets, FiniteSetsExt

CONSTANTS
    Cluster,
    Item,
    Home,             \* the cluster of every item
    Client,
    Transfer,         \* the cross-shard transfers that clients submit
    NoTransfer,       \* the owner of a free lock
    InitialBalance,   \* initial units of every item
    MaxHandlers,      \* bound: concurrent submissions of one transfer
    MaxCopies,        \* bound: copies of one retried message being handled
    MaxReclaims,      \* bound: how often an operation finds no quorum
    PrepareMayTimeOut \* whether CoordPrepareAbortTimeout can run out

ASSUME HomeAssumption == Home \in [Item -> Cluster]

ASSUME TransferAssumption ==
    /\ Transfer \subseteq [client : Client, ts : Nat \ {0}, x : Item, y : Item, amt : Nat]
    /\ \A t \in Transfer : Home[t.x] # Home[t.y]
    /\ NoTransfer \notin Transfer

ASSUME BoundAssumption ==
    /\ InitialBalance \in Nat
    /\ MaxHandlers \in Nat
    /\ MaxCopies \in Nat
    /\ MaxReclaims \in Nat
    /\ PrepareMayTimeOut \in BOOLEAN

Coord(t) == Home[t.x]
Part(t) == Home[t.y]
Handler == 1 .. MaxHandlers
Outcome == {"commit", "abort"}

CoordOp == {"COORD_PREPARE", "COORD_COMMIT", "COORD_ABORT"}
PartOp == {"PART_PREPARE_COMMIT", "PART_PREPARE_ABORT", "PART_COMMIT", "PART_ABORT"}
PrepareOp == {"COORD_PREPARE", "PART_PREPARE_COMMIT", "PART_PREPARE_ABORT"}

\* A request with its Op field; HOLE is a sequence number used up for nothing.
Operation == [op : CoordOp \cup PartOp \cup {"HOLE"}, txn : Transfer]
Op(op, t) == [op |-> op, txn |-> t]

Message ==
         [type : {"PREPARE", "ACK"}, txn : Transfer]
    \cup [type : {"REPLY"}, txn : Transfer, outcome : Outcome, signer : {"coord", "part"}]
    \cup [type : {"DECISION"}, txn : Transfer, outcome : Outcome]

PrepareMsg(t) == [type |-> "PREPARE", txn |-> t]
AckMsg(t) == [type |-> "ACK", txn |-> t]
DecisionMsg(t, o) == [type |-> "DECISION", txn |-> t, outcome |-> o]

\* signer is the cluster whose certificate the reply carries.
ReplyMsg(t, o, signer) ==
    [type |-> "REPLY", txn |-> t, outcome |-> o, signer |-> signer]

NoPreimage == -1

VARIABLES
    bal,             \* per item, its balance
    lock,            \* per item, the transfer whose slot took its lock
    wal,             \* per cluster and transfer, the preimage or NoPreimage
    datastore,       \* per cluster, the operations recorded, in order
    clientTS,        \* per cluster and client, the last decided timestamp
    clientQueue,     \* per cluster, the client ingress channel
    internalQueue,   \* per cluster, the internal ingress channel
    starting,        \* per cluster, the operation the ingress loop is starting
    inflight,        \* per cluster, the sequence numbers not yet executed
    reclaims,        \* how many operations were reclaimed
    handler,         \* per transfer, its HandleClientRequest goroutines
    crossBusy,       \* per cluster, whether the cross-shard slot is taken
    commitStarted,   \* transfers the coordinator has started to decide
    collected,       \* transfers with a verified participant reply
    acked,           \* transfers with f + 1 acks of the decision
    watch,           \* per transfer, its watchPreparePhase goroutine
    preparing,       \* per transfer, how many HandlePrepare goroutines wait
    net              \* per message, how many copies are under way

storeVars == <<bal, lock, wal, datastore, clientTS>>
engineVars == <<clientQueue, internalQueue, starting, inflight, reclaims>>
coordVars == <<handler, crossBusy, commitStarted, collected, acked, watch>>
vars == <<storeVars, engineVars, coordVars, preparing, net>>

TypeOK ==
    /\ bal \in [Item -> Nat]
    /\ lock \in [Item -> Transfer \cup {NoTransfer}]
    /\ wal \in [Cluster -> [Transfer -> Nat \cup {NoPreimage}]]
    /\ datastore \in [Cluster -> Seq(Operation)]
    /\ clientTS \in [Cluster -> [Client -> Nat]]
    /\ clientQueue \in [Cluster -> Seq(Operation)]
    /\ internalQueue \in [Cluster -> Seq(Operation)]
    /\ starting \in [Cluster -> Seq(Operation)]
    /\ inflight \in [Cluster -> Seq(Operation)]
    /\ reclaims \in 0 .. MaxReclaims
    /\ handler \in [Transfer -> [Handler -> {"idle", "slot", "lock"}]]
    /\ crossBusy \in [Cluster -> BOOLEAN]
    /\ commitStarted \subseteq Transfer
    /\ collected \subseteq Transfer
    /\ acked \subseteq Transfer
    /\ watch \in [Transfer -> {"off", "preparing", "aborting"}]
    /\ preparing \in [Transfer -> Nat]
    /\ net \in [Message -> Nat]

Init ==
    /\ bal = [i \in Item |-> InitialBalance]
    /\ lock = [i \in Item |-> NoTransfer]
    /\ wal = [c \in Cluster |-> [t \in Transfer |-> NoPreimage]]
    /\ datastore = [c \in Cluster |-> <<>>]
    /\ clientTS = [c \in Cluster |-> [k \in Client |-> 0]]
    /\ clientQueue = [c \in Cluster |-> <<>>]
    /\ internalQueue = [c \in Cluster |-> <<>>]
    /\ starting = [c \in Cluster |-> <<>>]
    /\ inflight = [c \in Cluster |-> <<>>]
    /\ reclaims = 0
    /\ handler = [t \in Transfer |-> [k \in Handler |-> "idle"]]
    /\ crossBusy = [c \in Cluster |-> FALSE]
    /\ commitStarted = {}
    /\ collected = {}
    /\ acked = {}
    /\ watch = [t \in Transfer |-> "off"]
    /\ preparing = [t \in Transfer |-> 0]
    /\ net = [m \in Message |-> 0]

-----------------------------------------------------------------------------
(***************************************************************************)
(* Helpers.                                                                *)
(***************************************************************************)
Sent(m) == [net EXCEPT ![m] = @ + 1]
Received(m) == [net EXCEPT ![m] = @ - 1]

Enqueued(c, e) == [internalQueue EXCEPT ![c] = Append(@, e)]

HasWAL(c, t) == wal[c][t] # NoPreimage

\* The items an operation takes the lock of when it is started.
LockItems(e) ==
    CASE e.op = "COORD_PREPARE"       -> {e.txn.x}
      [] e.op = "PART_PREPARE_COMMIT" -> {e.txn.y}
      [] OTHER                        -> {}

\* Mutant: locks are not looked at.
MutantCanAcquire(e) == TRUE

CanAcquire(e) == \A i \in LockItems(e) : lock[i] = NoTransfer

Acquired(e) == [i \in Item |-> IF i \in LockItems(e) THEN e.txn ELSE lock[i]]

\* ReleaseLock does not ask who holds the lock.
Released(items) == [i \in Item |-> IF i \in items THEN NoTransfer ELSE lock[i]]

ClientTxnInFlight(c, t) ==
    \E i \in DOMAIN inflight[c] : inflight[c][i].txn = t /\ inflight[c][i].op # "HOLE"

\* validateForStartQuick
ValidForStart(c, e) ==
    LET t == e.txn IN
    CASE e.op = "COORD_PREPARE"       -> /\ ~ClientTxnInFlight(c, t)
                                         /\ CanAcquire(e)
                                         /\ bal[t.x] >= t.amt
      [] e.op = "PART_PREPARE_COMMIT" -> CanAcquire(e)
      [] e.op = "COORD_COMMIT"        -> lock[t.x] # NoTransfer /\ HasWAL(c, t)
      [] e.op = "COORD_ABORT"         -> lock[t.x] # NoTransfer
      [] e.op = "PART_COMMIT"         -> lock[t.y] # NoTransfer /\ HasWAL(c, t)
      [] OTHER                        -> TRUE

\* What the participant recorded at prepare for transfers of the same
\* amount between the same items, as positions in its datastore: prepareOutcome
\* overwrites client and timestamp of a record before it compares.
PrepareRecords(t) ==
    {i \in DOMAIN datastore[Part(t)] : LET e == datastore[Part(t)][i] IN
        /\ e.op \in {"PART_PREPARE_COMMIT", "PART_PREPARE_ABORT"}
        /\ <<e.txn.x, e.txn.y, e.txn.amt>> = <<t.x, t.y, t.amt>>}

\* The first of them counts.
PrepareOutcome(t) ==
    IF \E i \in PrepareRecords(t) :
           /\ datastore[Part(t)][i].op = "PART_PREPARE_COMMIT"
           /\ \A j \in PrepareRecords(t) : i <= j
    THEN "commit" ELSE "abort"

\* Mutant: an abort always goes through consensus.
MutantPrepareWasAbort(t) == FALSE

PrepareWasAbort(t) == PrepareRecords(t) # {} /\ PrepareOutcome(t) = "abort"

\* Copies of an operation between StartConsensus and its execution.
Pending(c, e) ==
    Cardinality({i \in DOMAIN internalQueue[c] : internalQueue[c][i] = e}) +
    Cardinality({i \in DOMAIN starting[c] : starting[c][i] = e}) +
    Cardinality({i \in DOMAIN inflight[c] : inflight[c][i] = e})

\* Copies of one PREPARE that are under way or being worked on.
PrepareCopies(t) ==
    net[PrepareMsg(t)] + preparing[t] +
    net[ReplyMsg(t, "commit", "coord")] + net[ReplyMsg(t, "abort", "coord")] +
    Pending(Part(t), Op("PART_PREPARE_COMMIT", t)) +
    Pending(Part(t), Op("PART_PREPARE_ABORT", t))

PartOpFor(o) == IF o = "commit" THEN "PART_COMMIT" ELSE "PART_ABORT"
CoordOpFor(o) == IF o = "commit" THEN "COORD_COMMIT" ELSE "COORD_ABORT"

\* Copies of one decision, the sequence numbers it has burnt included.
DecisionCopies(t, o) ==
    net[DecisionMsg(t, o)] +
    Pending(Part(t), Op(PartOpFor(o), t)) + Pending(Part(t), Op("HOLE", t))

Recorded(c, e) == \E i \in DOMAIN datastore[c] : datastore[c][i] = e

-----------------------------------------------------------------------------
(***************************************************************************)
(* Coordinator.HandleClientRequest: take the cluster's cross-shard slot,   *)
(* wait until x is unlocked, look again and hand the prepare to the        *)
(* engine.  Both waits give up at a deadline.                              *)
(***************************************************************************)
Submit(t, k) ==
    /\ handler[t][k] = "idle"
    /\ clientTS[Coord(t)][t.client] < t.ts
    /\ t \notin commitStarted
    /\ ~ClientTxnInFlight(Coord(t), t)
    /\ handler' = [handler EXCEPT ![t][k] = "slot"]
    /\ UNCHANGED <<storeVars, engineVars, crossBusy, commitStarted, collected, acked,
                   watch, preparing, net>>

AcquireCrossSlot(t, k) ==
    /\ handler[t][k] = "slot"
    /\ ~crossBusy[Coord(t)]
    /\ handler' = [handler EXCEPT ![t][k] = "lock"]
    /\ crossBusy' = [crossBusy EXCEPT ![Coord(t)] = TRUE]
    /\ UNCHANGED <<storeVars, engineVars, commitStarted, collected, acked, watch,
                   preparing, net>>

\* Mutant: the handler that gives up frees the slot of another.
MutantCrossSlotExpires(t, k) ==
    /\ handler[t][k] = "slot"
    /\ crossBusy[Coord(t)]
    /\ handler' = [handler EXCEPT ![t][k] = "idle"]
    /\ crossBusy' = [crossBusy EXCEPT ![Coord(t)] = FALSE]
    /\ UNCHANGED <<storeVars, engineVars, commitStarted, collected, acked, watch,
                   preparing, net>>

CrossSlotExpires(t, k) ==
    /\ handler[t][k] = "slot"
    /\ crossBusy[Coord(t)]
    /\ handler' = [handler EXCEPT ![t][k] = "idle"]
    /\ UNCHANGED <<storeVars, engineVars, crossBusy, commitStarted, collected, acked,
                   watch, preparing, net>>

\* Mutant: commitStarted is not looked at a second time.
MutantStartableByClient(t) == bal[t.x] >= t.amt

\* x is unlocked: has the transfer been decided meanwhile, is it covered?
StartableByClient(t) == t \notin commitStarted /\ bal[t.x] >= t.amt

StartPrepare(t, k) ==
    /\ handler[t][k] = "lock"
    /\ lock[t.x] = NoTransfer
    /\ StartableByClient(t)
    /\ handler' = [handler EXCEPT ![t][k] = "idle"]
    /\ clientQueue' = [clientQueue EXCEPT ![Coord(t)] =
                           Append(@, Op("COORD_PREPARE", t))]
    /\ UNCHANGED <<storeVars, internalQueue, starting, inflight, reclaims, crossBusy,
                   commitStarted, collected, acked, watch, preparing, net>>

\* Decided meanwhile, rejected for its balance, or the wait for x ran out.
DropClientRequest(t, k) ==
    /\ handler[t][k] = "lock"
    /\ lock[t.x] # NoTransfer \/ ~StartableByClient(t)
    /\ handler' = [handler EXCEPT ![t][k] = "idle"]
    /\ crossBusy' = [crossBusy EXCEPT ![Coord(t)] = FALSE]
    /\ UNCHANGED <<storeVars, engineVars, commitStarted, collected, acked, watch,
                   preparing, net>>

-----------------------------------------------------------------------------
(***************************************************************************)
(* The ingress loop of the primary and startConsensus.  The client channel *)
(* goes first; whatever waits in startConsensus holds up all the rest.     *)
(***************************************************************************)
Take(c) ==
    /\ starting[c] = <<>>
    /\ \/ /\ clientQueue[c] # <<>>
          /\ starting' = [starting EXCEPT ![c] = <<Head(clientQueue[c])>>]
          /\ clientQueue' = [clientQueue EXCEPT ![c] = Tail(@)]
          /\ UNCHANGED internalQueue
       \/ /\ clientQueue[c] = <<>>
          /\ internalQueue[c] # <<>>
          /\ starting' = [starting EXCEPT ![c] = <<Head(internalQueue[c])>>]
          /\ internalQueue' = [internalQueue EXCEPT ![c] = Tail(@)]
          /\ UNCHANGED clientQueue
    /\ UNCHANGED <<storeVars, inflight, reclaims, coordVars, preparing, net>>

\* locksHeldForCommitOp, which PART_ABORT alone can fail here.
LocksHeld(e) == e.op = "PART_ABORT" => lock[e.txn.y] # NoTransfer

Propose(c) ==
    \E e \in Operation :
        /\ starting[c] = <<e>>
        /\ ValidForStart(c, e)
        /\ LocksHeld(e)
        /\ lock' = Acquired(e)
        /\ starting' = [starting EXCEPT ![c] = <<>>]
        /\ inflight' = [inflight EXCEPT ![c] = Append(@, e)]
        /\ UNCHANGED <<bal, wal, datastore, clientTS, clientQueue, internalQueue, reclaims,
                       coordVars, preparing, net>>

\* The sequence number is assigned before the lock is found to be free.
BurnSequence(c) ==
    \E e \in Operation :
        /\ starting[c] = <<e>>
        /\ ValidForStart(c, e)
        /\ ~LocksHeld(e)
        /\ starting' = [starting EXCEPT ![c] = <<>>]
        /\ inflight' = [inflight EXCEPT ![c] = Append(@, Op("HOLE", e.txn))]
        /\ UNCHANGED <<storeVars, clientQueue, internalQueue, reclaims, coordVars,
                       preparing, net>>

\* Invalid, at once or (for a prepare whose lock is taken) after
\* LockWaitTimeout.  Only a dropped COORD_PREPARE is reported.
CrossSlotAfterDrop(c, e) ==
    IF e.op = "COORD_PREPARE" THEN [crossBusy EXCEPT ![c] = FALSE] ELSE crossBusy

Refuse(c) ==
    \E e \in Operation :
        /\ starting[c] = <<e>>
        /\ ~ValidForStart(c, e)
        /\ starting' = [starting EXCEPT ![c] = <<>>]
        /\ crossBusy' = CrossSlotAfterDrop(c, e)
        /\ UNCHANGED <<storeVars, clientQueue, internalQueue, inflight, reclaims, handler,
                       commitStarted, collected, acked, watch, preparing, net>>

\* reclaimSeq: an operation of the prepare phase found no quorum.
Reclaim(c) ==
    /\ reclaims < MaxReclaims
    /\ \E i \in DOMAIN inflight[c] : LET e == inflight[c][i] IN
        /\ e.op \in PrepareOp
        /\ inflight' = [inflight EXCEPT ![c] = RemoveAt(@, i)]
        /\ lock' = Released(LockItems(e))
        /\ crossBusy' = CrossSlotAfterDrop(c, e)
    /\ reclaims' = reclaims + 1
    /\ UNCHANGED <<bal, wal, datastore, clientTS, clientQueue, internalQueue, starting,
                   handler, commitStarted, collected, acked, watch, preparing, net>>

-----------------------------------------------------------------------------
(***************************************************************************)
(* Execution, in the order of the sequence numbers, with the hooks that    *)
(* the bridge calls at the primary.                                        *)
(***************************************************************************)
ExecutesNext(c, e) ==
    /\ inflight[c] # <<>>
    /\ Head(inflight[c]) = e
    /\ inflight' = [inflight EXCEPT ![c] = Tail(@)]
    /\ UNCHANGED <<clientQueue, internalQueue, starting, reclaims>>

Appended(c, e) == [datastore EXCEPT ![c] = Append(@, e)]

\* A debit that fails frees x but keeps the cross-shard slot.
ExecuteCoordPrepare(t) ==
    LET c == Coord(t) IN
    /\ ExecutesNext(c, Op("COORD_PREPARE", t))
    /\ IF bal[t.x] >= t.amt
       THEN /\ bal' = [bal EXCEPT ![t.x] = @ - t.amt]
            /\ wal' = [wal EXCEPT ![c][t] = bal[t.x]]
            /\ datastore' = Appended(c, Op("COORD_PREPARE", t))
            /\ crossBusy' = [crossBusy EXCEPT ![c] = FALSE]
            /\ watch' = [watch EXCEPT ![t] = "preparing"]
            /\ net' = Sent(PrepareMsg(t))
            /\ UNCHANGED lock
       ELSE /\ lock' = Released({t.x})
            /\ UNCHANGED <<bal, wal, datastore, crossBusy, watch, net>>
    /\ UNCHANGED <<clientTS, handler, commitStarted, collected, acked, preparing>>

\* A transfer that has a WAL entry is not credited again.
ExecutePartPrepareCommit(t) ==
    LET c == Part(t) IN
    /\ ExecutesNext(c, Op("PART_PREPARE_COMMIT", t))
    /\ IF HasWAL(c, t)
       THEN UNCHANGED <<bal, wal>>
       ELSE /\ bal' = [bal EXCEPT ![t.y] = @ + t.amt]
            /\ wal' = [wal EXCEPT ![c][t] = bal[t.y]]
    /\ datastore' = Appended(c, Op("PART_PREPARE_COMMIT", t))
    /\ net' = Sent(ReplyMsg(t, "commit", "part"))
    /\ UNCHANGED <<lock, clientTS, coordVars, preparing>>

ExecutePartPrepareAbort(t) ==
    /\ ExecutesNext(Part(t), Op("PART_PREPARE_ABORT", t))
    /\ datastore' = Appended(Part(t), Op("PART_PREPARE_ABORT", t))
    /\ net' = Sent(ReplyMsg(t, "abort", "part"))
    /\ UNCHANGED <<bal, lock, wal, clientTS, coordVars, preparing>>

\* Mutants: the balance is not restored; nobody looks for the WAL entry.
MutantNotUndone(c, t, i) == bal
MutantUndoneBlindly(c, t, i) == [bal EXCEPT ![i] = wal[c][t]]

\* WALUndo puts back the balance that the WAL entry holds.
Undone(c, t, i) == IF HasWAL(c, t) THEN [bal EXCEPT ![i] = wal[c][t]] ELSE bal

\* The commit or abort of an operation at cluster c, on its item i.
Settles(c, e, i) ==
    /\ ExecutesNext(c, e)
    /\ bal' = IF e.op \in {"COORD_ABORT", "PART_ABORT"} THEN Undone(c, e.txn, i) ELSE bal
    /\ wal' = [wal EXCEPT ![c][e.txn] = NoPreimage]
    /\ datastore' = Appended(c, e)
    /\ lock' = Released({i})

\* executeCoordCommit and executeCoordAbort; startAckRetry is ResendDecision.
ExecuteDecision(t, o) ==
    /\ Settles(Coord(t), Op(CoordOpFor(o), t), t.x)
    /\ clientTS' = [clientTS EXCEPT ![Coord(t)][t.client] = t.ts]
    /\ net' = Sent(DecisionMsg(t, o))
    /\ UNCHANGED <<coordVars, preparing>>

\* executePartCommit and executePartAbort: every replica acks.
ExecuteOutcome(t, o) ==
    /\ Settles(Part(t), Op(PartOpFor(o), t), t.y)
    /\ net' = Sent(AckMsg(t))
    /\ UNCHANGED <<clientTS, coordVars, preparing>>

-----------------------------------------------------------------------------
(***************************************************************************)
(* watchPreparePhase: resend PREPARE until a reply is collected or the     *)
(* outcome is being decided; at its deadline start the abort, again and    *)
(* again while the WAL entry is there.                                     *)
(***************************************************************************)
WatchDone(t) == t \in collected \/ t \in commitStarted

ResendPrepare(t) ==
    /\ watch[t] = "preparing"
    /\ ~WatchDone(t)
    /\ PrepareCopies(t) < MaxCopies
    /\ net' = Sent(PrepareMsg(t))
    /\ UNCHANGED <<storeVars, engineVars, coordVars, preparing>>

\* Mutant: a reply that comes after the deadline still decides.
MutantPrepareTimesOut(t) ==
    /\ PrepareMayTimeOut
    /\ watch[t] = "preparing"
    /\ ~WatchDone(t)
    /\ watch' = [watch EXCEPT ![t] = "aborting"]
    /\ UNCHANGED <<storeVars, engineVars, handler, crossBusy, commitStarted, collected,
                   acked, preparing, net>>

PrepareTimesOut(t) ==
    /\ PrepareMayTimeOut
    /\ watch[t] = "preparing"
    /\ ~WatchDone(t)
    /\ watch' = [watch EXCEPT ![t] = "aborting"]
    /\ commitStarted' = commitStarted \cup {t}
    /\ UNCHANGED <<storeVars, engineVars, handler, crossBusy, collected, acked, preparing, net>>

RetryAbort(t) ==
    /\ watch[t] = "aborting"
    /\ HasWAL(Coord(t), t)
    /\ Pending(Coord(t), Op("COORD_ABORT", t)) < MaxCopies
    /\ internalQueue' = Enqueued(Coord(t), Op("COORD_ABORT", t))
    /\ UNCHANGED <<storeVars, clientQueue, starting, inflight, reclaims, coordVars,
                   preparing, net>>

EndWatch(t) ==
    /\ \/ watch[t] = "preparing" /\ WatchDone(t)
       \/ watch[t] = "aborting" /\ ~HasWAL(Coord(t), t)
    /\ watch' = [watch EXCEPT ![t] = "off"]
    /\ UNCHANGED <<storeVars, engineVars, handler, crossBusy, commitStarted, collected,
                   acked, preparing, net>>

-----------------------------------------------------------------------------
(***************************************************************************)
(* Participant.HandlePrepare.  A PREPARE whose transfer is on record is    *)
(* answered with the certificate that came with it, the coordinator's; any *)
(* other waits until y is unlocked, or for some 500 ms, and is then handed *)
(* to the engine without another look at the records.                      *)
(***************************************************************************)
OnPrepare(t) ==
    LET c == Part(t) IN
    /\ net[PrepareMsg(t)] > 0
    /\ IF HasWAL(c, t) \/ PrepareRecords(t) # {}
       THEN /\ net' = [Received(PrepareMsg(t)) EXCEPT
                          ![ReplyMsg(t, IF HasWAL(c, t) THEN "commit" ELSE PrepareOutcome(t),
                                     "coord")] = @ + 1]
            /\ UNCHANGED preparing
       ELSE /\ net' = Received(PrepareMsg(t))
            /\ preparing' = [preparing EXCEPT ![t] = @ + 1]
    /\ UNCHANGED <<storeVars, engineVars, coordVars>>

\* Mutant: the participant votes yes although y stays locked.
MutantPrepareVote(t) == "PART_PREPARE_COMMIT"

PrepareVote(t) ==
    IF lock[t.y] = NoTransfer THEN "PART_PREPARE_COMMIT" ELSE "PART_PREPARE_ABORT"

DecidePrepare(t) ==
    /\ preparing[t] > 0
    /\ preparing' = [preparing EXCEPT ![t] = @ - 1]
    /\ internalQueue' = Enqueued(Part(t), Op(PrepareVote(t), t))
    /\ UNCHANGED <<storeVars, clientQueue, starting, inflight, reclaims, coordVars, net>>

\* Coordinator.HandleParticipantReply: the certificate must be the
\* participant cluster's.
OnStaleReply(t, o) ==
    /\ net[ReplyMsg(t, o, "coord")] > 0
    /\ net' = Received(ReplyMsg(t, o, "coord"))
    /\ UNCHANGED <<storeVars, engineVars, coordVars, preparing>>

\* Mutant: any reply is taken for a yes.
MutantDecisionsFor(t, o) ==
    IF t \notin commitStarted THEN <<Op("COORD_COMMIT", t)>> ELSE <<>>

\* maybeStartFinalCommit.  The first reply decides; a later yes starts an
\* abort, a later no is ignored.
DecisionsFor(t, o) ==
    CASE t \notin commitStarted -> <<Op(CoordOpFor(o), t)>>
      [] t \in commitStarted /\ o = "commit" -> <<Op("COORD_ABORT", t)>>
      [] OTHER -> <<>>

OnReply(t, o) ==
    /\ net[ReplyMsg(t, o, "part")] > 0
    /\ net' = Received(ReplyMsg(t, o, "part"))
    /\ collected' = collected \cup {t}
    /\ commitStarted' = commitStarted \cup {t}
    /\ internalQueue' = [internalQueue EXCEPT ![Coord(t)] = @ \o DecisionsFor(t, o)]
    /\ UNCHANGED <<storeVars, clientQueue, starting, inflight, reclaims, handler, crossBusy,
                   acked, watch, preparing>>

\* startAckRetry, for the outcome that was executed.
ResendDecision(t, o) ==
    /\ Recorded(Coord(t), Op(CoordOpFor(o), t))
    /\ t \notin acked
    /\ DecisionCopies(t, o) < MaxCopies
    /\ net' = Sent(DecisionMsg(t, o))
    /\ UNCHANGED <<storeVars, engineVars, coordVars, preparing>>

\* Participant.HandleCommit.  An abort of what was not prepared needs no
\* consensus; the ack is the primary's alone, fewer than f + 1, so it does
\* not end the retries.
OnDecision(t, o) ==
    /\ net[DecisionMsg(t, o)] > 0
    /\ net' = Received(DecisionMsg(t, o))
    /\ internalQueue' = IF o = "abort" /\ PrepareWasAbort(t)
                        THEN internalQueue
                        ELSE Enqueued(Part(t), Op(PartOpFor(o), t))
    /\ UNCHANGED <<storeVars, clientQueue, starting, inflight, reclaims, coordVars, preparing>>

OnAck(t) ==
    /\ net[AckMsg(t)] > 0
    /\ net' = Received(AckMsg(t))
    /\ acked' = acked \cup {t}
    /\ UNCHANGED <<storeVars, engineVars, handler, crossBusy, commitStarted, collected, watch,
                   preparing>>

-----------------------------------------------------------------------------
ClientHandler(t, k) ==
    \/ AcquireCrossSlot(t, k)
    \/ CrossSlotExpires(t, k)
    \/ StartPrepare(t, k)
    \/ DropClientRequest(t, k)

Ingress(c) == Take(c) \/ Propose(c) \/ BurnSequence(c) \/ Refuse(c)

Execute(t) ==
    \/ ExecuteCoordPrepare(t)
    \/ ExecutePartPrepareCommit(t)
    \/ ExecutePartPrepareAbort(t)
    \/ \E o \in Outcome : ExecuteDecision(t, o) \/ ExecuteOutcome(t, o)

Receive(t) ==
    \/ OnPrepare(t)
    \/ \E o \in Outcome : OnStaleReply(t, o) \/ OnReply(t, o) \/ OnDecision(t, o)
    \/ OnAck(t)

Next ==
    \/ \E t \in Transfer, k \in Handler : Submit(t, k) \/ ClientHandler(t, k)
    \/ \E c \in Cluster : Ingress(c) \/ Reclaim(c)
    \/ \E t \in Transfer :
        \/ Execute(t)
        \/ Receive(t)
        \/ DecidePrepare(t)
        \/ ResendPrepare(t)
        \/ PrepareTimesOut(t)
        \/ RetryAbort(t)
        \/ EndWatch(t)
        \/ \E o \in Outcome : ResendDecision(t, o)

Spec == Init /\ [][Next]_vars

(***************************************************************************)
(* Goroutines are scheduled, messages that were sent arrive, the quorum of *)
(* a cluster executes what was proposed, the retry tickers tick, and the   *)
(* waits for locks and slots end at their deadlines.  Nothing is assumed   *)
(* of Submit, Reclaim and PrepareTimesOut.                                 *)
(***************************************************************************)
Fairness ==
    /\ \A t \in Transfer, k \in Handler : WF_vars(ClientHandler(t, k))
    /\ \A c \in Cluster : WF_vars(Ingress(c))
    /\ \A t \in Transfer :
        /\ WF_vars(Execute(t))
        /\ WF_vars(OnPrepare(t))
        /\ WF_vars(DecidePrepare(t))
        /\ WF_vars(ResendPrepare(t))
        /\ WF_vars(RetryAbort(t))
        /\ \A o \in Outcome :
            /\ WF_vars(OnStaleReply(t, o))
            /\ WF_vars(OnReply(t, o))
            /\ WF_vars(OnDecision(t, o))
            /\ WF_vars(ResendDecision(t, o))

FairSpec == Spec /\ Fairness

-----------------------------------------------------------------------------
(***************************************************************************)
(* Safety.                                                                 *)
(***************************************************************************)
Total == MapThenSumSet(LAMBDA i : bal[i], Item)

NothingOutstanding == \A c \in Cluster : \A t \in Transfer : ~HasWAL(c, t)

\* When no store holds a WAL entry (the quiescence that the benchmark waits
\* for before it compares sums) no money has been created or destroyed: every
\* debit has met exactly one credit, or was undone.
ConservedAtQuiescence == NothingOutstanding => Total = InitialBalance * Cardinality(Item)

\* A transfer commits at the coordinator only if the participant cluster has
\* agreed to the credit, and ends at the participant only the way the
\* coordinator cluster has recorded (VerifyClusterCert, commitStarted).
OutcomesAreBacked ==
    \A t \in Transfer :
        /\ Recorded(Coord(t), Op("COORD_COMMIT", t)) =>
               Recorded(Part(t), Op("PART_PREPARE_COMMIT", t))
        /\ \A o \in Outcome :
               Recorded(Part(t), Op(PartOpFor(o), t)) =>
                   Recorded(Coord(t), Op(CoordOpFor(o), t))

\* The coordinator cluster never records both outcomes of a transfer: the
\* timeout of the prepare phase, the late reply and the duplicate reply all
\* have to get past commitStarted and the lock of x first.
DecidedOnce ==
    \A t \in Transfer :
        ~ /\ Recorded(Coord(t), Op("COORD_COMMIT", t))
          /\ Recorded(Coord(t), Op("COORD_ABORT", t))

\* However often clients resend it, a transfer is debited at most once: the
\* second look at commitStarted after the waits of HandleClientRequest,
\* clientTxnInFlight and the lock of x leave no gap between them.
DebitedAtMostOnce ==
    \A t \in Transfer : \A i, j \in DOMAIN datastore[Coord(t)] :
        datastore[Coord(t)][i] = Op("COORD_PREPARE", t) /\
        datastore[Coord(t)][j] = Op("COORD_PREPARE", t) => i = j

\* A coordinator cluster works on one cross-shard prepare at a time
\* (crossBusy), whatever is dropped, reclaimed or resubmitted.
OneCoordPrepareAtATime ==
    \A c \in Cluster :
        LET ops == clientQueue[c] \o starting[c] \o inflight[c]
        IN  Cardinality({i \in DOMAIN ops : ops[i].op = "COORD_PREPARE"}) <= 1

\* No other transfer moves an item of t.
OwnSource(t) == \A u \in Transfer : t.x \in {u.x, u.y} => u = t
OwnItems(t) == OwnSource(t) /\ \A u \in Transfer : t.y \in {u.x, u.y} => u = t

\* A sender has lost the amount of its transfer as long as that is prepared and
\* for good if the coordinator commits it, and nothing otherwise, whatever of
\* HandleClientRequest, watchPreparePhase and HandleParticipantReply overlaps:
\* resubmissions, second votes, an abort at the deadline. Items that other
\* transfers move as well are left to the properties below.
SourceAccounted ==
    \A t \in Transfer : OwnItems(t) =>
        bal[t.x] = InitialBalance -
            IF HasWAL(Coord(t), t) \/ Recorded(Coord(t), Op("COORD_COMMIT", t))
            THEN t.amt ELSE 0

\* What a prepared transfer has changed stays locked for it until the commit
\* or abort has executed, so the preimage in the WAL is still good.
PreparedHoldsLock ==
    \A t \in Transfer :
        /\ HasWAL(Coord(t), t) => lock[t.x] = t
        /\ HasWAL(Part(t), t) => lock[t.y] = t

\* Every assigned sequence number is filled, so the cluster can go on.
NoSequenceHole == \A c \in Cluster : \A i \in DOMAIN inflight[c] : inflight[c][i].op # "HOLE"

-----------------------------------------------------------------------------
(***************************************************************************)
(* Refinement: seen from outside, a transfer happens when the coordinator  *)
(* cluster records the commit.  Until then the debit of x is the           *)
(* coordinator's and the credit of y the participant's secret.             *)
(***************************************************************************)
Committed(t) == Recorded(Coord(t), Op("COORD_COMMIT", t))

Decided(t) ==
    CASE Committed(t) -> "commit"
      [] ~Committed(t) /\ Recorded(Coord(t), Op("COORD_ABORT", t)) -> "abort"
      [] OTHER -> "open"

Debits(i) == {t \in Transfer : t.x = i /\ HasWAL(Coord(t), t)}
Credits(i) == {t \in Transfer : t.y = i /\ HasWAL(Part(t), t) /\ ~Committed(t)}

Visible == [i \in Item |-> bal[i] + MapThenSumSet(LAMBDA t : t.amt, Debits(i))
                                  - MapThenSumSet(LAMBDA t : t.amt, Credits(i))]

Abstract == INSTANCE AtomicTransfer WITH
                balance <- Visible, outcome <- [t \in Transfer |-> Decided(t)]

\* Two clusters, two locks and two WALs implement transfers that happen in
\* one step or not at all and are decided once.
ImplementsAtomicTransfer == Abstract!Spec

-----------------------------------------------------------------------------
(***************************************************************************)
(* Liveness.                                                               *)
(***************************************************************************)
Finished(t) ==
    /\ Decided(t) # "open"
    /\ ~HasWAL(Coord(t), t) /\ ~HasWAL(Part(t), t)
    /\ lock[t.x] # t /\ lock[t.y] # t

\* Once x is debited the transfer is decided and every trace of it is cleared
\* on both sides, although clusters wait for one another in a cycle: the
\* deadlines of the lock waits break it.
PreparedTransfersFinish ==
    \A t \in Transfer : HasWAL(Coord(t), t) ~> Finished(t)
=============================================================================
