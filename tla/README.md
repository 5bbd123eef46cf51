# ByzBank verification

TLA+ models of ByzBank (`src/ByzBank`), a replicated bank that is sharded over
clusters. Each cluster runs a linear PBFT; a transfer between two clusters runs
a two-phase commit on top. The models are written from the Go code; the reports
and plans of the repository were used only to learn what the code is meant to
do. Where code and documents disagree, a run shows it (section "Disagreements").

Paths below are relative to `src/ByzBank`.

## 1. Inventory

| Component | Code | State | Operations |
|---|---|---|---|
| PBFT engine, normal case | `internal/pbft/engine.go`, `messages.go`, `sender.go` | sequence log of slots, `nextSeq`, `execSeq`, ingress channels | start consensus, votes, certificates, execute, reclaim and discard a slot |
| PBFT view change | `internal/pbft/viewchange.go` | view, VIEW-CHANGE messages, pending requests, timer | time out, vote for a view, issue and install it |
| Two-phase commit | `internal/twopc` and the cross-shard operations of `engine.go` | cross-shard slot, `commitStarted`, replies and acks collected, retry goroutines | client request, prepare, vote, decide, settle, ack |
| Store | `internal/store` | balances, locks, datastore, write-ahead log, client timestamps (bbolt) | transfer, debit, credit, lock, WAL write/undo/delete |
| Topology | `internal/config` | fixed after start | quorum sizes, sharding, primary of a view |
| Replica server | `internal/server`, `cmd/server` | wiring of the above | dispatch every envelope to a goroutine of its own; HTTP control |
| Transport | `internal/transport` | connections, inbound buffer | sign, send, verify, deliver |
| Signatures | `internal/crypto`, `cmd/keygen` | keys | sign, verify |
| Clients and test-set runner | `internal/client`, `internal/pbft/client.go`, `internal/testcase`, `cmd/client` | requests outstanding | send, resend, wait for F + 1 replies, settle, drain, reset |
| SmallBank | `internal/smallbank` | account schema, metrics | banking transactions as transfers, conservation check |
| Generated code, scripts | `internal/pb`, `api`, `internal/deps`, `scripts`, `*.py` | none of interest | none of interest |

How they interact:

* The **engine** of the primary takes requests from two ingress channels (client
  and internal; client first) and starts them one after another. It assigns a
  sequence number, takes the locks of the items in the **store**, and broadcasts
  a pre-prepare. Backups vote to the primary alone, which collects 2f + 1 votes
  and broadcasts a certificate, twice. With the commit certificate each replica
  executes its log in sequence order and releases the locks.
* The **two-phase commit** hangs on hooks that the engine calls when it executes
  a cross-shard operation. The coordinator cluster (of the debited item) agrees
  on COORD_PREPARE, the participant cluster (of the credited item) on
  PART_PREPARE_COMMIT or PART_PREPARE_ABORT, the coordinator on COORD_COMMIT or
  COORD_ABORT, the participant on PART_COMMIT or PART_ABORT. Between clusters
  travel PREPARE, the reply, the decision and the acks, each carrying a
  certificate; PREPARE and the decision are resent every 300 ms.
* Balances change at prepare; the WAL holds the balance to put back at an abort.

What is hard about it, and what makes each component correct:

* *Engine.* Every message is handled in its own goroutine, so certificates,
  votes and DISCARD_SEQs overtake each other; a slot is claimed under the mutex
  but applied after it; a handler may wait seconds for a lock and then act on a
  slot that has moved on; a sequence number that found no quorum is used again.
  Correct means: commitments agree and are final, no committed slot is lost, a
  transfer is applied once and in order, the balance and the locks on which a
  proposal was accepted are still there at its execution, locks come free.
* *View change.* A new primary must re-propose what may have committed, while
  replicas go on working in the old view, VIEW-CHANGE messages arrive in any
  order and the pre-prepares of a NEW-VIEW are accepted one by one, each after
  a wait for locks. Correct means: agreement across views, nothing is executed
  twice, and a silent primary does not stop the cluster.
* *Two-phase commit.* Retries overlap the handling of earlier copies; timeouts
  race replies; commits and aborts release locks by item, not by owner; two
  clusters can wait for each other's locks through their ingress loops. Correct
  means: atomicity and conservation of money, one decision, at most one debit,
  the lock protects the WAL preimage, every debited transfer ends.
* *Topology.* Integer division in quorum sizes and sharding. Correct means: a
  quorum is reachable with f silent, two quorums share a correct replica,
  every item has one cluster, every replica gets its turn as primary.
* *Clients and runner.* Resending while a request is in flight, resetting
  replicas while handlers are running.
* *SmallBank.* One banking transaction may be two transfers, the driver has a
  deadline for everything, and the conservation check reads the balances while
  transfers may still be moving. Correct means: the second transfer of an
  Amalgamate never moves money when the first did not, and the check complains
  only when money has vanished or was moving.

The hazards, each at its line and with the properties that cover it, are listed
in `PROJECT.json`.

## 2. Modules

| Module | Contents |
|---|---|
| `LinearPBFT` | the engine of every replica of one cluster in one view, intra-shard transfers |
| `ReplicatedLog` | what the engine promises: one log that the replicas share |
| `LinearPBFT_proofs` | type correctness of the engine; agreement and finality of commitments; it implements `ReplicatedLog` |
| `LinearPBFT_execution` | a cluster that has reclaimed nothing: locks, funds, cursor, certificates, one application per request, order of application |
| `MCLinearPBFT` | small instances of the engine |
| `ViewChange`, `MCViewChange` | the engine across views, and small instances |
| `ViewChange_proofs` | its type correctness, and agreement and single execution over one change of view |
| `TwoPhaseCommit` | coordinator and participant, each cluster one state machine |
| `AtomicTransfer` | what a transfer promises, whatever carries it out |
| `TwoPhaseCommit_proofs` | type correctness, backing of outcomes, one prepare at a time, whatever is retried or times out |
| `TwoPhaseCommit_transfers` | one debit, one vote, one decision, locks, atomicity and money where retries do not overlap; one debit, one decision and the sender's money where they do |
| `FiniteSums` | sums of integers over finite sets, for the proofs about money |
| `MCTwoPhaseCommit` | small instances of it |
| `SmallBank`, `MCSmallBank` | benchmark, driver and conservation check, and a small instance |
| `SmallBank_proofs` | its types and its two safety properties |
| `Topology`, `Topology_proofs`, `MCTopology` | quorum arithmetic, sharding, rotation of the primary |

### LinearPBFT

One state machine per replica (`log`, `execSeq`, `lock`, `bal`, `clientTS`,
`datastore`), the primary's `nextSeq`, and a set of messages in flight. A message
is handled in any order or never. The pieces that the code runs outside the
engine mutex are actions of their own:

* `tasks` holds the slots whose `processPrePrepare` is waiting for locks
  (`OnPrePrepare` starts it, `LockAndPrepare` or `LockWaitExpires` ends it);
* `applying` holds the slots that `tryExecute` has claimed and moved the cursor
  past, but whose `executeIntra` has not run (`Apply`).

`StartConsensus` is the whole of `startConsensus`; `StartSelfTransfer` is its
path for a transfer whose second lock can never be taken; `Reclaim` is
`watchPrepareQuorum` running out with `reclaimSeq`. A digest is the request, a
signature its signer, a certificate the set of its signers. The faults are those
that the code's fault configuration can produce: replicas that are down and live
backups that send no PREPARE.

`ReplicatedLog` is the abstract specification of it, with two variables: what
each replica has learnt of each slot, and which slots it has started. A slot is
learnt once and for all, and the same by everybody; a replica starts only learnt
slots, in ascending order and each once. `LinearPBFT` implements it (checked and
proved) when "learnt" is holding a commit certificate and "started" is having
been claimed by `tryExecute`. The order in which claimed slots are *applied* is
not part of it, because the code does not keep that order in general (see
"Disagreements").

### ViewChange

The same engine with less detail inside a view and with everything that depends
on the view: `view`, `nextSeq`, `execSeq`, log, locks, client timestamps and
pending requests per replica, and the suspicion timer, which is nil, armed, or
fired and kept (`scheduleViewChangeTimerLocked` looks only at nil).

| Code | Model |
|---|---|
| `startConsensus`, `onPrePrepare`, `processPrePrepare` | `StartConsensus`, `OnPrePrepare`, `LockAndPrepare` |
| `onPrepare` ... `onCommitCert`, `tryExecute` | `OnPrepare`, `OnPrepareCert`, `OnCommit`, `OnCommitCert`, with `TryExecute` |
| `onBackupClientRequest` | `OnBackupClientRequest` |
| the callback of `scheduleViewChangeTimerLocked`, `triggerViewChange`, `buildViewChangeLocked` | `Timeout`, `TriggerViewChange`, `BuildViewChange` |
| `onViewChange`, with joining at f + 1 | `OnViewChange` |
| `tryIssueNewView`, `buildNewViewLocked` | `TryIssueNewView`, `NewViewsFor`, `EnterView` |
| `onNewView`, `acceptNewViewPrePrepare` | `OnNewView`, then `AcceptNewViewPrePrepare` once per pre-prepare |

A phase message is handled once, in any order or never. VIEW-CHANGE, NEW-VIEW and
votes stay in the sets of what was sent, since handling them later or twice has
no further effect. `buildNewViewLocked` walks Go maps while it raises
`maxStable`, so its outcome depends on the order: `NewViewsFor` is the set of
outcomes over all orders. `onNewView` unlocks before it accepts the pre-prepares of
the message, so each is an action of its own, and other messages of the new view
may be handled in between.

### TwoPhaseCommit

A cluster is one state machine: operations start at its primary, get a place in
`inflight` and execute in order. `LinearPBFT` is what that rests on, and its
runs also show where it does not hold (apply order, holes); `HOLE` operations and
`Reclaim` carry the part of it that two-phase commit triggers itself.

| Code | Model |
|---|---|
| `HandleClientRequest` goroutine | `handler[t][k]`: `Submit`, `AcquireCrossSlot`, `CrossSlotExpires`, `StartPrepare`, `DropClientRequest` |
| ingress channels and `startConsensus` | `clientQueue`, `internalQueue`, `starting`: `Take`, `Propose`, `BurnSequence`, `Refuse` |
| `reclaimSeq` | `Reclaim` |
| `execute...` functions with their hooks | `ExecuteCoordPrepare`, `ExecutePartPrepareCommit`, `ExecutePartPrepareAbort`, `ExecuteDecision`, `ExecuteOutcome` |
| `watchPreparePhase` goroutine | `watch[t]`: `ResendPrepare`, `PrepareTimesOut`, `RetryAbort`, `EndWatch` |
| `HandlePrepare` goroutine | `preparing[t]` counts those past the record check: `OnPrepare`, `DecidePrepare` |
| `HandleParticipantReply`, `maybeStartFinalCommit` | `OnStaleReply`, `OnReply`, `DecisionsFor` |
| `startAckRetry` | `ResendDecision` |
| `HandleCommit`, `HandleParticipantAck` | `OnDecision`, `OnAck` (one ACK stands for those of f + 1 replicas) |

`lock` records which transfer took a lock, which the store does not know (it has
the sequence number); nothing in the model reads the owner, only properties do.

`AtomicTransfer` has two variables, the balances and the outcome of every
transfer: a transfer moves its amount in one step or not at all and is decided
once. `TwoPhaseCommit` implements it under the mapping that gives a debited and
undecided amount back to the sender and hides a credit until the coordinator
cluster has recorded the commit.

### SmallBank

The schema of accounts on items, the requests of every kind of operation
(`txns.go`), and the driver as a sequence of phases: fund the treasury, submit
operations without waiting, wait for the second halves of Amalgamates, settle,
drain, wait for the write-ahead logs to be clear, sum up. Every phase has a
deadline in the code, and in the model may end before or after any step of the
clusters. The clusters are a ledger seen at their primaries: a request inside a
cluster takes effect at once or never; one between two clusters is prepared at
both, decided and settled, or undone, or lingers.

### Topology

The layout is a constant chosen at start; only the view moves. Operators are the
functions of `topology.go`.

## 3. Runs

All times and sizes are of small instances; every run finishes.

### Passing

| Run | Shows |
|---|---|
| `pbft_interleavings` | `TypeOK`, `CertificatesAreBacked`, `NoCommittedSlotSkipped`, `AppliedAtMostOnce`, `PrimaryHoldsItsLocks`, `FundsStayReserved`: four replicas, two slots, transfers that spend one another's credit or would overdraw an item together, all interleavings, lock waits may expire |
| `pbft_exact_quorum` | `LocksReleasedAfterCommit`, `AppliedInOrder`, and the liveness property `EveryTransferAnswered` with just 2f + 1 replicas up |
| `pbft_reclaim` | `CommittedAgreement`, `CommitmentIsFinal` and the refinement `ImplementsReplicatedLog` with one number reclaimed and proposed again up to twice; one of the transfers is from an item to itself |
| `vc_in_flight` | `TypeOK`, `ExecutedOnce`, `AgreementUnlessLateVotes`: the primary works, but two backups hold a request that contends with the one in flight, suspect it and change the view in the middle of its slot |
| `vc_silent_leader` | the liveness property `EveryTransferAnswered`: the primary proposes nothing, the two backups that the client reaches bring about the change, and the next primary executes |
| `twopc_crossing` | transfers in opposite directions, two clusters that may wait for one another: `ConservedAtQuiescence`, `NoSequenceHole`, `OutcomesAreBacked`, `PreparedHoldsLock`, the refinement `ImplementsAtomicTransfer` and the liveness property `PreparedTransfersFinish` |
| `twopc_resubmit` | `DebitedAtMostOnce`, `OneCoordPrepareAtATime`: two concurrent submissions of each of two transfers of one item, one reclaim |
| `twopc_retries` | `TypeOK`, `DecidedOnce`, `SourceAccounted`: two copies of every retried message handled at once, the prepare deadline may run out |
| `smallbank` | `TypeOK`, `NoFalseAlarm`, `AmalgamateInOrder`: one operation of each kind, between two clusters in both directions, with every deadline racing every answer |
| `topology_layouts` | `QuorumReachable`, `ItemsAreSharded`, `EveryReplicaLeads` in every layout up to 3 clusters of 7 |

Sizes: about 726k states for `pbft_interleavings`, 753k for `pbft_reclaim`, 886k for
`vc_in_flight`, 3k for `vc_silent_leader`, 131k for `twopc_crossing` (most of its two
and a half minutes go into the liveness property), 19k for `twopc_resubmit`, 1.85M
for `twopc_retries`, 2.4M for `smallbank`.

### Disagreements

Each of these runs is expected to end in a violation of one property that a
document of the repository states; `PROJECT.json` quotes the line.

| Run | What TLC finds |
|---|---|
| `vc_divergence` | `inViewChange` is set (`pbft/viewchange.go:62`) and never read: after its VIEW-CHANGE a replica goes on voting in the old view, a slot commits there that no VIEW-CHANGE mentions, and the new primary gives its number to another request. `AgreementUnlessLateVotes` in `vc_in_flight` shows that this is the only way to it there |
| `pbft_open_loop` | `executeIntra` sets the timestamp of the client to that of whatever it executed last (`pbft/engine.go:604`): with two transfers of one client outstanding it can move back, and a resent transfer that was executed is executed again |

Other behaviour that departs from what one would expect of the code, each found
with these modules by changing the constants named:

* `reclaimSeq` moves the cursor past a slot and hands its number out again, so
  the next request under it commits behind the cursor and never executes
  (`NoCommittedSlotSkipped`; four replicas, `Down = {b3}`, `ContendingTransfers`,
  `MaxSeq = 1`, `MaxReclaims = 1`).
* `reclaimSeq` ends with the primary's own `onDiscardSeq` (`pbft/engine.go:1232`),
  which releases the locks of the slot's request a second time, whoever has them by
  then. Two transfers from one item can then be in flight together; the primary
  drops one of them for its balance while a backup that applies them in the other
  order records it, and when the client resends it the backup applies it again
  (`AppliedAtMostOnce`; `p` and `b1` with `F = 0`, `MaxSeq = 6`, `MaxReclaims = 1`,
  four transfers, no client with two of them outstanding; a trace of 46 steps).
* Two goroutines apply two claimed slots in the wrong order, so a transfer that
  spends an earlier credit is dropped at one replica only (`AppliedInOrder`;
  `CompetingTransfers`, `MaxSeq = 2`, `LockWaitMayExpire = TRUE`).
* A PART_ABORT of a transfer that never locked its item frees the item for
  others, and a prepared transfer that its client resends is then debited a
  second time (`DebitedAtMostOnce`; `Crossing` with `PrepareMayTimeOut = TRUE`).
* Two goroutines handle copies of one PREPARE and the item is credited twice
  (`ConservedAtQuiescence`; `Single`, `MaxCopies = 2`, `PrepareMayTimeOut = FALSE`).
* Where two transfers credit one item, one of them can be decided both ways. The
  PART_ABORT of the other, which timed out, frees the item although the first has
  locked it; a second copy of the first's PREPARE is then agreed on, and its yes
  starts COORD_ABORT while COORD_COMMIT waits to execute (`DecidedOnce`; transfers
  from `a1` and `a2` to `b1`, `MaxHandlers = 1`, `MaxCopies = 2`,
  `PrepareMayTimeOut = TRUE`; a trace of 40 steps).
* A new primary that has the requests of a silent predecessor and is reached by
  the client too can give one request two slots: its NEW-VIEW proposes the pending
  request in slot 1, and the client's copy starts slot 2 before slot 1 is
  executed (`ExecutedOnce`;
  `Reached <- NewPrimaryAndBackup` in `vc_silent_leader`).
* The timer stays non-nil after it has fired (`pbft/viewchange.go:38`), so when the
  next primary is silent too nobody suspects it (`EveryTransferAnswered`;
  `MaxView = 2` with the leaders of views 0 and 1 in `ByzantineLeader`). Two
  silent leaders are more than f = 1 covers.
* With 12 replicas, the default layout, and f = 3, two quorums of 2f + 1 share
  only 2 replicas: the theorem `QuorumsIntersect` needs n = 3f + 1.

The passing runs check the same properties where the code does keep them.

### Bounds

* `MaxSeq` (1 or 2; 3 in `pbft_open_loop`, which needs a slot for each of two
  transfers and one for the copy): two slots are enough for overtaking, cursor
  and gap errors; each is about a slot and its neighbour.
* `MaxReclaims`: how often a slot is given up. Reclaiming forgets votes, so a
  prepare certificate of an earlier round no longer describes the slot:
  `CertificatesAreBacked`, `PrimaryHoldsItsLocks` and `FundsStayReserved` are
  properties of a cluster that does not reclaim and their runs set it to 0;
  agreement and finality hold with any number (proved).
* `pbft_reclaim` has a cluster of two with F = 0, so that two reclaims and three
  rounds of messages stay small; the proofs of agreement and of the refinement
  do not depend on it. `pbft_open_loop` has the same cluster, because the
  violation lies in one replica's timestamps.
* `LockWaitMayExpire`: whether `LockWaitTimeout` can run out while the holder of
  the lock still works. `pbft_exact_quorum` needs FALSE, since one backup that
  gives up is one vote too few there.
* `MaxView = 1`: one change of view, with a slot on either side of it. Nothing is
  reclaimed, lock waits do not expire and committed slots run in one step in
  `ViewChange`; those are the subject of `LinearPBFT`. `Reached` says which
  replicas a client gets its request to: the primary for one and two backups
  for the other, so that both the old and the new primary have something to
  propose.
* `MaxHandlers`: concurrent submissions of one transfer. Two are enough for each
  to see the state before and after the other.
* `MaxCopies` counts the copies of one retried message that are in flight or
  being handled. With 1 a retry never overlaps the handling of an earlier copy,
  which is the normal case with a ticker of 300 ms; with 2 it does. The sequence
  numbers a decision has burnt count too, otherwise the number of states would
  be infinite.
* `PrepareMayTimeOut`: whether the 45 s of `CoordPrepareAbortTimeout` can run out.
  The passing runs about locks and money set it to FALSE, because a timeout
  leads to the behaviour listed above; `twopc_retries` sets it to TRUE.
* Two transfers and two clusters: the hazards of the two-phase commit are about
  two transfers that share an item or a cluster.
* `smallbank` has one customer per cluster and one operation of each of the six
  kinds. Two polls of the write-ahead logs in a row are quiet in the model as in
  the code.
* Symmetry is used only in safety runs, for backups of the same fault
  configuration.

`CHECK_DEADLOCK FALSE` stands in every cfg: the system is done when the finitely
many requests are.

### Fairness

* `LinearPBFT!FairSpec`: every message that was sent is handled, and the
  goroutines that wait for locks or have claimed a slot run. A process that
  is up reads its inbound channel and the Go scheduler runs its goroutines.
  Nothing is assumed of reclaims and lock-wait timeouts.
* `ViewChange!FairSpec`: the same; besides, a timer that is armed fires if nothing
  stops it, VIEW-CHANGE and NEW-VIEW are handled, the pre-prepares of a NEW-VIEW
  are accepted one after another, and clients resend to the replicas they reach.
* `TwoPhaseCommit!FairSpec`: the same for the handlers of the two-phase commit,
  the ingress loop, the execution of proposed operations (by a quorum that is
  up), and the tickers of the retries. The waits for locks and for the
  cross-shard slot end at their deadlines, which is code (`acquireCrossSlot`,
  `waitItemUnlocked`, `waitAcquirableForOp`) and what breaks the cycle of two
  clusters that wait for one another. Nothing is assumed of clients, reclaims
  and the prepare deadline. The 45 s limits on the retries are not modelled, so
  the property says what happens while retries go on.

## 4. Proofs

| Theorem | Module | Says |
|---|---|---|
| `TypeCorrect` | `LinearPBFT_proofs` | every variable keeps its type, in particular no balance becomes negative |
| `Agreement` | `LinearPBFT_proofs` | two replicas never hold commit certificates for different requests in one slot |
| `Finality` | `LinearPBFT_proofs` | no step takes a commitment back |
| `Refinement` | `LinearPBFT_proofs` | the engine implements `ReplicatedLog` |
| `LocksHeld`, `FundsHeld` | `LinearPBFT_execution` | as long as nothing was reclaimed, what the primary locked and checked for a proposal is there until it is applied |
| `NothingSkipped` | `LinearPBFT_execution` | as long as nothing was reclaimed, no cursor passes a committed slot that was not executed |
| `CertificatesBacked` | `LinearPBFT_execution` | as long as nothing was reclaimed, a commit certificate stands for a quorum of prepare certificates, and each of those for a quorum that accepted the proposal |
| `AppliedOnce`, `AppliedOnceByLocks` | `LinearPBFT_execution` | as long as nothing was reclaimed, no replica applies a request twice, if no client has two transfers in flight, or if the transfers of a client share an item |
| `LocksReleased` | `LinearPBFT_execution` | the same with an exact quorum: an applied transfer holds no lock |
| `ContendersOrdered`, `AppliedOrdered` | `LinearPBFT_execution` | the same: transfers that share an item are applied in the order of their slots, and all slots are if all transfers share items |
| `TypeCorrect` | `ViewChange_proofs` | the types of the engine across any number of views |
| `Agreement` | `ViewChange_proofs` | `AgreementUnlessLateVotes` in a cluster of 3F + 1 that changes view once |
| `ExecutesOnce` | `ViewChange_proofs` | in such a cluster no replica executes a request twice, if what a leader starts is pending nowhere else |
| `TypeCorrect` | `TwoPhaseCommit_proofs` | the same of the two-phase commit |
| `Outcomes` | `TwoPhaseCommit_proofs` | `OutcomesAreBacked`: a COORD_COMMIT is recorded only after the participant cluster recorded its yes, a PART_COMMIT or PART_ABORT only after the coordinator cluster recorded the same decision |
| `OnePrepare` | `TwoPhaseCommit_proofs` | a coordinator cluster works on one cross-shard prepare at a time |
| `HoldsLock`, `NoHole`, `OneOutcome`, `OneDebit` | `TwoPhaseCommit_transfers` | where retries do not overlap: a prepared transfer keeps its lock, no number is used for nothing, one decision, at most one debit |
| `OneDebitRetried` | `TwoPhaseCommit_transfers` | however often anything is resent, reclaimed or times out, a transfer is debited at most once, if no other moves its sender's item |
| `OneOutcomeRetried` | `TwoPhaseCommit_transfers` | nor is it both committed and aborted, if no other moves an item of it |
| `SourceIsAccounted` | `TwoPhaseCommit_transfers` | and its sender has lost the amount just when it is prepared or committed |
| `Atomic` | `TwoPhaseCommit_transfers` | where retries do not overlap the same condition the clusters implement `AtomicTransfer` |
| `Conserved` | `TwoPhaseCommit_transfers` | under the same condition money is conserved |
| `TypeCorrect`, `NoFalseAlarms`, `AmalgamateOrdered` | `SmallBank_proofs` | the types and both safety properties of the benchmark |
| `QuorumsReachable` | `Topology_proofs` | a quorum is left when f replicas of a cluster are silent |
| `Sharding`, `Rotation` | `Topology_proofs` | every item has one cluster, every replica leads some view |
| `QuorumsIntersect` | `Topology_proofs` | quorums of 2f + 1 share f + 1 replicas when n = 3f + 1 |
| `CollectorQuorumsIntersect` | `Topology_proofs` | quorums of n - f share f + 1 replicas for every n |

They hold for every value of the constants that the named assumptions of the
modules allow, in particular for every cluster, set of requests and bound. Where a
theorem has a condition of its own, it is in its statement:

* `reclaims = 0`: the cluster has given up no slot. Reclaiming breaks
  `NoCommittedSlotSkipped` and `AppliedAtMostOnce`, the latter even where no client
  has two transfers outstanding ("Disagreements").
* `OneOutstanding`: no client has two transfers in flight at the primary, as when
  it waits for the reply before it sends the next. `pbft_open_loop` shows that the
  theorem fails without it.
* `ExactQuorum`: no more replicas are up than a quorum needs, such as F silent ones
  in a cluster of 3F + 1. With a replica to spare, slots are applied out of order
  ("Disagreements").
* `SingleCopies`: of a retried message one copy is under way, the prepare deadline
  does not run out, and no two transfers agree in items and amount, by which alone
  `prepareOutcome` tells them apart. "Disagreements" has what happens otherwise.
  Resubmissions by clients, lock waits that expire and reclaims are all inside.
* `OwnSource`, `OwnItems`: no other transfer moves the item that a transfer debits, or
  either item of it. Nothing else is asked there: any number of copies, timeouts,
  resubmissions and reclaims. A lock is released for an item and not for its owner,
  so what another transfer does late frees the item of this one, which leads to a
  second debit or a second decision ("Disagreements").
* `OneChange`: 3F + 1 replicas, two views. `QuorumsIntersect` needs 3F + 1 as well.
* `RequestsApart`: the leader of view 1 starts no request of a client directly, what
  the leader of view 0 starts has reached no other replica, and no client has two
  requests there. The requests `Divided` of `vc_in_flight` are such. A request that
  reaches both a primary and a backup is executed twice ("Disagreements"), and so may
  be one of two requests of one client that its primary starts in descending order of
  their timestamps, since the second moves `clientTS` back.

### The engine in one view

*Agreement.* The property is not inductive: it says nothing of the messages in
flight, of the primary, or of the slots that are going to be proposed again.
`AgreementInv` adds what is needed. In this protocol the primary is the only
collector, so there is no need to count votes. A COMMIT_CERT in flight names the
request of a slot that the primary itself holds as committed
(`CertsComeFromPrimary`), every committed slot agrees with the primary's
(`CommitsMatchPrimary`), a committed slot of the primary is live and below
`nextSeq` (`SlotShape`, `NextSlotsUnproposed`), and nobody sends the primary a
pre-prepare (`PrePreparesGoToBackups`), so it is never discarded, reclaimed or
proposed again. Each action is first shown to treat a slot in one of five ways
(lemmas `Effect...`), and the invariant and `Finality` follow from those five
ways alone.

*Refinement.* To agreement and finality the mapping adds the cursor:
`ClaimsBehindCursor` says that a claimed slot is committed and lies behind the
cursor of its replica. Since cursors never move back (lemmas `Claims...`), what
is claimed next is above everything claimed before. The invariant holds with
reclaims, tombstones and re-proposals; a slot that is proposed again behind the
cursor is not claimed at all, which the abstract log allows.

*Locks, funds and cursor.* `ReleaseLock` and the lock taking of a waiting task do
not ask who owns a lock. `LocksInv` says why they need not while nothing has been
discarded: the slots in flight at the primary have disjoint items, each locked
by its own slot, because a proposal needs its items free and a task takes only
items that are free or its own; and only a slot in flight is applied
(`AppliesClaimed`), so the release hits no other slot.

*Certificates.* A vote is a claim about the slot of its sender, and is copied into
certificates long after it was sent. `CertsInv` says of every task, message and
slot that the claims in it hold now. They stay true because a live slot is never
proposed again and a prepare certificate is replaced only by one that is as good
(`CertStep`); each action is shown to be such a step.

*Applied once.* A resent request meets three guards, each good for a part of the
life of the first copy: the search of the log until it is claimed, its own locks
until it is applied, and the timestamp of its client afterwards. `OnceInv` says
that the timestamp of the primary is at that of every applied slot and below that
of every slot in flight (`SeenInv`); with one transfer of a client in flight an
application cannot move it back.

*Order and release.* `executeIntra` runs outside the mutex, so what keeps two
claimed slots in order is a lock, if anything. With an exact quorum every prepare
certificate carries the vote of every replica that is up. So a replica that has
executed a slot has voted on it, its `processPrePrepare` is over (`TasksUnvoted`),
and it holds the locks until it applies the slot (`VotesHold`). A later slot that
shares an item can then not be voted on before, and a late task cannot take the
locks of an applied slot.

### The engine across views

*Types.* What takes work is the NEW-VIEW: `NewViewsFor` is defined with
permutations of finite sets. `ChosenAre` shows that the slots taken over are
entries of VIEW-CHANGEs, one for each number, and `FirstIs` that the new numbers
are above them; a timer that is armed belongs to a replica below `MaxView`.

*Agreement.* `AgreeInv` has nine parts. In each view a slot has one proposal
(`ProposalsInv`): the leader of view 0 never renumbers, and the NEW-VIEW has one
request for a slot, with `nextSeq` of its builder above all of them. A certificate
stands for a quorum of votes (`CertsInv`), and two quorums of 2F + 1 in 3F + 1
share a voter who does not lead view 1. So what is left is to show that no slot is
prepared in view 1 at or below one that was prepared in view 0, unless a vote was
late (`NotTwice`):

* a replica that votes in view 0 for slot s has requests in all slots up to s,
  because `onPrePrepare` refuses gaps. `acceptNewViewPrePrepare` leaves a slot
  that has the request alone, so in view 1 it votes at or below s only for a
  request that the NEW-VIEW brings and that nobody knew there in view 0
  (`KeptInv`);
* the VIEW-CHANGEs that the NEW-VIEW is built from are a quorum too. One of them
  comes from a voter for s. Either it says nothing of s, and then the vote came
  after it: a late vote. Or it covers s and, having no gap, every slot below
  (`ViewChangesInv`); the walk then takes over each such slot from some VIEW-CHANGE
  (`NewViewSound`, `RenewalInv`), so its request was known in view 0 after all.

The new leader may overwrite the request of a slot that it holds as committed and
has not executed. It never executes that slot (`Blocked` in `ExecutionInv`): a
slot before it would have to commit in view 1 first, which `NotTwice` excludes.

TLC has checked the parts of `AgreeInv` on the whole of instances with one and two
slots, and along random behaviours of one with three. The condition that votes are late is not an artefact:
`vc_divergence` finds the violation that it excludes.

*Executed once.* With a request in one slot only (`PlacedInv`) and a datastore that
lists executed slots in their order (`OrderInv`), nothing is executed twice. What
assigns a slot is `startConsensus` and the NEW-VIEW. The old leader finds what it
started before either in its log or, once executed, in the timestamp of the client;
it has every proposal of view 0 in its log as long as it leads. The NEW-VIEW numbers
a request anew only when it is pending and in none of the slots taken over. What is
pending was never proposed in view 0, because under `RequestsApart` the old leader
starts only what is pending nowhere (`PendedInv`); so it has no slot yet
(`NewViewOnce`), and the walk itself gives it one.

### The two-phase commit

*Outcomes.* `OutcomesAreBacked` looks at records alone, but what will be recorded
is decided by operations that wait in a queue and by messages under way.
`BackedInv` says of each of those that it rests on a record: a queued
COORD_COMMIT on the participant's PART_PREPARE_COMMIT, a queued PART_COMMIT or
PART_ABORT on the coordinator's decision, a yes of the participant and a decision
under way on the record that they report. A step keeps it when records stay, a
new operation is backed and a new message reports what is recorded (`BackedStep`),
which is then shown action by action. The theorem needs no bound and holds with
timeouts, retries, resubmissions and reclaims; it does not say that a transfer
is decided only once.

*One prepare.* Every COORD_PREPARE that is queued, starting or proposed belongs to
the transfer that holds the cross-shard slot of its cluster, and there is one of
it (`SlotInv`); the slot is freed only when that one is executed or dropped.

*Transfers.* `FlowInv` follows one transfer through its life: how many of each of its
operations are to be executed, under way and on record, and which message may
exist at which point. It gives one vote and one decision. `LockInv` says from
where to where a transfer holds the lock of its item at either cluster. The two
need each other: the lock keeps a second debit out, and the flow says that a
release is the release of the transfer that holds the lock.

*Overlapping retries.* `FlowInv` counts messages and is lost with the second copy of
one. `RetriesInv` starts from the locks instead, for a transfer that has its items
to itself, so that every release of them is its own:

* the lock of x is held just when a COORD_PREPARE is agreed on or its WAL entry is
  there, and a prepare is started with the lock free and `commitStarted` not set:
  so it is the first (`DebitOf`);
* until the decision is on record nothing frees y, since a PART_COMMIT or PART_ABORT
  needs the record (`BackedInv`, `OutcomeIsDecided`); so the participant agrees on
  one PART_PREPARE_COMMIT at most, which gives the one yes that starts COORD_COMMIT,
  and no second yes is left that could start COORD_ABORT before it executes
  (`DecisionOf`, `NoCommitWaits`);
* after that x is free, and a COORD_ABORT that a later yes starts, the participant
  having agreed on the transfer once more, is refused by `validateForStartQuick`
  (`CommittedSourceFree`);
* the deadline sets `commitStarted` and then retries the abort, which the invariant
  excludes once a COORD_COMMIT exists.

What the invariant does not give is the receiver's balance: that is credited twice
in such an instance, as listed above. TLC has checked it before on instances with
timeouts, reclaims and two handlers.

*Atomicity and money.* `BalancesInv` says what a WAL entry is good for: as long as
it exists, the balance is the entry's preimage with the debit or credit applied,
since the lock lets nobody else change the item. So the visible balance of
`AtomicTransfer`, which leaves out debits and credits that are not decided, moves
only when the coordinator records a commit, and then from one item to the other.
`Conserved` follows: that step keeps the sum, and without WAL entries the visible
balances are the balances. Sums over finite sets need an induction, which
`FiniteSums` takes from the well-founded order of finite subsets: its minimal
elements are first-order and need no operator parameter.

### The benchmark

`LedgerInv` says of the clusters that a request that is credited holds the item
alone, so an abort finds the money that it takes back. `MoneyInv` says that the
tracked balances and what is on its way add up to the initial sum. `PollInv` says
of a round of polls in which no money has moved so far that the clusters polled
have nothing prepared: a new WAL entry would be a move. So when two rounds were
quiet and the sum differs, something has moved since (`NoFalseAlarms`).
`AmalgamateOrdered` rests on the answer of the first leg being final
(`FirstLegIsFinal`).

### Only model-checked

* The liveness properties `PreparedTransfersFinish` and `EveryTransferAnswered`:
  liveness under fairness is out of the prover's reach.
* Agreement with more than one change of view, and the engine of
  `LinearPBFT_execution` with reclaims or, for the last three theorems, with replicas
  to spare.
* The two-phase commit where retries overlap, beyond the theorems above, and where
  transfers share items and time out. `PreparedHoldsLock`, `NoSequenceHole`,
  `ConservedAtQuiescence` and `ImplementsAtomicTransfer`, proved under
  `SingleCopies`, are violated with the constants of `twopc_retries`, so there is
  nothing to prove of them there; see also "Disagreements".

## 5. Not modelled, and why

* `Reset`, `ResetConsensus` and `DrainExecute` between test sets: what keeps the
  sets apart is seconds of wall-clock time, so every property over a reset would
  be one about time.
* The deadlines of 45 s that end the retries, contexts, and sends that fail
  halfway through a broadcast (`SendToCluster`).
* View change: reclaims and lock-wait timeouts during it, a request that is
  still in the ingress queue of a deposed primary, and more than one change.
* `internal/pbft/client.go`, which only tests use.
* Restart from a bbolt file: no code of the repository does it.
* Byzantine behaviour that the code cannot produce itself.
* Cryptography, gRPC, bbolt, JSON, HTTP, parsing, reports, generated code.

## 6. Plan

Done, in this order: `LinearPBFT` and its proofs, `Topology`, `TwoPhaseCommit` with
`AtomicTransfer` and its proofs, `ReplicatedLog` and the refinement, `ViewChange`,
`SmallBank`, locks and certificates of a cluster that reclaims nothing, the order
and uniqueness of application, transfers as a whole and their money, the
benchmark, agreement and single execution over a change of view, transfers whose
retries overlap.

What is left:

1. Losses between clusters in `TwoPhaseCommit`: broadcasts that stop halfway,
   deadlines that end the retries.
2. `Store`: lock acquisition item by item, the pieces between two bbolt calls.
3. `ViewChange` with reclaims and with a second change of view.
4. A runner that resets the replicas while handlers run, if a bound on delays is
   found that is not just a restatement of the code's sleeps.

Worth proving next: agreement over several changes of view, which needs a rule for
what the second NEW-VIEW inherits from the first (`buildViewChangeLocked` tags
everything with the view of the sender).
