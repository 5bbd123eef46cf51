----------------------------- MODULE LinearPBFT -----------------------------
(***************************************************************************)
(* The normal case of the linear PBFT engine of ByzBank                    *)
(* (internal/pbft/engine.go) inside one cluster, one view, for             *)
(* intra-shard transfers.  The primary is also the collector: backups send *)
(* their signed PREPARE and COMMIT votes to it alone and it broadcasts the *)
(* two certificates.  On top of PBFT the engine locks the two items of a   *)
(* transfer, gives up ("reclaims") a sequence number that finds no         *)
(* quorum, and executes a committed slot outside the engine mutex.         *)
(*                                                                         *)
(* Every inbound envelope runs in a goroutine of its own                   *)
(* (server/replica.go, dispatch), so messages are a set and are handled in *)
(* any order; a vote or a DISCARD_SEQ that a replica hands to itself is a   *)
(* message too.  A lost message is one that is never handled.              *)
(*                                                                         *)
(* Data is abstract: a digest is the request it digests, a signature is    *)
(* the identity of the signer, a certificate the set of its signers.       *)
(***************************************************************************)
EXTENDS Integers, Sequences, FiniteSets

CONSTANTS
    Replica,          \* the replicas of the cluster
    Primary,          \* the primary and collector of the view
    F,                \* the fault bound; every quorum is 2F + 1
    Down,             \* replicas whose fault config says Alive = false
    ByzantineBackup,  \* live replicas that never send PREPARE
    Client,           \* client identities
    Item,             \* data items
    Request,          \* the transfers that clients submit
    NoRequest,        \* the zero Request of a fresh log slot
    InitialBalance,   \* initial units of every item
    MaxSeq,           \* bound: highest sequence number assigned
    MaxReclaims,      \* bound: how often a prepare-quorum watch may run out
    LockWaitMayExpire \* whether LockWaitTimeout can beat the lock's holder

SeqNo == 1 .. MaxSeq
Up == Replica \ Down
Quorum == 2 * F + 1

ASSUME FaultAssumption ==
    /\ Primary \in Replica
    /\ F \in Nat
    /\ Down \subseteq Replica
    /\ ByzantineBackup \subseteq Replica

ASSUME RequestAssumption ==
    /\ Request \subseteq [client : Client, ts : Nat, x : Item, y : Item, amt : Nat]
    /\ NoRequest \notin Request

ASSUME BoundAssumption ==
    /\ InitialBalance \in Nat
    /\ MaxSeq \in Nat
    /\ MaxReclaims \in Nat
    /\ LockWaitMayExpire \in BOOLEAN

(***************************************************************************)
(* One slot of the sequence log (seqState).  An empty signer set is a nil  *)
(* certificate.  The log map has a key exactly for the slots that are      *)
(* pre-prepared or discarded: every path that creates a slot sets one of   *)
(* the two.                                                                *)
(***************************************************************************)
Slot == [prePrepare  : BOOLEAN,
         discarded   : BOOLEAN,
         req         : Request \cup {NoRequest},
         prepares    : SUBSET Replica,
         prepareCert : SUBSET Replica,
         commits     : SUBSET Replica,
         commitCert  : SUBSET Replica,
         executed    : BOOLEAN]

EmptySlot == [prePrepare  |-> FALSE,
              discarded   |-> FALSE,
              req         |-> NoRequest,
              prepares    |-> {},
              prepareCert |-> {},
              commits     |-> {},
              commitCert  |-> {},
              executed    |-> FALSE]

Proposed(req) == [EmptySlot EXCEPT !.prePrepare = TRUE, !.req = req]

\* The tombstone that reclaimSeq and onDiscardSeq leave in the log.
Tombstone(st) == [EmptySlot EXCEPT !.discarded = TRUE,
                                   !.req       = st.req,
                                   !.executed  = st.executed]

InLog(st) == st.prePrepare \/ st.discarded

Message ==
         [type : {"PRE_PREPARE"}, to : Replica, seq : SeqNo, req : Request]
    \cup [type : {"PREPARE", "COMMIT"}, to : Replica, from : Replica,
          seq : SeqNo, req : Request]
    \cup [type : {"PREPARE_CERT", "COMMIT_CERT"}, to : Replica, seq : SeqNo,
          req : Request, sigs : SUBSET Replica]
    \cup [type : {"DISCARD_SEQ"}, to : Replica, seq : SeqNo]

VARIABLES
    nextSeq,    \* the primary's next sequence number
    reclaims,   \* how often the primary has reclaimed a slot
    execSeq,    \* per replica, the execution cursor
    log,        \* per replica and sequence number, a slot
    tasks,      \* per replica, slots whose processPrePrepare awaits its locks
    applying,   \* per replica, slots claimed by tryExecute but not yet applied
    lock,       \* per replica and item, the sequence holding the lock, 0 if free
    bal,        \* per replica and item, the balance
    clientTS,   \* per replica and client, the last executed timestamp
    datastore,  \* per replica, the requests applied, in order
    net         \* messages sent and not yet handled

vars == <<nextSeq, reclaims, execSeq, log, tasks, applying, lock, bal, clientTS,
          datastore, net>>

storeVars == <<bal, clientTS, datastore>>

TypeOK ==
    /\ nextSeq \in 1 .. MaxSeq + 1
    /\ reclaims \in 0 .. MaxReclaims
    /\ execSeq \in [Replica -> 1 .. MaxSeq + 1]
    /\ log \in [Replica -> [SeqNo -> Slot]]
    /\ tasks \in [Replica -> SUBSET (SeqNo \X Request)]
    /\ applying \in [Replica -> SUBSET SeqNo]
    /\ lock \in [Replica -> [Item -> SeqNo \cup {0}]]
    /\ bal \in [Replica -> [Item -> Nat]]
    /\ clientTS \in [Replica -> [Client -> Nat]]
    /\ datastore \in [Replica -> Seq(Request)]
    /\ net \subseteq Message

Init ==
    /\ nextSeq = 1
    /\ reclaims = 0
    /\ execSeq = [r \in Replica |-> 1]
    /\ log = [r \in Replica |-> [s \in SeqNo |-> EmptySlot]]
    /\ tasks = [r \in Replica |-> {}]
    /\ applying = [r \in Replica |-> {}]
    /\ lock = [r \in Replica |-> [i \in Item |-> 0]]
    /\ bal = [r \in Replica |-> [i \in Item |-> InitialBalance]]
    /\ clientTS = [r \in Replica |-> [c \in Client |-> 0]]
    /\ datastore = [r \in Replica |-> <<>>]
    /\ net = {}

-----------------------------------------------------------------------------
(***************************************************************************)
(* Locks, validation and messages.                                         *)
(***************************************************************************)
LockItems(req) == {req.x, req.y}

\* Mutant: the primary does not look at the locks before it proposes.
MutantCanAcquire(r, req) == TRUE

CanAcquire(r, req) == \A i \in LockItems(req) : lock[r][i] = 0

\* Mutants: a backup votes without its locks; a lock is not reentrant.
MutantLocksIgnored(r, s, req) == TRUE
MutantLocksNotReentrant(r, s, req) == CanAcquire(r, req)

LocksReadyForSeq(r, s, req) == \A i \in LockItems(req) : lock[r][i] \in {0, s}

\* Mutant: only the sender's item is unlocked.
MutantReleased(r, req) == [lock[r] EXCEPT ![req.x] = 0]

\* ReleaseLock deletes the lock of an item whoever owns it.
Released(r, req) ==
    [i \in Item |-> IF i \in LockItems(req) THEN 0 ELSE lock[r][i]]

Acquired(r, s, req) ==
    [i \in Item |-> IF i \in LockItems(req) THEN s ELSE lock[r][i]]

\* Mutant: the timestamp of the client is not checked.
MutantFreshAndFunded(r, req) == bal[r][req.x] >= req.amt

\* The part of validateRequest that comes before it waits for locks.
FreshAndFunded(r, req) ==
    /\ clientTS[r][req.client] < req.ts
    /\ bal[r][req.x] >= req.amt

ClientTxnInFlight(req) ==
    \E s \in SeqNo : LET st == log[Primary][s] IN
        /\ st.prePrepare /\ ~st.discarded /\ ~st.executed
        /\ st.req = req

ClusterHonestLive == Cardinality(Up \ ByzantineBackup)

\* A silent replica neither waits for locks nor votes PREPARE.
Silent(r) == r \in ByzantineBackup /\ r # Primary

\* processPrePrepare up to the wait for locks: the task that waits, if any.
TaskFor(r, s, req) ==
    IF ~Silent(r) /\ FreshAndFunded(r, req) THEN {<<s, req>>} ELSE {}

PrePrepareMsg(r, s, req) == [type |-> "PRE_PREPARE", to |-> r, seq |-> s, req |-> req]
VoteMsg(phase, r, s, req) ==
    [type |-> phase, to |-> Primary, from |-> r, seq |-> s, req |-> req]
CertMsg(phase, r, s, req, sigs) ==
    [type |-> phase, to |-> r, seq |-> s, req |-> req, sigs |-> sigs]
DiscardSeqMsg(r, s) == [type |-> "DISCARD_SEQ", to |-> r, seq |-> s]

-----------------------------------------------------------------------------
(***************************************************************************)
(* tryExecute at replica r, whose log, cursor and unapplied claims are     *)
(* given: step over tombstones, then claim the slot at the cursor if it is *)
(* committed.  The claim marks the slot executed and moves the cursor      *)
(* under the mutex; the transfer itself runs after the mutex is released   *)
(* (Apply), and only then does the same goroutine look at the next slot.   *)
(***************************************************************************)
\* Mutant: a slot that is not committed yet is stepped over as well.
MutantFirstLive(slots, from, i) ==
    /\ \A j \in SeqNo : from <= j /\ j < i => slots[j].commitCert = {}
    /\ i \in SeqNo => ~slots[i].discarded

FirstLive(slots, from, i) ==
    /\ \A j \in SeqNo : from <= j /\ j < i => slots[j].discarded
    /\ i \in SeqNo => ~slots[i].discarded

TryExecute(r, slots, from, claims) ==
    \E i \in from .. MaxSeq + 1 :
        /\ FirstLive(slots, from, i)
        /\ IF i \in SeqNo /\ slots[i].commitCert # {} /\ ~slots[i].executed
           THEN /\ log' = [log EXCEPT ![r] = [slots EXCEPT ![i].executed = TRUE]]
                /\ execSeq' = [execSeq EXCEPT ![r] = i + 1]
                /\ applying' = [applying EXCEPT ![r] = claims \cup {i}]
           ELSE /\ log' = [log EXCEPT ![r] = slots]
                /\ execSeq' = [execSeq EXCEPT ![r] = i]
                /\ applying' = [applying EXCEPT ![r] = claims]

-----------------------------------------------------------------------------
(***************************************************************************)
(* startConsensus, run by the single ingress goroutine of the primary.     *)
(* It processes its own pre-prepare before it takes the next request, so   *)
(* it starts nothing while the primary's own task waits.  Clients resend   *)
(* (SubmitWithRetry), so a request may be started whenever it is valid.    *)
(***************************************************************************)
Startable(req) ==
    /\ Primary \in Up
    /\ ClusterHonestLive >= Quorum
    /\ tasks[Primary] = {}
    /\ nextSeq \in SeqNo
    /\ FreshAndFunded(Primary, req)
    /\ ~ClientTxnInFlight(req)
    /\ CanAcquire(Primary, req)

StartConsensus(req) ==
    /\ Startable(req)
    /\ req.x # req.y
    /\ nextSeq' = nextSeq + 1
    /\ lock' = [lock EXCEPT ![Primary] = Acquired(Primary, nextSeq, req)]
    /\ log' = [log EXCEPT ![Primary][nextSeq] = Proposed(req)]
    /\ tasks' = [tasks EXCEPT ![Primary] = TaskFor(Primary, nextSeq, req)]
    /\ net' = net \cup {PrePrepareMsg(r, nextSeq, req) : r \in Up \ {Primary}}
    /\ UNCHANGED <<reclaims, execSeq, applying, storeVars>>

\* A transfer from an item to itself cannot lock the item twice: the locks
\* are released again, but the sequence number has been assigned.
StartSelfTransfer(req) ==
    /\ Startable(req)
    /\ req.x = req.y
    /\ nextSeq' = nextSeq + 1
    /\ UNCHANGED <<reclaims, execSeq, log, tasks, applying, lock, storeVars, net>>

\* gapClearLocked: every earlier slot still to execute is in the log.
GapClear(r, s) == \A i \in SeqNo : execSeq[r] <= i /\ i < s => InLog(log[r][i])

AcceptsPrePrepare(m) ==
    /\ GapClear(m.to, m.seq)
    /\ ~(log[m.to][m.seq].prePrepare /\ ~log[m.to][m.seq].discarded)

OnPrePrepare(m) ==
    /\ m.type = "PRE_PREPARE"
    /\ AcceptsPrePrepare(m)
    /\ log' = [log EXCEPT ![m.to][m.seq] = Proposed(m.req)]
    /\ tasks' = [tasks EXCEPT ![m.to] = @ \cup TaskFor(m.to, m.seq, m.req)]
    /\ net' = net \ {m}
    /\ UNCHANGED <<nextSeq, reclaims, execSeq, applying, lock, storeVars>>

\* A waiting task finds its locks free or its own, takes them and votes.
\* It never looks at the slot again.
LockAndPrepare(r, t) ==
    LET s == t[1]
        req == t[2]
    IN  /\ LocksReadyForSeq(r, s, req)
        /\ lock' = [lock EXCEPT ![r] = Acquired(r, s, req)]
        /\ tasks' = [tasks EXCEPT ![r] = @ \ {t}]
        /\ net' = net \cup {VoteMsg("PREPARE", r, s, req)}
        /\ UNCHANGED <<nextSeq, reclaims, execSeq, log, applying, storeVars>>

\* LockWaitTimeout runs out while another sequence holds a lock: no vote.
LockWaitExpires(r, t) ==
    /\ LockWaitMayExpire
    /\ ~LocksReadyForSeq(r, t[1], t[2])
    /\ tasks' = [tasks EXCEPT ![r] = @ \ {t}]
    /\ UNCHANGED <<nextSeq, reclaims, execSeq, log, applying, lock, storeVars, net>>

\* The vote that completes the quorum builds the prepare certificate; the
\* primary broadcasts it and goes on to its own onPrepareCert.
AcceptsPrepare(m) ==
    LET st == log[m.to][m.seq] IN
        /\ m.to = Primary
        /\ st.prePrepare
        /\ st.req = m.req
        /\ m.from \notin st.prepares

OnPrepare(m) ==
    /\ m.type = "PREPARE"
    /\ AcceptsPrepare(m)
    /\ LET st    == log[m.to][m.seq]
           votes == st.prepares \cup {m.from}
           cert  == Cardinality(votes) >= Quorum /\ st.prepareCert = {}
       IN  /\ log' = [log EXCEPT ![m.to][m.seq].prepares = votes,
                                 ![m.to][m.seq].prepareCert = IF cert THEN votes ELSE @]
           /\ net' = (net \ {m}) \cup
                     IF cert
                     THEN {VoteMsg("COMMIT", m.to, m.seq, m.req)} \cup
                          {CertMsg("PREPARE_CERT", r, m.seq, m.req, votes) : r \in Up \ {m.to}}
                     ELSE {}
    /\ UNCHANGED <<nextSeq, reclaims, execSeq, tasks, applying, lock, storeVars>>

\* Mutant: the digest of the slot is not compared with the certificate's.
MutantAcceptsCert(m) ==
    /\ Cardinality(m.sigs) >= Quorum
    /\ log[m.to][m.seq].prePrepare

\* A certificate counts only for a slot pre-prepared with the same request.
AcceptsCert(m) ==
    LET st == log[m.to][m.seq] IN
        /\ Cardinality(m.sigs) >= Quorum
        /\ st.prePrepare
        /\ st.req = m.req

\* Mutant: COMMIT is sent but the prepare certificate is not kept.
MutantOnPrepareCert(m) ==
    /\ m.type = "PREPARE_CERT"
    /\ AcceptsCert(m)
    /\ net' = (net \ {m}) \cup {VoteMsg("COMMIT", m.to, m.seq, m.req)}
    /\ UNCHANGED <<nextSeq, reclaims, execSeq, log, tasks, applying, lock, storeVars>>

OnPrepareCert(m) ==
    /\ m.type = "PREPARE_CERT"
    /\ AcceptsCert(m)
    /\ log' = [log EXCEPT ![m.to][m.seq].prepareCert = m.sigs]
    /\ net' = (net \ {m}) \cup {VoteMsg("COMMIT", m.to, m.seq, m.req)}
    /\ UNCHANGED <<nextSeq, reclaims, execSeq, tasks, applying, lock, storeVars>>

AcceptsCommit(m) ==
    LET st == log[m.to][m.seq] IN
        /\ m.to = Primary
        /\ st.prepareCert # {}
        /\ st.req = m.req
        /\ m.from \notin st.commits

\* One more COMMIT vote, not yet or no longer the deciding one.
OnCommit(m) ==
    /\ m.type = "COMMIT"
    /\ AcceptsCommit(m)
    /\ LET st    == log[m.to][m.seq]
           votes == st.commits \cup {m.from}
       IN  /\ Cardinality(votes) < Quorum \/ st.commitCert # {}
           /\ log' = [log EXCEPT ![m.to][m.seq].commits = votes]
    /\ net' = net \ {m}
    /\ UNCHANGED <<nextSeq, reclaims, execSeq, tasks, applying, lock, storeVars>>

\* The vote that completes the quorum: the commit certificate is broadcast
\* and the primary goes on to its own onCommitCert.
OnDecidingCommit(m) ==
    /\ m.type = "COMMIT"
    /\ AcceptsCommit(m)
    /\ LET st    == log[m.to][m.seq]
           votes == st.commits \cup {m.from}
       IN  /\ Cardinality(votes) >= Quorum
           /\ st.commitCert = {}
           /\ TryExecute(m.to,
                         [log[m.to] EXCEPT ![m.seq].commits = votes,
                                           ![m.seq].commitCert = votes],
                         execSeq[m.to], applying[m.to])
           /\ net' = (net \ {m}) \cup
                     {CertMsg("COMMIT_CERT", r, m.seq, m.req, votes) : r \in Up \ {m.to}}
    /\ UNCHANGED <<nextSeq, reclaims, tasks, lock, storeVars>>

OnCommitCert(m) ==
    /\ m.type = "COMMIT_CERT"
    /\ AcceptsCert(m)
    /\ TryExecute(m.to, [log[m.to] EXCEPT ![m.seq].commitCert = m.sigs],
                  execSeq[m.to], applying[m.to])
    /\ net' = net \ {m}
    /\ UNCHANGED <<nextSeq, reclaims, tasks, lock, storeVars>>

\* Mutant: the balance is not checked again when the transfer is applied.
MutantApply(r, s) ==
    LET req == log[r][s].req
    IN  /\ s \in applying[r]
        /\ lock' = [lock EXCEPT ![r] = Released(r, req)]
        /\ bal' = [bal EXCEPT ![r][req.x] = @ - req.amt,
                              ![r][req.y] = bal[r][req.y] + req.amt]
        /\ datastore' = [datastore EXCEPT ![r] = Append(@, req)]
        /\ clientTS' = [clientTS EXCEPT ![r][req.client] = req.ts]
        /\ TryExecute(r, log[r], execSeq[r], applying[r] \ {s})
        /\ UNCHANGED <<nextSeq, reclaims, tasks, net>>

\* executeIntra for a claimed slot, then the next round of the tryExecute
\* loop.  A transfer the balance no longer covers only frees its locks.
Apply(r, s) ==
    LET req    == log[r][s].req
        funded == bal[r][req.x] >= req.amt
    IN  /\ s \in applying[r]
        /\ lock' = [lock EXCEPT ![r] = Released(r, req)]
        /\ IF funded
           THEN /\ bal' = [bal EXCEPT ![r][req.x] = @ - req.amt,
                                      ![r][req.y] = bal[r][req.y] + req.amt]
                /\ datastore' = [datastore EXCEPT ![r] = Append(@, req)]
                /\ clientTS' = [clientTS EXCEPT ![r][req.client] = req.ts]
           ELSE UNCHANGED storeVars
        /\ TryExecute(r, log[r], execSeq[r], applying[r] \ {s})
        /\ UNCHANGED <<nextSeq, reclaims, tasks, net>>

\* watchPrepareQuorum runs out and reclaimSeq gives the slot up: a tombstone,
\* the locks freed, the cursor moved past the slot, the number handed back
\* when it is the latest one, and everybody told.
Reclaim(s) ==
    LET st == log[Primary][s] IN
    /\ reclaims < MaxReclaims
    /\ Primary \in Up
    /\ st.prePrepare /\ ~st.discarded /\ ~st.executed
    /\ st.prepareCert = {} /\ st.commitCert = {}
    /\ Cardinality(st.prepares) < Quorum
    /\ log' = [log EXCEPT ![Primary][s] = Tombstone(st)]
    /\ lock' = [lock EXCEPT ![Primary] = Released(Primary, st.req)]
    /\ execSeq' = [execSeq EXCEPT ![Primary] = IF @ = s THEN s + 1 ELSE @]
    /\ nextSeq' = IF nextSeq = s + 1 THEN s ELSE nextSeq
    /\ reclaims' = reclaims + 1
    /\ net' = net \cup {DiscardSeqMsg(r, s) : r \in Up}
    /\ UNCHANGED <<tasks, applying, storeVars>>

\* Mutant: a committed slot may be discarded.
MutantAcceptsDiscardSeq(m) ==
    LET st == log[m.to][m.seq] IN InLog(st) /\ ~st.executed

AcceptsDiscardSeq(m) ==
    LET st == log[m.to][m.seq] IN
        /\ InLog(st)
        /\ ~st.executed
        /\ st.commitCert = {}

OnDiscardSeq(m) ==
    LET st == log[m.to][m.seq] IN
    /\ m.type = "DISCARD_SEQ"
    /\ AcceptsDiscardSeq(m)
    /\ lock' = [lock EXCEPT ![m.to] = Released(m.to, st.req)]
    /\ TryExecute(m.to, [log[m.to] EXCEPT ![m.seq] = Tombstone(st)],
                  IF execSeq[m.to] = m.seq THEN m.seq + 1 ELSE execSeq[m.to],
                  applying[m.to])
    /\ net' = net \ {m}
    /\ UNCHANGED <<nextSeq, reclaims, tasks, storeVars>>

\* A handler whose early return fires: the message is gone for good.
Accepts(m) ==
    \/ m.type = "PRE_PREPARE" /\ AcceptsPrePrepare(m)
    \/ m.type = "PREPARE" /\ AcceptsPrepare(m)
    \/ m.type \in {"PREPARE_CERT", "COMMIT_CERT"} /\ AcceptsCert(m)
    \/ m.type = "COMMIT" /\ AcceptsCommit(m)
    \/ m.type = "DISCARD_SEQ" /\ AcceptsDiscardSeq(m)

Ignore(m) ==
    /\ ~Accepts(m)
    /\ net' = net \ {m}
    /\ UNCHANGED <<nextSeq, reclaims, execSeq, log, tasks, applying, lock, storeVars>>

-----------------------------------------------------------------------------
Handle(m) ==
    \/ OnPrePrepare(m)
    \/ OnPrepare(m)
    \/ OnPrepareCert(m)
    \/ OnCommit(m)
    \/ OnDecidingCommit(m)
    \/ OnCommitCert(m)
    \/ OnDiscardSeq(m)
    \/ Ignore(m)

Next ==
    \/ \E req \in Request : StartConsensus(req) \/ StartSelfTransfer(req)
    \/ \E m \in net : Handle(m)
    \/ \E r \in Replica : \E t \in tasks[r] : LockAndPrepare(r, t)
    \/ \E r \in Replica : \E t \in tasks[r] : LockWaitExpires(r, t)
    \/ \E r \in Replica : \E s \in SeqNo : Apply(r, s)
    \/ \E s \in SeqNo : Reclaim(s)

Spec == Init /\ [][Next]_vars

(***************************************************************************)
(* Goroutines are scheduled, so a message delivered to a replica is        *)
(* handled, a task whose locks are free takes them, a claimed slot is      *)
(* applied, and a request that clients keep resending is started.  Nothing *)
(* is assumed of the timeouts (LockWaitExpires, Reclaim).                  *)
(***************************************************************************)
Fairness ==
    /\ \A req \in Request : WF_vars(StartConsensus(req))
    /\ WF_vars(\E m \in net : Handle(m))
    /\ \A r \in Replica : WF_vars(\E t \in tasks[r] : LockAndPrepare(r, t))
    /\ \A r \in Replica : WF_vars(\E s \in SeqNo : Apply(r, s))

FairSpec == Spec /\ Fairness

-----------------------------------------------------------------------------
(***************************************************************************)
(* Safety.                                                                 *)
(***************************************************************************)
Committed(r, s) == log[r][s].commitCert # {}

\* A slot that tryExecute has claimed and whose transfer has been run.
Applied(r, s) == log[r][s].executed /\ s \notin applying[r]

\* A slot of the primary that was proposed and whose transfer has not run.
InFlight(s) ==
    LET st == log[Primary][s] IN st.prePrepare /\ ~st.discarded /\ ~Applied(Primary, s)

\* Agreement: two replicas never hold commit certificates for different
\* requests in one slot, although a reclaimed number is proposed again with
\* another request while certificates of the first round are still under way
\* (the digest check of onCommitCert, the guards of reclaimSeq).
CommittedAgreement ==
    \A r, q \in Replica : \A s \in SeqNo :
        Committed(r, s) /\ Committed(q, s) => log[r][s].req = log[q][s].req

\* A commitment is final: once a replica holds a commit certificate, no late
\* DISCARD_SEQ, reclaim or re-proposal takes the slot back or puts another
\* request in it (onDiscardSeq and reclaimSeq return early, onPrePrepare
\* refuses a live slot, nextSeq never falls to a committed slot).
CommitmentIsFinal ==
    [][\A r \in Replica : \A s \in SeqNo :
        Committed(r, s) => Committed(r, s)' /\ log'[r][s].req = log[r][s].req]_vars

\* A commit certificate is what it claims to be: its 2F + 1 signers all hold
\* a prepare certificate for that request, and the signers of each of those
\* had all accepted the same pre-prepare (onPrepareCert before sendCommit,
\* onPrePrepare before sendPrepare).  Reclaiming voids it, see the README.
CertificatesAreBacked ==
    \A r \in Replica : \A s \in SeqNo : Committed(r, s) =>
        /\ Cardinality(log[r][s].commitCert) >= Quorum
        /\ \A q \in log[r][s].commitCert :
            /\ log[q][s].req = log[r][s].req
            /\ Cardinality(log[q][s].prepareCert) >= Quorum
            /\ \A v \in log[q][s].prepareCert :
                log[v][s].prePrepare /\ log[v][s].req = log[r][s].req

\* The locks taken in startConsensus stay with their slot at the primary
\* until executeIntra has run: no other slot's unconditional ReleaseLock, and
\* no late processPrePrepare, takes them away.  So two transfers in flight
\* never share an item.
PrimaryHoldsItsLocks ==
    \A s \in SeqNo : InFlight(s) =>
        \A i \in LockItems(log[Primary][s].req) : lock[Primary][i] = s

\* The balance checked before the proposal is still there when the transfer
\* is executed at the primary, however many slots run in between.
FundsStayReserved ==
    \A s \in SeqNo : InFlight(s) =>
        LET req == log[Primary][s].req IN bal[Primary][req.x] >= req.amt

\* The execution cursor leaves no committed slot behind it unexecuted.
NoCommittedSlotSkipped ==
    \A r \in Replica : \A s \in SeqNo :
        s < execSeq[r] /\ Committed(r, s) => log[r][s].executed

\* A request is applied at most once at every replica although clients
\* resend it and the primary may propose it again.  The code keeps this while
\* no client has two requests outstanding: executeIntra sets the timestamp of
\* the client to that of whatever it executes last.
AppliedAtMostOnce ==
    \A r \in Replica : \A j, k \in DOMAIN datastore[r] :
        datastore[r][j] = datastore[r][k] => j = k

\* A slot is applied only after every earlier claimed slot.
AppliedInOrder ==
    \A r \in Replica : \A s, t \in SeqNo :
        s < t /\ Applied(r, t) => s \notin applying[r]

\* A transfer that has been applied holds no lock at that replica.
LocksReleasedAfterCommit ==
    \A r \in Replica : \A s \in SeqNo : Applied(r, s) =>
        \A i \in Item : lock[r][i] # s

-----------------------------------------------------------------------------
(***************************************************************************)
(* Refinement: a replica has learnt the request of a slot when it holds a  *)
(* commit certificate for it, and has started it when tryExecute has       *)
(* claimed the slot.                                                       *)
(***************************************************************************)
Learned == [r \in Replica |->
    [s \in SeqNo |-> IF Committed(r, s) THEN log[r][s].req ELSE NoRequest]]

Started == [r \in Replica |-> {s \in SeqNo : log[r][s].executed}]

Shared == INSTANCE ReplicatedLog WITH learned <- Learned, started <- Started

\* The engine is a replicated log: commitments agree and are final, only
\* committed slots are claimed, and the cursor of tryExecute claims them in
\* ascending order and each once, across reclaimed numbers, tombstones and
\* slots that are proposed again.
ImplementsReplicatedLog == Shared!Spec

-----------------------------------------------------------------------------
(***************************************************************************)
(* Liveness.                                                               *)
(***************************************************************************)
AppliedBy(req) == {r \in Up : \E k \in DOMAIN datastore[r] : datastore[r][k] = req}

\* Every submitted transfer is in the end applied by the F + 1 replicas whose
\* matching replies the client waits for.
EveryTransferAnswered ==
    \A req \in Request : <>(Cardinality(AppliedBy(req)) >= F + 1)
=============================================================================
