----------------------------- MODULE ViewChange -----------------------------
(***************************************************************************)
(* The PBFT engine of one cluster across views (internal/pbft/viewchange.go *)
(* with the handlers of engine.go that look at the view): suspicion timers, *)
(* VIEW-CHANGE and NEW-VIEW, and the three phases before and after.         *)
(*                                                                         *)
(* LinearPBFT has the detail of one view.  Here a slot is reclaimed never,  *)
(* balances are a constant set of requests the sender can pay, the wait for *)
(* locks does not time out, and committed slots are executed in one step.   *)
(* A phase message is handled once, in any order; a lost one is one that is *)
(* never handled.  Messages whose lateness changes nothing stay in the sets *)
(* of what was sent: VIEW-CHANGE, NEW-VIEW, and votes, which the collector  *)
(* counts when they make a quorum.                                         *)
(***************************************************************************)
EXTENDS Integers, Sequences, FiniteSets, SequencesExt

CONSTANTS
    Replica,          \* the replicas of the cluster
    LeaderOf,         \* LeaderOf[v] is the primary and collector of view v
    F,                \* the fault bound; every quorum is 2F + 1
    Down,             \* replicas with Alive = false
    ByzantineLeader,  \* replicas that neither propose nor send NEW-VIEW
    ByzantineBackup,  \* replicas that send no PREPARE while they are backups
    Client, Item,     \* client identities and data items
    Request,          \* the intra-shard transfers clients submit
    NoRequest,        \* what a sequence number not pre-prepared holds
    Funded,           \* the requests whose sender has the money
    Reached,          \* Reached[req] are the replicas that clients get req to
    MaxSeq,           \* bound: highest sequence number assigned
    MaxView           \* bound: highest view entered

SeqNo == 1 .. MaxSeq
View == 0 .. MaxView
Up == Replica \ Down
Quorum == 2 * F + 1

ASSUME FaultAssumption ==
    /\ IsFiniteSet(Replica)
    /\ F \in Nat \ {0}
    /\ Down \cup ByzantineLeader \cup ByzantineBackup \subseteq Replica

ASSUME ViewAssumption ==
    /\ MaxView \in Nat
    /\ LeaderOf \in [View -> Replica]
    /\ \A v, w \in View : LeaderOf[v] = LeaderOf[w] => v = w

ASSUME RequestAssumption ==
    /\ Request \subseteq [client : Client, ts : Nat, x : Item, y : Item]
    /\ NoRequest \notin Request
    /\ Funded \subseteq Request
    /\ Reached \in [Request -> SUBSET Replica]
    /\ MaxSeq \in Nat

(***************************************************************************)
(* One slot of the log.  A certificate is a flag: verifyCert has compared   *)
(* its signatures.  A view change overwrites the request of a slot and      *)
(* keeps the certificates that are in it.  It would keep the votes too, but *)
(* a replica collects them in one view only.                               *)
(***************************************************************************)
Slot == [req         : Request \cup {NoRequest},
         prepareCert : BOOLEAN,
         commitCert  : BOOLEAN,
         executed    : BOOLEAN]

EmptySlot == [req         |-> NoRequest,
              prepareCert |-> FALSE,
              commitCert  |-> FALSE,
              executed    |-> FALSE]

PrePrepare == [seq : SeqNo, req : Request]

Message ==
         [type : {"PRE_PREPARE", "PREPARE_CERT", "COMMIT_CERT"}, to : Replica,
          view : View, seq : SeqNo, req : Request]
    \cup [type : {"PREPARE", "COMMIT"}, to : Replica, from : Replica,
          view : View, seq : SeqNo, req : Request]

VARIABLES
    view,        \* per replica, its view
    nextSeq,     \* per replica, the number it would assign next
    execSeq,     \* per replica, the execution cursor
    log,         \* per replica and sequence number, a slot
    lock,        \* per replica and item, the slot holding the lock, 0 if free
    clientTS,    \* per replica and client, the last executed timestamp
    datastore,   \* per replica, the transfers applied, in order, each with its slot
    waiting,     \* per replica, pre-prepares whose processPrePrepare awaits locks
    pending,     \* per replica, pendingClients
    timer,       \* per replica, viewChangeTimer: nil, armed, or fired and kept
    vcLog,       \* per replica, the VIEW-CHANGE messages it has recorded
    viewChanges, \* the VIEW-CHANGE messages sent
    newViews,    \* the NEW-VIEW messages built
    install,     \* per replica and view, NEW-VIEW pre-prepares not yet accepted
    net          \* phase messages sent and not yet handled

slotVars == <<log, lock, waiting, net>>
execVars == <<execSeq, clientTS, datastore>>
viewVars == <<view, nextSeq, pending, vcLog, viewChanges, newViews, install>>
vars == <<slotVars, execVars, viewVars, timer>>

Init ==
    /\ view = [r \in Replica |-> 0]
    /\ nextSeq = [r \in Replica |-> 1]
    /\ execSeq = [r \in Replica |-> 1]
    /\ log = [r \in Replica |-> [s \in SeqNo |-> EmptySlot]]
    /\ lock = [r \in Replica |-> [i \in Item |-> 0]]
    /\ clientTS = [r \in Replica |-> [c \in Client |-> 0]]
    /\ datastore = [r \in Replica |-> <<>>]
    /\ waiting = [r \in Replica |-> {}]
    /\ pending = [r \in Replica |-> {}]
    /\ timer = [r \in Replica |-> "nil"]
    /\ vcLog = [r \in Replica |-> {}]
    /\ viewChanges = {}
    /\ newViews = {}
    /\ install = [r \in Replica |-> [v \in View |-> <<>>]]
    /\ net = {}

-----------------------------------------------------------------------------
Primary(r) == LeaderOf[view[r]]
IsPrimary(r) == Primary(r) = r

\* Mutant: the timestamp of the client is not checked.
MutantFreshAndFunded(r, req) == req \in Funded

\* The part of the validations that is about the client and its money.
FreshAndFunded(r, req) ==
    /\ clientTS[r][req.client] < req.ts
    /\ req \in Funded

CanAcquire(r, req) == \A i \in {req.x, req.y} : lock[r][i] = 0
LocksReadyForSeq(r, s, req) == \A i \in {req.x, req.y} : lock[r][i] \in {0, s}
SetLocks(r, req, s) == [i \in Item |-> IF i \in {req.x, req.y} THEN s ELSE lock[r][i]]

ClientTxnInFlight(r, req) ==
    \E s \in SeqNo : log[r][s].req = req /\ ~log[r][s].executed

ClusterHonestLive == Cardinality(Up \ ByzantineBackup)

GapClear(r, s) ==
    \A i \in SeqNo : execSeq[r] <= i /\ i < s => log[r][i].req # NoRequest

Vote(phase, r, v, s, req) ==
    [type |-> phase, to |-> Primary(r), from |-> r, view |-> v, seq |-> s, req |-> req]

Broadcast(type, r, v, s, req) ==
    {[type |-> type, to |-> q, view |-> v, seq |-> s, req |-> req] : q \in Up \ {r}}

(***************************************************************************)
(* processPrePrepare at r of slot s: a silent backup and an invalid request *)
(* end it; a busy item makes it wait; else it locks and votes.  held are    *)
(* the locks of r so far, msgs the messages once this one is handled and    *)
(* others are sent, nv the view of the NEW-VIEW it is part of, 0 if none.   *)
(***************************************************************************)
ProcessPrePrepare(r, v, s, req, nv, msgs) ==
    LET valid == FreshAndFunded(r, req) /\ (r \in ByzantineBackup => IsPrimary(r))
        ready == LocksReadyForSeq(r, s, req)
    IN  /\ lock' = IF valid /\ ready
                   THEN [lock EXCEPT ![r] = SetLocks(r, req, s)] ELSE lock
        /\ waiting' = IF valid /\ ~ready
                      THEN [waiting EXCEPT ![r] = @ \cup
                              {[view |-> v, seq |-> s, req |-> req, nv |-> nv]}]
                      ELSE waiting
        /\ net' = msgs \cup IF valid /\ ready THEN {Vote("PREPARE", r, v, s, req)} ELSE {}

(***************************************************************************)
(* tryExecute at r with the given slots: every committed slot from the      *)
(* cursor on is executed, in order.                                        *)
(***************************************************************************)
TryExecute(r, slots) ==
    \E to \in execSeq[r] .. MaxSeq + 1 :
        LET run == execSeq[r] .. to - 1
            Latest(c) == {s \in run : /\ slots[s].req.client = c
                                   /\ \A t \in run : t > s => slots[t].req.client # c}
        IN  /\ \A s \in run : slots[s].commitCert /\ ~slots[s].executed
            /\ to \in SeqNo => ~slots[to].commitCert \/ slots[to].executed
            /\ log' = [log EXCEPT ![r] =
                  [s \in SeqNo |-> [slots[s] EXCEPT !.executed = @ \/ s \in run]]]
            /\ execSeq' = [execSeq EXCEPT ![r] = to]
            /\ clientTS' = [clientTS EXCEPT ![r] =
                  [c \in Client |-> IF Latest(c) = {} THEN @[c]
                                   ELSE slots[CHOOSE s \in Latest(c) : TRUE].req.ts]]
            /\ datastore' = [datastore EXCEPT ![r] =
                  @ \o [i \in 1 .. to - execSeq[r] |->
                        [seq |-> execSeq[r] + i - 1, req |-> slots[execSeq[r] + i - 1].req]]]
            /\ lock' = [lock EXCEPT ![r] =
                  [i \in Item |-> IF \E s \in run : i \in {slots[s].req.x, slots[s].req.y}
                                 THEN 0 ELSE @[i]]]

-----------------------------------------------------------------------------
(***************************************************************************)
(* The normal case.                                                        *)
(***************************************************************************)
\* startConsensus at the primary of its view.  The slot keeps whatever votes
\* and certificates it has.
StartConsensus(r, req) ==
    LET s == nextSeq[r] IN
    /\ r \in (Up \cap Reached[req]) \ ByzantineLeader
    /\ IsPrimary(r)
    /\ ClusterHonestLive >= Quorum
    /\ s \in SeqNo
    /\ FreshAndFunded(r, req)
    /\ ~ClientTxnInFlight(r, req)
    /\ CanAcquire(r, req)
    /\ nextSeq' = [nextSeq EXCEPT ![r] = s + 1]
    /\ log' = [log EXCEPT ![r][s].req = req]
    /\ lock' = [lock EXCEPT ![r] = SetLocks(r, req, s)]
    /\ timer' = [timer EXCEPT ![r] = "nil"]
    /\ net' = net \cup Broadcast("PRE_PREPARE", r, view[r], s, req)
                  \cup {Vote("PREPARE", r, view[r], s, req)}
    /\ UNCHANGED <<execVars, view, pending, vcLog, viewChanges, newViews, install, waiting>>

AcceptsPrePrepare(m) ==
    /\ m.view = view[m.to]
    /\ GapClear(m.to, m.seq)
    /\ log[m.to][m.seq].req = NoRequest

OnPrePrepare(m) ==
    /\ m.type = "PRE_PREPARE"
    /\ AcceptsPrePrepare(m)
    /\ log' = [log EXCEPT ![m.to][m.seq].req = m.req]
    /\ timer' = [timer EXCEPT ![m.to] = "nil"]
    /\ ProcessPrePrepare(m.to, m.view, m.seq, m.req, 0, net \ {m})
    /\ UNCHANGED <<execVars, viewVars>>

\* A processPrePrepare that was waiting for locks gets them and votes.
LockAndPrepare(r, t) ==
    /\ LocksReadyForSeq(r, t.seq, t.req)
    /\ lock' = [lock EXCEPT ![r] = SetLocks(r, t.req, t.seq)]
    /\ waiting' = [waiting EXCEPT ![r] = @ \ {t}]
    /\ net' = net \cup {Vote("PREPARE", r, t.view, t.seq, t.req)}
    /\ UNCHANGED <<log, execVars, viewVars, timer>>

\* onPrepare and onCommit keep a vote for the request of a slot of this view,
\* a COMMIT only under a prepare certificate.
CountsVote(m) ==
    /\ m.view = view[m.to]
    /\ IsPrimary(m.to)
    /\ log[m.to][m.seq].req = m.req
    /\ m.type = "COMMIT" => log[m.to][m.seq].prepareCert

Votes(r, phase, s) ==
    {m.from : m \in {n \in net : n.type = phase /\ n.to = r /\ n.seq = s /\ CountsVote(n)}}

\* The deciding PREPARE makes the prepare certificate, which the primary
\* broadcasts and then handles itself.
OnPrepare(r, s) ==
    LET req == log[r][s].req IN
    /\ IsPrimary(r)
    /\ ~log[r][s].prepareCert
    /\ Cardinality(Votes(r, "PREPARE", s)) >= Quorum
    /\ log' = [log EXCEPT ![r][s].prepareCert = TRUE]
    /\ net' = net \cup Broadcast("PREPARE_CERT", r, view[r], s, req)
                  \cup {Vote("COMMIT", r, view[r], s, req)}
    /\ UNCHANGED <<lock, waiting, execVars, viewVars, timer>>

AcceptsCert(m) ==
    /\ m.view = view[m.to]
    /\ log[m.to][m.seq].req = m.req

OnPrepareCert(m) ==
    /\ m.type = "PREPARE_CERT"
    /\ AcceptsCert(m)
    /\ log' = [log EXCEPT ![m.to][m.seq].prepareCert = TRUE]
    /\ net' = (net \ {m}) \cup {Vote("COMMIT", m.to, m.view, m.seq, m.req)}
    /\ UNCHANGED <<lock, waiting, execVars, viewVars, timer>>

\* The deciding COMMIT makes the commit certificate.
OnCommit(r, s) ==
    /\ IsPrimary(r)
    /\ log[r][s].prepareCert
    /\ ~log[r][s].commitCert
    /\ Cardinality(Votes(r, "COMMIT", s)) >= Quorum
    /\ TryExecute(r, [log[r] EXCEPT ![s].commitCert = TRUE])
    /\ net' = net \cup Broadcast("COMMIT_CERT", r, view[r], s, log[r][s].req)
    /\ UNCHANGED <<waiting, viewVars, timer>>

OnCommitCert(m) ==
    /\ m.type = "COMMIT_CERT"
    /\ AcceptsCert(m)
    /\ TryExecute(m.to, [log[m.to] EXCEPT ![m.seq].commitCert = TRUE])
    /\ net' = net \ {m}
    /\ UNCHANGED <<waiting, viewVars, timer>>

\* A pre-prepare or vote that comes before what it needs is dropped, and not
\* sent again.  A message that comes too late is never accepted and may as well
\* stay; so may an early certificate, which the replicas whose votes are in it
\* can accept at once.
TooEarly(m) ==
    /\ m.view >= view[m.to]
    /\ \/ /\ m.type = "PRE_PREPARE"
          /\ log[m.to][m.seq].req = NoRequest
          /\ ~AcceptsPrePrepare(m)
       \/ m.type \in {"PREPARE", "COMMIT"} /\ ~CountsVote(m)

Drop(m) ==
    /\ TooEarly(m)
    /\ net' = net \ {m}
    /\ UNCHANGED <<log, lock, waiting, execVars, viewVars, timer>>

-----------------------------------------------------------------------------
(***************************************************************************)
(* Suspicion and VIEW-CHANGE.                                              *)
(***************************************************************************)
\* onBackupClientRequest: a backup, or a primary that is Byzantine, notes the
\* request and starts its suspicion timer unless it has one.  Bound: nobody is
\* suspected in view MaxView.
OnBackupClientRequest(r, req) ==
    /\ r \in Up \cap Reached[req]
    /\ view[r] < MaxView
    /\ IsPrimary(r) => r \in ByzantineLeader
    /\ FreshAndFunded(r, req)
    /\ req \notin pending[r] \/ timer[r] = "nil"
    /\ pending' = [pending EXCEPT ![r] = @ \cup {req}]
    /\ timer' = [timer EXCEPT ![r] = IF @ = "nil" THEN "armed" ELSE @]
    /\ UNCHANGED <<slotVars, execVars, view, nextSeq, vcLog, viewChanges, newViews, install>>

\* Everything pre-prepared and not executed is called prepared, and is tagged
\* with the view of the sender, whichever view proposed it.
BuildViewChange(r) ==
    [from     |-> r,
     newView  |-> view[r] + 1,
     stable   |-> execSeq[r] - 1,
     prepared |-> {[seq |-> s, view |-> view[r], req |-> log[r][s].req] :
                     s \in {i \in SeqNo : log[r][i].req # NoRequest /\ ~log[r][i].executed}},
     pending  |-> pending[r]]

Sent(r, v) == \E m \in viewChanges : m.from = r /\ m.newView = v

Count(recorded, v) == Cardinality({m \in recorded : m.newView = v})

(***************************************************************************)
(* buildNewViewLocked walks maps, so the VIEW-CHANGE messages come in any   *)
(* order, and so do the prepared slots and the pending requests.  While it  *)
(* walks it raises the latest stable number: an entry is left out when some *)
(* message up to its own claims to have executed it.  Of two entries for    *)
(* one slot the one of the higher view stays, or the later one.            *)
(***************************************************************************)
StableUpTo(order, i) == CHOOSE n \in 0 .. MaxSeq :
    /\ \A j \in 1 .. i : order[j].stable <= n
    /\ n = 0 \/ \E j \in 1 .. i : order[j].stable = n

Entries(order) ==
    UNION {{[at |-> i, entry |-> p] : p \in {q \in order[i].prepared : q.seq > StableUpTo(order, i)}} :
             i \in DOMAIN order}

Chosen(order) ==
    {[seq |-> e.entry.seq, req |-> e.entry.req] :
       e \in {d \in Entries(order) : \A c \in Entries(order) : c.entry.seq = d.entry.seq =>
                \/ c.entry.view < d.entry.view
                \/ c.entry.view = d.entry.view /\ c.at <= d.at}}

\* Mutant: new requests are numbered from the stable number on.
MutantHighestSeq(pps, floor) == floor

HighestSeq(pps, floor) == CHOOSE n \in 0 .. MaxSeq + 1 :
    /\ floor <= n
    /\ \A p \in pps : p.seq <= n
    /\ n = floor \/ \E p \in pps : p.seq = n

\* The requests some sender or the new primary itself has pending, that are
\* in no chosen slot and that the new primary can still start.
Unassigned(r, recorded, chosen) ==
    {req \in pending[r] \cup UNION {m.pending : m \in recorded} :
        FreshAndFunded(r, req) /\ \A p \in chosen : p.req # req}

\* New requests are numbered after everything the messages speak of.
FirstNew(r, order) ==
    LET after == HighestSeq(Chosen(order), StableUpTo(order, Len(order))) + 1
    IN  IF after < nextSeq[r] THEN nextSeq[r] ELSE after

NewView(v, old, new, first) ==
    [view |-> v,
     prePrepares |-> old \o [i \in DOMAIN new |-> [seq |-> first + i - 1, req |-> new[i]]]]

\* The NEW-VIEW messages r may build for view v.
NewViewsFor(r, v, recorded) ==
    UNION {{NewView(v, old, new, FirstNew(r, order)) :
                old \in SetToSeqs(Chosen(order)),
                new \in SetToSeqs(Unassigned(r, recorded, Chosen(order)))} :
             order \in SetToSeqs({m \in recorded : m.newView = v})}

\* Mutant: the number after the highest is counted from the old counter.
MutantEnterView(r, nv) ==
    /\ view' = [view EXCEPT ![r] = nv.view]
    /\ pending' = [pending EXCEPT ![r] = {}]
    /\ timer' = [timer EXCEPT ![r] = "nil"]
    /\ nextSeq' = [nextSeq EXCEPT ![r] = @ + HighestSeq(ToSet(nv.prePrepares), 0) + 1]
    /\ install' = [install EXCEPT ![r][nv.view] = nv.prePrepares]

\* onNewView up to its unlock: the pre-prepares are then accepted in turn.
EnterView(r, nv) ==
    LET highest == HighestSeq(ToSet(nv.prePrepares), 0) IN
    /\ view' = [view EXCEPT ![r] = nv.view]
    /\ pending' = [pending EXCEPT ![r] = {}]
    /\ timer' = [timer EXCEPT ![r] = "nil"]
    /\ nextSeq' = [nextSeq EXCEPT ![r] = IF highest >= @ THEN highest + 1 ELSE @]
    /\ install' = [install EXCEPT ![r][nv.view] = nv.prePrepares]

\* tryIssueNewView: once per view, by its primary, which enters it first.
\* Bound: every pre-prepare of the message is within MaxSeq.
IssuesNewView(r, v, recorded) ==
    /\ Count(recorded, v) >= Quorum
    /\ LeaderOf[v] = r
    /\ r \notin ByzantineLeader
    /\ \A nv \in newViews : nv.view # v

TryIssueNewView(r, v, recorded, fired) ==
    IF IssuesNewView(r, v, recorded)
    THEN \E nv \in NewViewsFor(r, v, recorded) :
            /\ \A p \in ToSet(nv.prePrepares) : p.seq \in SeqNo
            /\ newViews' = newViews \cup {nv}
            /\ EnterView(r, nv)
    ELSE /\ timer' = fired
         /\ UNCHANGED <<newViews, view, pending, nextSeq, install>>

\* triggerViewChange once recorded is what r has recorded: r sends its own
\* VIEW-CHANGE, once per view, records it and perhaps has a quorum with it.
TriggerViewChange(r, recorded, fired) ==
    LET own == BuildViewChange(r) IN
    IF Sent(r, own.newView)
    THEN /\ timer' = fired
         /\ vcLog' = [vcLog EXCEPT ![r] = recorded]
         /\ UNCHANGED <<viewChanges, newViews, view, pending, nextSeq, install>>
    ELSE /\ viewChanges' = viewChanges \cup {own}
         /\ vcLog' = [vcLog EXCEPT ![r] = recorded \cup {own}]
         /\ TryIssueNewView(r, own.newView, recorded \cup {own}, fired)

\* The timer fires and is not nil afterwards.
Timeout(r) ==
    /\ timer[r] = "armed"
    /\ TriggerViewChange(r, vcLog[r], [timer EXCEPT ![r] = "fired"])
    /\ UNCHANGED <<slotVars, execVars>>

\* A VIEW-CHANGE of another replica: the (F + 1)-th makes a replica that has
\* sent none join, the quorum makes the new primary issue NEW-VIEW.  A replica
\* that has sent its own and is not that primary records the message to no
\* effect, which is left out.
OnViewChange(r, m) ==
    LET recorded == vcLog[r] \cup {m} IN
    /\ r \in Up
    /\ m \notin vcLog[r]
    /\ m.newView > view[r]
    /\ LeaderOf[m.newView] = r \/ ~Sent(r, m.newView)
    /\ IF Count(recorded, m.newView) = F + 1 /\ ~Sent(r, m.newView)
       THEN TriggerViewChange(r, recorded, timer)
       ELSE /\ vcLog' = [vcLog EXCEPT ![r] = recorded]
            /\ TryIssueNewView(r, m.newView, recorded, timer)
            /\ UNCHANGED viewChanges
    /\ UNCHANGED <<slotVars, execVars>>

-----------------------------------------------------------------------------
(***************************************************************************)
(* NEW-VIEW.                                                               *)
(***************************************************************************)
Installing(r, v) == install[r][v] # <<>> \/ \E t \in waiting[r] : t.nv = v

\* Mutant: the new primary broadcasts before it has applied the message.
MutantBroadcastNewView(nv) == TRUE

\* The new primary broadcasts when it has accepted the pre-prepares itself.
BroadcastNewView(nv) == ~Installing(LeaderOf[nv.view], nv.view)

OnNewView(r, nv) ==
    /\ r \in Up
    /\ BroadcastNewView(nv)
    /\ nv.view > view[r]
    /\ EnterView(r, nv)
    /\ UNCHANGED <<slotVars, execVars, vcLog, viewChanges, newViews>>

(***************************************************************************)
(* acceptNewViewPrePrepare for the next pre-prepare of a NEW-VIEW, once     *)
(* processPrePrepare of the one before has returned.  A slot that already   *)
(* has that request is left as it is, and so is one after a gap.           *)
(***************************************************************************)
AcceptNewViewPrePrepare(r, v) ==
    LET p == Head(install[r][v]) IN
    /\ install[r][v] # <<>>
    /\ \A t \in waiting[r] : t.nv # v
    /\ install' = [install EXCEPT ![r][v] = Tail(@)]
    /\ IF ~GapClear(r, p.seq) \/ log[r][p.seq].req = p.req
       THEN UNCHANGED <<slotVars, timer>>
       ELSE /\ log' = [log EXCEPT ![r][p.seq].req = p.req]
            /\ timer' = [timer EXCEPT ![r] = "nil"]
            /\ IF IsPrimary(r)
               THEN IF CanAcquire(r, p.req)
                    THEN /\ lock' = [lock EXCEPT ![r] = SetLocks(r, p.req, p.seq)]
                         /\ net' = net \cup IF FreshAndFunded(r, p.req)
                                            THEN {Vote("PREPARE", r, v, p.seq, p.req)} ELSE {}
                         /\ UNCHANGED waiting
                    ELSE UNCHANGED <<lock, waiting, net>>
               ELSE ProcessPrePrepare(r, v, p.seq, p.req, v, net)
    /\ UNCHANGED <<execVars, view, nextSeq, pending, vcLog, viewChanges, newViews>>

-----------------------------------------------------------------------------
Handle(m) ==
    \/ OnPrePrepare(m)
    \/ OnPrepareCert(m)
    \/ OnCommitCert(m)
    \/ Drop(m)

Next ==
    \/ \E r \in Replica, req \in Request : StartConsensus(r, req)
    \/ \E r \in Replica, req \in Request : OnBackupClientRequest(r, req)
    \/ \E m \in net : Handle(m)
    \/ \E r \in Replica, s \in SeqNo : OnPrepare(r, s) \/ OnCommit(r, s)
    \/ \E r \in Replica : \E t \in waiting[r] : LockAndPrepare(r, t)
    \/ \E r \in Replica : Timeout(r)
    \/ \E r \in Replica : \E m \in viewChanges : OnViewChange(r, m)
    \/ \E r \in Replica : \E nv \in newViews : OnNewView(r, nv)
    \/ \E r \in Replica, v \in View : AcceptNewViewPrePrepare(r, v)

Spec == Init /\ [][Next]_vars

Fairness ==
    /\ \A r \in Replica, req \in Request :
        WF_vars(StartConsensus(r, req)) /\ WF_vars(OnBackupClientRequest(r, req))
    /\ WF_vars(\E m \in net : Handle(m))
    /\ WF_vars(\E r \in Replica, s \in SeqNo : OnPrepare(r, s) \/ OnCommit(r, s))
    /\ \A r \in Replica :
        /\ WF_vars(\E t \in waiting[r] : LockAndPrepare(r, t))
        /\ WF_vars(Timeout(r))
        /\ WF_vars(\E m \in viewChanges : OnViewChange(r, m))
        /\ WF_vars(\E nv \in newViews : OnNewView(r, nv))
        /\ WF_vars(\E v \in View : AcceptNewViewPrePrepare(r, v))

FairSpec == Spec /\ Fairness

-----------------------------------------------------------------------------
(***************************************************************************)
(* Properties.                                                             *)
(***************************************************************************)
\* Every variable keeps its type, and only VIEW-CHANGEs that were sent are
\* recorded.
TypeOK ==
    /\ view \in [Replica -> View]
    /\ nextSeq \in [Replica -> 1 .. MaxSeq + 1]
    /\ execSeq \in [Replica -> 1 .. MaxSeq + 1]
    /\ log \in [Replica -> [SeqNo -> Slot]]
    /\ lock \in [Replica -> [Item -> SeqNo \cup {0}]]
    /\ clientTS \in [Replica -> [Client -> Nat]]
    /\ datastore \in [Replica -> Seq(PrePrepare)]
    /\ waiting \in [Replica -> SUBSET
          [view : View, seq : SeqNo, req : Request, nv : View]]
    /\ pending \in [Replica -> SUBSET Request]
    /\ timer \in [Replica -> {"nil", "armed", "fired"}]
    /\ vcLog \in [Replica -> SUBSET viewChanges]
    /\ install \in [Replica -> [View -> Seq(PrePrepare)]]
    /\ net \subseteq Message

\* Nothing is executed twice.  A request may be in flight at some replicas and
\* pending at others when the view changes, and be proposed from both.
ExecutedOnce ==
    \A r \in Replica : \A j, k \in DOMAIN datastore[r] :
        datastore[r][j].req = datastore[r][k].req => j = k

SlotAgreement(j, k) == j.seq = k.seq => j.req = k.req

\* In every slot, whichever views proposed for it, all replicas execute the
\* same request.
AgreementAcrossViews ==
    \A r, q \in Replica : \A j \in ToSet(datastore[r]), k \in ToSet(datastore[q]) :
        SlotAgreement(j, k)

\* r sent a PREPARE for s after a VIEW-CHANGE of its own that says nothing of s.
VotedLate(r, s) ==
    \E m \in net, vc \in viewChanges :
        /\ m.type = "PREPARE" /\ m.from = r /\ m.seq = s
        /\ vc.from = r /\ vc.newView = m.view + 1
        /\ vc.stable < s
        /\ \A p \in vc.prepared : p.seq # s

\* What is executed in a slot survives the view change, unless a replica went
\* on voting in the old view after its VIEW-CHANGE: engine.go never looks at
\* inViewChange.
AgreementUnlessLateVotes ==
    \A r, q \in Replica : \A j \in ToSet(datastore[r]), k \in ToSet(datastore[q]) :
        SlotAgreement(j, k) \/ \E p \in Replica : VotedLate(p, j.seq)

ExecutedBy(req) ==
    {r \in Up : \E e \in ToSet(datastore[r]) : e.req = req}

\* With a silent primary, every transfer that reaches F + 1 backups is in the
\* end executed by the F + 1 replicas whose replies the client waits for.
EveryTransferAnswered ==
    \A req \in Request : <>(Cardinality(ExecutedBy(req)) >= F + 1)
=============================================================================
