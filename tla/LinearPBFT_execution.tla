------------------------ MODULE LinearPBFT_execution ------------------------
(***************************************************************************)
(* What a cluster that has given up no slot guarantees.  First, at the     *)
(* primary: it keeps the locks and the balance on which it accepted a      *)
(* proposal until the transfer is applied, and no replica steps over a     *)
(* committed slot.  ReleaseLock and acquireLocksForOp do not look at the   *)
(* owner of a lock.  The argument is that they need not: slots in flight   *)
(* at the primary have disjoint items, because a proposal needs its items  *)
(* free and a waiting task takes items that are free or its own; and only  *)
(* a slot in flight is applied.                                            *)
(*                                                                         *)
(* Second, what a certificate stands for.  Third, how often a request is   *)
(* applied: the primary refuses a request it has seen because the request  *)
(* is in its log, or holds locks, or has left its timestamp behind.        *)
(* Fourth, what a backup keeps locked and in which order it applies, where *)
(* no more replicas are up than a quorum needs: there every slot that is   *)
(* executed has been voted on, so its processPrePrepare is over.           *)
(***************************************************************************)
EXTENDS LinearPBFT_proofs

\* No slot was discarded, and nobody is told to discard one.
NoDiscards ==
    /\ \A r \in Replica : \A s \in SeqNo : ~log[r][s].discarded
    /\ \A m \in net : m.type # "DISCARD_SEQ"

\* A slot is applied after it was claimed.
AppliesClaimed ==
    \A r \in Replica : \A s \in applying[r] : log[r][s].executed

\* The cursor has stepped over nothing that it did not claim.
CursorPassesClaimed ==
    \A r \in Replica : \A s \in SeqNo : s < execSeq[r] => log[r][s].executed

\* What startConsensus has checked and taken for slot s.
Reserved(s) ==
    LET req == log[Primary][s].req IN
    /\ \A i \in LockItems(req) : lock[Primary][i] = s
    /\ bal[Primary][req.x] >= req.amt

ReservedInv == \A s \in SeqNo : InFlight(s) => Reserved(s)

LocksInv == NoDiscards /\ AppliesClaimed /\ CursorPassesClaimed /\ ReservedInv

(***************************************************************************)
(* What the handlers other than those of PRE_PREPARE and DISCARD_SEQ do to *)
(* a slot of replica r, of which the slots in claims remain to be applied. *)
(***************************************************************************)
SlotRuns(r, s, claims) ==
    /\ log'[r][s].prePrepare = log[r][s].prePrepare
    /\ log'[r][s].discarded = log[r][s].discarded
    /\ log'[r][s].req = log[r][s].req
    /\ log[r][s].executed => log'[r][s].executed
    /\ log'[r][s].executed => log[r][s].executed \/ s \in applying'[r]
    /\ s \in applying'[r] =>
        s \in claims \/ (~log[r][s].executed /\ log'[r][s].executed)
    /\ s \in claims => s \in applying'[r]
    /\ s < execSeq'[r] => s < execSeq[r] \/ log'[r][s].executed

Runs(r, claims) ==
    /\ \A s \in SeqNo : SlotRuns(r, s, claims)
    /\ \A q \in Replica \ {r} : \A s \in SeqNo : SlotRuns(q, s, applying[q])

\* tryExecute when the slot at the cursor is not discarded.
ExecutesSlot(r, slots, i, claims) ==
    IF i \in SeqNo /\ slots[i].commitCert # {} /\ ~slots[i].executed
    THEN /\ log' = [log EXCEPT ![r] = [slots EXCEPT ![i].executed = TRUE]]
         /\ execSeq' = [execSeq EXCEPT ![r] = i + 1]
         /\ applying' = [applying EXCEPT ![r] = claims \cup {i}]
    ELSE /\ log' = [log EXCEPT ![r] = slots]
         /\ execSeq' = [execSeq EXCEPT ![r] = i]
         /\ applying' = [applying EXCEPT ![r] = claims]

SendsNoDiscard == \A m \in net' \ net : m.type # "DISCARD_SEQ"

\* A handler at replica r that touches neither the locks nor the store.
HandlerRuns(r) ==
    /\ Runs(r, applying[r])
    /\ UNCHANGED <<lock, bal, clientTS, datastore>>
    /\ SendsNoDiscard

-----------------------------------------------------------------------------
(***************************************************************************)
(* Frames.                                                                 *)
(***************************************************************************)
\* A step that writes one slot but changes none of what SlotRuns is about.
LEMMA WritingRuns ==
    ASSUME TypeInv, NEW r \in Replica, NEW s \in SeqNo, NEW st \in Slot,
           log' = [log EXCEPT ![r][s] = st],
           st.prePrepare = log[r][s].prePrepare,
           st.discarded = log[r][s].discarded,
           st.req = log[r][s].req,
           st.executed = log[r][s].executed,
           UNCHANGED <<execSeq, applying>>
    PROVE  Runs(r, applying[r])
<1>1. log \in [Replica -> [SeqNo -> Slot]]
  BY DEF TypeInv, TypeOK
<1>2. /\ log'[r][s] = st
      /\ \A q \in Replica : \A t \in SeqNo :
           q # r \/ t # s => log'[q][t] = log[q][t]
  BY <1>1, SlotWritten
<1>3. \A q \in Replica : \A t \in SeqNo :
        /\ log'[q][t].prePrepare = log[q][t].prePrepare
        /\ log'[q][t].discarded = log[q][t].discarded
        /\ log'[q][t].req = log[q][t].req
        /\ log'[q][t].executed = log[q][t].executed
  BY <1>2
<1>4. QED
  BY <1>3 DEF Runs, SlotRuns

\* With no slot discarded, tryExecute looks at the slot at its cursor alone.
LEMMA ExecutesAtCursor ==
    ASSUME TypeInv, NEW r \in Replica, NEW slots \in [SeqNo -> Slot],
           NEW claims \in SUBSET SeqNo,
           \A t \in SeqNo : ~slots[t].discarded,
           TryExecute(r, slots, execSeq[r], claims)
    PROVE  ExecutesSlot(r, slots, execSeq[r], claims)
<1> DEFINE from == execSeq[r]
<1>1. PICK i \in from .. MaxSeq + 1 : FirstLive(slots, from, i) /\ ExecutesSlot(r, slots, i, claims)
  BY DEF TryExecute, ExecutesSlot
<1>2. from \in 1 .. MaxSeq + 1 /\ MaxSeq \in Nat
  BY BoundAssumption DEF TypeInv, TypeOK
<1>3. i = from
  <2> SUFFICES ASSUME i # from PROVE FALSE
    OBVIOUS
  <2>1. from \in SeqNo /\ from < i /\ from <= from
    BY <1>1, <1>2 DEF SeqNo
  <2>2. slots[from].discarded
    BY <1>1, <2>1 DEF FirstLive
  <2>3. QED
    BY <2>1, <2>2
<1>4. QED
  BY <1>1, <1>3

LEMMA ExecutingRuns ==
    ASSUME TypeInv, NoDiscards, NEW r \in Replica, NEW s \in SeqNo, NEW new \in Slot,
           NEW claims \in SUBSET SeqNo,
           NEW slots \in [SeqNo -> Slot], slots[s] = new,
           \A t \in SeqNo : t # s => slots[t] = log[r][t],
           new.prePrepare = log[r][s].prePrepare,
           new.discarded = log[r][s].discarded,
           new.req = log[r][s].req,
           new.executed = log[r][s].executed,
           TryExecute(r, slots, execSeq[r], claims)
    PROVE  Runs(r, claims)
<1>1. /\ log \in [Replica -> [SeqNo -> Slot]]
      /\ execSeq \in [Replica -> 1 .. MaxSeq + 1]
      /\ applying \in [Replica -> SUBSET SeqNo]
      /\ MaxSeq \in Nat
  BY BoundAssumption DEF TypeInv, TypeOK
<1>2. \A t \in SeqNo :
        /\ slots[t].prePrepare = log[r][t].prePrepare
        /\ slots[t].discarded = log[r][t].discarded
        /\ slots[t].req = log[r][t].req
        /\ slots[t].executed = log[r][t].executed
  OBVIOUS
<1>3. \A t \in SeqNo : ~slots[t].discarded
  BY <1>2 DEF NoDiscards
<1> DEFINE i == execSeq[r]
<1>4. i \in Int
  BY <1>1
<1>5. ExecutesSlot(r, slots, i, claims)
  BY <1>3, ExecutesAtCursor
<1>6. \A q \in Replica \ {r} : \A t \in SeqNo : SlotRuns(q, t, applying[q])
  <2>1. \A q \in Replica \ {r} : /\ log'[q] = log[q]
                                /\ applying'[q] = applying[q]
                                /\ execSeq'[q] = execSeq[q]
    <3>1. \E st, n, c : /\ log' = [log EXCEPT ![r] = st]
                       /\ execSeq' = [execSeq EXCEPT ![r] = n]
                       /\ applying' = [applying EXCEPT ![r] = c]
      BY <1>5 DEF ExecutesSlot
    <3>2. QED
      BY <1>1, <3>1
  <2>2. QED
    BY <2>1 DEF SlotRuns
<1>7. CASE i \in SeqNo /\ slots[i].commitCert # {} /\ ~slots[i].executed
  <2>1. /\ log'[r] = [slots EXCEPT ![i].executed = TRUE]
        /\ execSeq'[r] = i + 1
        /\ applying'[r] = claims \cup {i}
    BY <1>1, <1>5, <1>7 DEF ExecutesSlot
  <2>2. \A t \in SeqNo : t # i => log'[r][t] = slots[t]
    BY <2>1
  <2>3. /\ log'[r][i].prePrepare = slots[i].prePrepare
        /\ log'[r][i].discarded = slots[i].discarded
        /\ log'[r][i].req = slots[i].req
        /\ log'[r][i].executed
    <3>1. log'[r][i] = [slots[i] EXCEPT !.executed = TRUE]
      BY <1>7, <2>1
    <3>2. slots[i] \in Slot
      BY <1>7
    <3>3. QED
      BY <3>1, <3>2 DEF Slot
  <2>4. \A t \in SeqNo : t < execSeq'[r] => t < execSeq[r] \/ t = i
    BY <1>4, <2>1 DEF SeqNo
  <2>5. ~log[r][i].executed
    BY <1>2, <1>7
  <2> HIDE DEF i
  <2>6. \A t \in SeqNo : SlotRuns(r, t, claims)
    BY <1>2, <2>1, <2>2, <2>3, <2>4, <2>5 DEF SlotRuns
  <2>7. QED
    BY <1>6, <2>6 DEF Runs
<1>8. CASE ~(i \in SeqNo /\ slots[i].commitCert # {} /\ ~slots[i].executed)
  <2>1. /\ log'[r] = slots
        /\ execSeq'[r] = execSeq[r]
        /\ applying'[r] = claims
    BY <1>1, <1>5, <1>8 DEF ExecutesSlot
  <2>2. \A t \in SeqNo : SlotRuns(r, t, claims)
    BY <1>2, <2>1 DEF SlotRuns
  <2>3. QED
    BY <1>6, <2>2 DEF Runs
<1>9. QED
  BY <1>7, <1>8

\* What is in flight after such a step was in flight before.
LEMMA FlightKept ==
    ASSUME NEW r \in Replica, NEW claims \in SUBSET applying[r], Runs(r, claims),
           NEW s \in SeqNo, InFlight(s)'
    PROVE  InFlight(s) /\ log'[Primary][s].req = log[Primary][s].req
<1>1. Primary \in Replica
  BY FaultAssumption
<1>2. SlotRuns(Primary, s, IF Primary = r THEN claims ELSE applying[Primary])
  BY <1>1 DEF Runs
<1>3. QED
  BY <1>2 DEF SlotRuns, InFlight, Applied

\* A handler that runs so and touches neither locks nor balances.
LEMMA RunsKeepInv ==
    ASSUME TypeInv, TypeInv', LocksInv, NEW r \in Replica,
           NEW claims \in SUBSET applying[r], Runs(r, claims), SendsNoDiscard
    PROVE  /\ NoDiscards' /\ AppliesClaimed' /\ CursorPassesClaimed'
           /\ UNCHANGED <<lock, bal>> => LocksInv'
<1>0. applying' \in [Replica -> SUBSET SeqNo]
  BY DEF TypeInv, TypeOK
<1>1. \A q \in Replica : \A s \in SeqNo :
        \E c \in SUBSET applying[q] : SlotRuns(q, s, c)
  BY DEF Runs
<1>2. NoDiscards'
  BY <1>1 DEF LocksInv, NoDiscards, SlotRuns, SendsNoDiscard
<1>3. \A q \in Replica : \A s \in SeqNo : s \in applying'[q] => log'[q][s].executed
  BY <1>1 DEF LocksInv, AppliesClaimed, SlotRuns
<1>4. CursorPassesClaimed'
  BY <1>1 DEF LocksInv, CursorPassesClaimed, SlotRuns
<1>5. ASSUME UNCHANGED <<lock, bal>>
      PROVE  ReservedInv'
  <2> SUFFICES ASSUME NEW s \in SeqNo, InFlight(s)'
               PROVE  Reserved(s)'
    BY DEF ReservedInv
  <2>1. InFlight(s) /\ log'[Primary][s].req = log[Primary][s].req
    BY FlightKept
  <2>2. Reserved(s)
    BY <2>1 DEF LocksInv, ReservedInv
  <2>3. QED
    BY <1>5, <2>1, <2>2 DEF Reserved
<1>6. QED
  BY <1>0, <1>2, <1>3, <1>4, <1>5 DEF LocksInv, AppliesClaimed

\* A step that puts a proposal in a slot that is not live.
ProposesAt(r, s, req) ==
    /\ log' = [log EXCEPT ![r][s] = Proposed(req)]
    /\ ~(log[r][s].prePrepare /\ ~log[r][s].discarded)
    /\ execSeq' = execSeq /\ applying' = applying

OnlyProposes(r, s, req) ==
    /\ NoDiscards' /\ AppliesClaimed' /\ CursorPassesClaimed'
    /\ log'[r][s] = Proposed(req)
    /\ \A q \in Replica : \A t \in SeqNo : q # r \/ t # s => log'[q][t] = log[q][t]

LEMMA ProposingKeeps ==
    ASSUME TypeInv, TypeInv', RefinementInv, LocksInv, NEW r \in Replica, NEW s \in SeqNo,
           NEW req \in Request, ProposesAt(r, s, req), SendsNoDiscard
    PROVE  OnlyProposes(r, s, req)
<1>0. /\ log' = [log EXCEPT ![r][s] = Proposed(req)]
      /\ ~(log[r][s].prePrepare /\ ~log[r][s].discarded)
      /\ execSeq' = execSeq /\ applying' = applying
  BY DEF ProposesAt
<1>1. log \in [Replica -> [SeqNo -> Slot]]
  BY DEF TypeInv, TypeOK
<1>2. Proposed(req) \in Slot
  BY SlotTypes
<1>3. /\ log'[r][s] = Proposed(req)
      /\ \A q \in Replica : \A t \in SeqNo :
           q # r \/ t # s => log'[q][t] = log[q][t]
  BY <1>0, <1>1, <1>2, SlotWritten
<1>4. ~log[r][s].executed
  BY <1>0, UnclaimedUnlessLive
<1>5. s \notin applying[r] /\ ~(s < execSeq[r])
  BY <1>4 DEF LocksInv, AppliesClaimed, CursorPassesClaimed
<1>6. ~Proposed(req).discarded
  BY DEF Proposed, EmptySlot
<1>7. NoDiscards'
  <2>1. \A q \in Replica : \A t \in SeqNo : ~log'[q][t].discarded
    BY <1>3, <1>6 DEF LocksInv, NoDiscards
  <2>2. QED
    BY <2>1 DEF LocksInv, NoDiscards, SendsNoDiscard
<1>8. AppliesClaimed'
  <2>1. applying' = applying /\ applying \in [Replica -> SUBSET SeqNo]
    BY <1>0 DEF TypeInv, TypeOK
  <2>2. \A q \in Replica : \A t \in SeqNo : t \in applying[q] => log'[q][t].executed
    BY <1>3, <1>5 DEF LocksInv, AppliesClaimed
  <2>3. QED
    BY <2>1, <2>2 DEF AppliesClaimed
<1>9. CursorPassesClaimed'
  BY <1>0, <1>3, <1>5 DEF LocksInv, CursorPassesClaimed
<1>10. QED
  BY <1>3, <1>7, <1>8, <1>9 DEF OnlyProposes

-----------------------------------------------------------------------------
(***************************************************************************)
(* One lemma per action.                                                   *)
(***************************************************************************)
LEMMA LocksStartConsensus ==
    ASSUME TypeInv, TypeInv', RefinementInv, LocksInv,
           NEW req \in Request, StartConsensus(req)
    PROVE  LocksInv'
<1>1. /\ Primary \in Replica
      /\ nextSeq \in SeqNo
      /\ nextSeq >= nextSeq /\ nextSeq # 0
  BY FaultAssumption, BoundAssumption DEF TypeInv, TypeOK, StartConsensus, Startable, SeqNo
<1>2. /\ log' = [log EXCEPT ![Primary][nextSeq] = Proposed(req)]
      /\ UNCHANGED <<execSeq, applying>>
      /\ bal' = bal
      /\ lock' = [lock EXCEPT ![Primary] = Acquired(Primary, nextSeq, req)]
  BY DEF StartConsensus, storeVars
<1>3. ~log[Primary][nextSeq].prePrepare
  BY <1>1 DEF RefinementInv, AgreementInv, NextSlotsUnproposed
<1>4. SendsNoDiscard
  BY DEF StartConsensus, SendsNoDiscard, PrePrepareMsg
<1>5. /\ NoDiscards' /\ AppliesClaimed' /\ CursorPassesClaimed'
      /\ log'[Primary][nextSeq] = Proposed(req)
      /\ \A t \in SeqNo : t # nextSeq => log'[Primary][t] = log[Primary][t]
  <2>1. ProposesAt(Primary, nextSeq, req)
    BY <1>2, <1>3 DEF ProposesAt
  <2>2. OnlyProposes(Primary, nextSeq, req)
    BY <1>1, <1>4, <2>1, ProposingKeeps
  <2>3. QED
    BY <1>1, <2>2 DEF OnlyProposes
<1>6. lock \in [Replica -> [Item -> SeqNo \cup {0}]] /\ lock'[Primary] = Acquired(Primary, nextSeq, req)
  BY <1>1, <1>2 DEF TypeInv, TypeOK
<1>7. \A i \in LockItems(req) : lock[Primary][i] = 0
  BY DEF StartConsensus, Startable, CanAcquire
<1>8. req.x \in Item /\ req.y \in Item
  BY RequestFields
<1>9. ASSUME NEW s \in SeqNo, InFlight(s)'
      PROVE  Reserved(s)'
  <2>1. CASE s = nextSeq
    <3>1. log'[Primary][s].req = req
      BY <1>5, <2>1 DEF Proposed, EmptySlot
    <3>2. \A i \in LockItems(req) : lock'[Primary][i] = s
      BY <1>6, <1>8, <2>1 DEF Acquired, LockItems
    <3>3. bal'[Primary][req.x] >= req.amt
      BY <1>2 DEF StartConsensus, Startable, FreshAndFunded
    <3>4. QED
      BY <3>1, <3>2, <3>3 DEF Reserved
  <2>2. CASE s # nextSeq
    <3>1. log'[Primary][s] = log[Primary][s]
      BY <1>5, <2>2
    <3>2. InFlight(s)
      BY <1>2, <1>9, <3>1 DEF InFlight, Applied
    <3>3. Reserved(s)
      BY <3>2 DEF LocksInv, ReservedInv
    <3>4. log[Primary][s].req \in Request
      BY <1>1, <3>2 DEF TypeInv, SlotsHoldRequests, InFlight, InLog
    <3>5. LockItems(log[Primary][s].req) \subseteq Item
      BY <3>4, RequestFields DEF LockItems
    <3>6. s # 0
      BY DEF SeqNo
    <3>7. \A i \in LockItems(log[Primary][s].req) : lock'[Primary][i] = s
      BY <1>6, <1>7, <3>3, <3>5, <3>6 DEF Acquired, Reserved
    <3>8. QED
      BY <1>2, <3>1, <3>3, <3>7 DEF Reserved
  <2>3. QED
    BY <2>1, <2>2
<1>10. QED
  BY <1>5, <1>9 DEF LocksInv, ReservedInv

LEMMA LocksOnPrePrepare ==
    ASSUME TypeInv, TypeInv', RefinementInv, LocksInv, NEW m \in net, OnPrePrepare(m)
    PROVE  LocksInv'
<1>1. m.to \in Replica /\ m.seq \in SeqNo /\ m.req \in Request
  BY MessageFields DEF TypeInv, TypeOK, OnPrePrepare
<1>2. /\ log' = [log EXCEPT ![m.to][m.seq] = Proposed(m.req)]
      /\ UNCHANGED <<execSeq, applying>>
      /\ bal' = bal /\ lock' = lock
  BY DEF OnPrePrepare, storeVars
<1>3. ~(log[m.to][m.seq].prePrepare /\ ~log[m.to][m.seq].discarded)
  BY DEF OnPrePrepare, AcceptsPrePrepare
<1>4. SendsNoDiscard
  BY DEF OnPrePrepare, SendsNoDiscard
<1>5. m.to # Primary /\ Primary \in Replica
  BY FaultAssumption DEF OnPrePrepare, RefinementInv, AgreementInv, PrePreparesGoToBackups
<1>6. /\ NoDiscards' /\ AppliesClaimed' /\ CursorPassesClaimed'
      /\ \A s \in SeqNo : log'[Primary][s] = log[Primary][s]
  <2>1. ProposesAt(m.to, m.seq, m.req)
    BY <1>2, <1>3 DEF ProposesAt
  <2>2. OnlyProposes(m.to, m.seq, m.req)
    BY <1>1, <1>4, <2>1, ProposingKeeps
  <2>3. QED
    BY <1>5, <2>2 DEF OnlyProposes
<1>7. ReservedInv'
  BY <1>2, <1>6 DEF LocksInv, ReservedInv, Reserved, InFlight, Applied
<1>8. QED
  BY <1>6, <1>7 DEF LocksInv

LEMMA RunsOnPrepare ==
    ASSUME TypeInv, LocksInv, NEW m \in net, OnPrepare(m)
    PROVE  HandlerRuns(m.to)
<1> DEFINE st    == log[m.to][m.seq]
           votes == st.prepares \cup {m.from}
           cert  == Cardinality(votes) >= Quorum /\ st.prepareCert = {}
           new   == [st EXCEPT !.prepares = votes,
                               !.prepareCert = IF cert THEN votes ELSE @]
<1>1. m.to \in Replica /\ m.seq \in SeqNo /\ m.from \in Replica
  BY MessageFields DEF OnPrepare, TypeInv, TypeOK
<1>2. log \in [Replica -> [SeqNo -> Slot]] /\ st \in Slot
  BY <1>1 DEF TypeInv, TypeOK
<1>3. log' = [log EXCEPT ![m.to][m.seq] = new]
  BY <1>1, <1>2 DEF OnPrepare
<1>4. /\ new \in Slot
      /\ new.prePrepare = st.prePrepare /\ new.discarded = st.discarded
      /\ new.req = st.req /\ new.executed = st.executed
  BY <1>1, <1>2 DEF Slot
<1>5. UNCHANGED <<execSeq, applying>> /\ UNCHANGED <<lock, bal, clientTS, datastore>>
  BY DEF OnPrepare, storeVars
<1>6. SendsNoDiscard
  <2>1. net' \subseteq net \cup {VoteMsg("COMMIT", m.to, m.seq, m.req)}
                 \cup {CertMsg("PREPARE_CERT", r, m.seq, m.req, votes) : r \in Up \ {m.to}}
    BY DEF OnPrepare
  <2>2. VoteMsg("COMMIT", m.to, m.seq, m.req).type = "COMMIT"
    BY DEF VoteMsg
  <2>3. \A r : CertMsg("PREPARE_CERT", r, m.seq, m.req, votes).type = "PREPARE_CERT"
    BY DEF CertMsg
  <2>4. QED
    BY <2>1, <2>2, <2>3 DEF SendsNoDiscard
<1> HIDE DEF new
<1>7. Runs(m.to, applying[m.to])
  BY <1>1, <1>3, <1>4, <1>5, WritingRuns
<1>8. QED
  BY <1>1, <1>5, <1>6, <1>7 DEF HandlerRuns

LEMMA RunsOnPrepareCert ==
    ASSUME TypeInv, LocksInv, NEW m \in net, OnPrepareCert(m)
    PROVE  HandlerRuns(m.to)
<1> DEFINE st  == log[m.to][m.seq]
           new == [st EXCEPT !.prepareCert = m.sigs]
<1>1. m.to \in Replica /\ m.seq \in SeqNo /\ m.sigs \in SUBSET Replica
  BY MessageFields DEF OnPrepareCert, TypeInv, TypeOK
<1>2. log \in [Replica -> [SeqNo -> Slot]] /\ st \in Slot
  BY <1>1 DEF TypeInv, TypeOK
<1>3. log' = [log EXCEPT ![m.to][m.seq] = new]
  BY <1>1, <1>2 DEF OnPrepareCert
<1>4. /\ new \in Slot
      /\ new.prePrepare = st.prePrepare /\ new.discarded = st.discarded
      /\ new.req = st.req /\ new.executed = st.executed
  BY <1>1, <1>2 DEF Slot
<1>5. UNCHANGED <<execSeq, applying>> /\ UNCHANGED <<lock, bal, clientTS, datastore>>
  BY DEF OnPrepareCert, storeVars
<1>6. SendsNoDiscard
  BY DEF OnPrepareCert, SendsNoDiscard, VoteMsg
<1> HIDE DEF new
<1>7. Runs(m.to, applying[m.to])
  BY <1>1, <1>3, <1>4, <1>5, WritingRuns
<1>8. QED
  BY <1>1, <1>5, <1>6, <1>7 DEF HandlerRuns

LEMMA RunsOnCommit ==
    ASSUME TypeInv, LocksInv, NEW m \in net, OnCommit(m)
    PROVE  HandlerRuns(m.to)
<1> DEFINE st  == log[m.to][m.seq]
           new == [st EXCEPT !.commits = st.commits \cup {m.from}]
<1>1. m.to \in Replica /\ m.seq \in SeqNo /\ m.from \in Replica
  BY MessageFields DEF OnCommit, TypeInv, TypeOK
<1>2. log \in [Replica -> [SeqNo -> Slot]] /\ st \in Slot
  BY <1>1 DEF TypeInv, TypeOK
<1>3. log' = [log EXCEPT ![m.to][m.seq] = new]
  BY <1>1, <1>2 DEF OnCommit
<1>4. /\ new \in Slot
      /\ new.prePrepare = st.prePrepare /\ new.discarded = st.discarded
      /\ new.req = st.req /\ new.executed = st.executed
  BY <1>1, <1>2 DEF Slot
<1>5. UNCHANGED <<execSeq, applying>> /\ UNCHANGED <<lock, bal, clientTS, datastore>>
  BY DEF OnCommit, storeVars
<1>6. SendsNoDiscard
  BY DEF OnCommit, SendsNoDiscard
<1> HIDE DEF new
<1>7. Runs(m.to, applying[m.to])
  BY <1>1, <1>3, <1>4, <1>5, WritingRuns
<1>8. QED
  BY <1>1, <1>5, <1>6, <1>7 DEF HandlerRuns

LEMMA RunsOnDecidingCommit ==
    ASSUME TypeInv, LocksInv, NEW m \in net, OnDecidingCommit(m)
    PROVE  HandlerRuns(m.to)
<1> DEFINE st    == log[m.to][m.seq]
           votes == st.commits \cup {m.from}
           new   == [st EXCEPT !.commits = votes, !.commitCert = votes]
           slots == [log[m.to] EXCEPT ![m.seq] = new]
<1>1. m.to \in Replica /\ m.seq \in SeqNo /\ m.from \in Replica
  BY MessageFields DEF OnDecidingCommit, TypeInv, TypeOK
<1>2. log \in [Replica -> [SeqNo -> Slot]] /\ st \in Slot
  BY <1>1 DEF TypeInv, TypeOK
<1>3. /\ new \in Slot
      /\ new.prePrepare = st.prePrepare /\ new.discarded = st.discarded
      /\ new.req = st.req /\ new.executed = st.executed
  BY <1>1, <1>2 DEF Slot
<1>4. TryExecute(m.to, slots, execSeq[m.to], applying[m.to])
  BY <1>1, <1>2 DEF OnDecidingCommit
<1>5. applying[m.to] \in SUBSET SeqNo /\ UNCHANGED <<lock, bal, clientTS, datastore>>
  BY <1>1 DEF TypeInv, TypeOK, OnDecidingCommit, storeVars
<1>6. SendsNoDiscard
  <2>1. net' \subseteq net \cup
          {CertMsg("COMMIT_CERT", r, m.seq, m.req, votes) : r \in Up \ {m.to}}
    BY DEF OnDecidingCommit
  <2>2. \A r : CertMsg("COMMIT_CERT", r, m.seq, m.req, votes).type = "COMMIT_CERT"
    BY DEF CertMsg
  <2>3. QED
    BY <2>1, <2>2 DEF SendsNoDiscard
<1> HIDE DEF new
<1>7. /\ slots \in [SeqNo -> Slot]
      /\ slots[m.seq] = new
      /\ \A t \in SeqNo : t # m.seq => slots[t] = log[m.to][t]
  BY <1>1, <1>2, <1>3, SlotPassed
<1> HIDE DEF slots
<1>8. NoDiscards
  BY DEF LocksInv
<1>9. Runs(m.to, applying[m.to])
  BY <1>1, <1>3, <1>4, <1>5, <1>7, <1>8, ExecutingRuns
<1>10. QED
  BY <1>1, <1>5, <1>6, <1>9 DEF HandlerRuns

LEMMA RunsOnCommitCert ==
    ASSUME TypeInv, LocksInv, NEW m \in net, OnCommitCert(m)
    PROVE  HandlerRuns(m.to)
<1> DEFINE st    == log[m.to][m.seq]
           new   == [st EXCEPT !.commitCert = m.sigs]
           slots == [log[m.to] EXCEPT ![m.seq] = new]
<1>1. m.to \in Replica /\ m.seq \in SeqNo /\ m.sigs \in SUBSET Replica
  BY MessageFields DEF OnCommitCert, TypeInv, TypeOK
<1>2. log \in [Replica -> [SeqNo -> Slot]] /\ st \in Slot
  BY <1>1 DEF TypeInv, TypeOK
<1>3. /\ new \in Slot
      /\ new.prePrepare = st.prePrepare /\ new.discarded = st.discarded
      /\ new.req = st.req /\ new.executed = st.executed
  BY <1>1, <1>2 DEF Slot
<1>4. TryExecute(m.to, slots, execSeq[m.to], applying[m.to])
  BY <1>1, <1>2 DEF OnCommitCert
<1>5. applying[m.to] \in SUBSET SeqNo /\ UNCHANGED <<lock, bal, clientTS, datastore>>
  BY <1>1 DEF TypeInv, TypeOK, OnCommitCert, storeVars
<1>6. SendsNoDiscard
  BY DEF OnCommitCert, SendsNoDiscard
<1> HIDE DEF new
<1>7. /\ slots \in [SeqNo -> Slot]
      /\ slots[m.seq] = new
      /\ \A t \in SeqNo : t # m.seq => slots[t] = log[m.to][t]
  BY <1>1, <1>2, <1>3, SlotPassed
<1> HIDE DEF slots
<1>8. NoDiscards
  BY DEF LocksInv
<1>9. Runs(m.to, applying[m.to])
  BY <1>1, <1>3, <1>4, <1>5, <1>7, <1>8, ExecutingRuns
<1>10. QED
  BY <1>1, <1>5, <1>6, <1>9 DEF HandlerRuns

\* A step that leaves the log, the cursors and the claims alone.
LEMMA LogKept ==
    ASSUME LocksInv, SendsNoDiscard,
           log' = log, execSeq' = execSeq, applying' = applying
    PROVE  /\ NoDiscards' /\ AppliesClaimed' /\ CursorPassesClaimed'
           /\ \A s \in SeqNo : InFlight(s)' => InFlight(s)
<1>1. NoDiscards'
  BY DEF LocksInv, NoDiscards, SendsNoDiscard
<1>2. AppliesClaimed' /\ CursorPassesClaimed'
  BY DEF LocksInv, AppliesClaimed, CursorPassesClaimed
<1>3. QED
  BY <1>1, <1>2 DEF InFlight, Applied

\* The items of a slot in flight at the primary, and what they are.
LEMMA ReservedItems ==
    ASSUME TypeInv, LocksInv, NEW s \in SeqNo, InFlight(s)
    PROVE  /\ Primary \in Replica
           /\ LockItems(log[Primary][s].req) \subseteq Item
           /\ log[Primary][s].req.x \in LockItems(log[Primary][s].req)
           /\ \A i \in LockItems(log[Primary][s].req) : lock[Primary][i] = s
           /\ bal[Primary][log[Primary][s].req.x] >= log[Primary][s].req.amt
<1>1. Primary \in Replica
  BY FaultAssumption
<1>2. log[Primary][s].req \in Request
  BY <1>1 DEF TypeInv, SlotsHoldRequests, InFlight, InLog
<1>3. Reserved(s)
  BY DEF LocksInv, ReservedInv
<1>4. QED
  BY <1>1, <1>2, <1>3, RequestFields DEF Reserved, LockItems

LEMMA LocksLockAndPrepare ==
    ASSUME TypeInv, LocksInv, NEW r \in Replica, NEW t \in tasks[r], LockAndPrepare(r, t)
    PROVE  LocksInv'
<1> DEFINE u   == t[1]
           req == t[2]
<1>1. /\ log' = log /\ execSeq' = execSeq /\ applying' = applying /\ bal' = bal
      /\ lock' = [lock EXCEPT ![r] = Acquired(r, u, req)]
      /\ \A i \in LockItems(req) : lock[r][i] \in {0, u}
  BY DEF LockAndPrepare, LocksReadyForSeq, storeVars
<1>2. SendsNoDiscard
  BY DEF LockAndPrepare, SendsNoDiscard, VoteMsg
<1>3. NoDiscards' /\ AppliesClaimed' /\ CursorPassesClaimed'
  BY <1>1, <1>2, LogKept
<1> HIDE DEF u, req
<1>4. ASSUME NEW s \in SeqNo, InFlight(s)'
      PROVE  Reserved(s)'
  <2>1. InFlight(s)
    BY <1>1, <1>2, <1>4, LogKept
  <2>2. /\ Primary \in Replica
        /\ LockItems(log[Primary][s].req) \subseteq Item
        /\ \A i \in LockItems(log[Primary][s].req) : lock[Primary][i] = s
        /\ bal[Primary][log[Primary][s].req.x] >= log[Primary][s].req.amt
    BY <2>1, ReservedItems
  <2>3. s # 0
    BY DEF SeqNo
  <2>4. lock \in [Replica -> [Item -> SeqNo \cup {0}]]
    BY DEF TypeInv, TypeOK
  <2>5. \A i \in Item : lock[Primary][i] = s => lock'[Primary][i] = s
    <3>1. CASE r # Primary
      BY <1>1, <2>2, <2>4, <3>1
    <3>2. CASE r = Primary
      <4>1. lock'[Primary] = Acquired(Primary, u, req)
        BY <1>1, <2>4, <3>2
      <4>2. QED
        BY <1>1, <2>3, <3>2, <4>1 DEF Acquired
    <3>3. QED
      BY <3>1, <3>2
  <2>6. QED
    BY <1>1, <2>2, <2>5 DEF Reserved
<1>5. QED
  BY <1>3, <1>4 DEF LocksInv, ReservedInv

\* What executeIntra does to locks and balances, seen from another item.
LEMMA ApplyKeepsOthers ==
    ASSUME TypeInv, NEW r \in Replica, NEW s \in SeqNo, Apply(r, s)
    PROVE  /\ \A q \in Replica \ {r} : lock'[q] = lock[q] /\ bal'[q] = bal[q]
           /\ \A i \in Item : i \notin LockItems(log[r][s].req) =>
                lock'[r][i] = lock[r][i] /\ bal'[r][i] = bal[r][i]
<1> DEFINE req == log[r][s].req
           moved == [bal EXCEPT ![r][req.x] = @ - req.amt,
                                ![r][req.y] = bal[r][req.y] + req.amt]
<1>1. /\ lock \in [Replica -> [Item -> SeqNo \cup {0}]]
      /\ bal \in [Replica -> [Item -> Nat]]
  BY DEF TypeInv, TypeOK
<1>2. lock' = [lock EXCEPT ![r] = Released(r, req)]
  BY DEF Apply
<1>3. bal' = moved \/ bal' = bal
  BY DEF Apply, storeVars
<1> HIDE DEF req
<1>4. /\ \A q \in Replica \ {r} : moved[q] = bal[q]
      /\ \A i \in Item : i # req.x /\ i # req.y => moved[r][i] = bal[r][i]
  BY <1>1
<1> HIDE DEF moved
<1>5. \A q \in Replica \ {r} : lock'[q] = lock[q]
  BY <1>1, <1>2
<1>6. lock'[r] = Released(r, req)
  BY <1>1, <1>2
<1>7. \A i \in Item : i \notin LockItems(req) => lock'[r][i] = lock[r][i]
  BY <1>6 DEF Released
<1>8. QED
  BY <1>3, <1>4, <1>5, <1>7 DEF LockItems, req

\* Only a slot in flight is applied, so its locks are its own; once it is
\* applied it is in flight no longer.
LEMMA LocksApply ==
    ASSUME TypeInv, TypeInv', RefinementInv, LocksInv,
           NEW r \in Replica, NEW s \in SeqNo, Apply(r, s)
    PROVE  LocksInv'
<1>1. /\ log[r] \in [SeqNo -> Slot]
      /\ applying[r] \ {s} \in SUBSET SeqNo
      /\ log[r][s] \in Slot
  BY DEF TypeInv, TypeOK
<1>2. s \in applying[r] /\ TryExecute(r, log[r], execSeq[r], applying[r] \ {s})
  BY DEF Apply
<1>3. NoDiscards /\ AppliesClaimed
  BY DEF LocksInv
<1>4. Runs(r, applying[r] \ {s})
  BY <1>1, <1>2, <1>3, ExecutingRuns
<1>5. SendsNoDiscard
  BY DEF Apply, SendsNoDiscard
<1>6. NoDiscards' /\ AppliesClaimed' /\ CursorPassesClaimed'
  BY <1>4, <1>5, RunsKeepInv
<1>7. r = Primary => InFlight(s)
  <2> SUFFICES ASSUME r = Primary PROVE InFlight(s)
    OBVIOUS
  <2>1. log[r][s].executed /\ ~log[r][s].discarded
    BY <1>2, <1>3 DEF AppliesClaimed, NoDiscards
  <2>2. log[r][s].prePrepare
    BY <2>1, UnclaimedUnlessLive
  <2>3. QED
    BY <1>2, <2>1, <2>2 DEF InFlight, Applied
<1>8. ASSUME NEW u \in SeqNo, InFlight(u)'
      PROVE  Reserved(u)'
  <2>1. InFlight(u) /\ log'[Primary][u].req = log[Primary][u].req
    BY <1>4, <1>8, FlightKept
  <2>2. /\ Primary \in Replica
        /\ LockItems(log[Primary][u].req) \subseteq Item
        /\ log[Primary][u].req.x \in LockItems(log[Primary][u].req)
        /\ \A i \in LockItems(log[Primary][u].req) : lock[Primary][i] = u
        /\ bal[Primary][log[Primary][u].req.x] >= log[Primary][u].req.amt
    BY <2>1, ReservedItems
  <2>3. \A i \in LockItems(log[Primary][u].req) :
          lock'[Primary][i] = lock[Primary][i] /\ bal'[Primary][i] = bal[Primary][i]
    <3>1. CASE r # Primary
      BY <2>2, <3>1, ApplyKeepsOthers
    <3>2. CASE r = Primary
      <4>1. u # s
        <5> SUFFICES ASSUME u = s PROVE FALSE
          OBVIOUS
        <5>1. SlotRuns(Primary, u, applying[r] \ {s})
          BY <1>4, <3>2 DEF Runs
        <5>2. log[Primary][u].executed
          BY <1>2, <1>3, <3>2 DEF AppliesClaimed
        <5>3. u \in applying'[Primary]
          BY <1>8, <5>1, <5>2 DEF SlotRuns, InFlight, Applied
        <5>4. QED
          BY <5>1, <5>2, <5>3 DEF SlotRuns
      <4>2. \A i \in LockItems(log[Primary][s].req) : lock[Primary][i] = s
        BY <1>7, <3>2, ReservedItems
      <4>3. \A i \in LockItems(log[Primary][u].req) : i \notin LockItems(log[r][s].req)
        BY <2>2, <3>2, <4>1, <4>2
      <4>4. QED
        BY <2>2, <3>2, <4>3, ApplyKeepsOthers
    <3>3. QED
      BY <3>1, <3>2
  <2>4. QED
    BY <2>1, <2>2, <2>3 DEF Reserved
<1>9. QED
  BY <1>6, <1>8 DEF LocksInv, ReservedInv

LEMMA LocksNext ==
    ASSUME TypeInv, TypeInv', RefinementInv, LocksInv, [Next]_vars, reclaims' = 0
    PROVE  LocksInv'
<1>1. ASSUME log' = log, execSeq' = execSeq, applying' = applying, lock' = lock,
             bal' = bal, SendsNoDiscard
      PROVE  LocksInv'
  <2>1. /\ NoDiscards' /\ AppliesClaimed' /\ CursorPassesClaimed'
        /\ \A s \in SeqNo : InFlight(s)' => InFlight(s)
    BY <1>1, LogKept
  <2>2. ReservedInv'
    BY <1>1, <2>1 DEF LocksInv, ReservedInv, Reserved
  <2>3. QED
    BY <2>1, <2>2 DEF LocksInv
<1>2. ASSUME NEW req \in Request, StartConsensus(req) \/ StartSelfTransfer(req)
      PROVE  LocksInv'
  <2>1. CASE StartConsensus(req)
    BY <2>1, LocksStartConsensus
  <2>2. CASE StartSelfTransfer(req)
    BY <1>1, <2>2 DEF StartSelfTransfer, SendsNoDiscard, storeVars
  <2>3. QED
    BY <1>2, <2>1, <2>2
<1>3. ASSUME NEW m \in net, Handle(m)
      PROVE  LocksInv'
  <2>0. ASSUME HandlerRuns(m.to) PROVE LocksInv'
    <3>1. m.to \in Replica
      BY <1>3, MessageFields DEF TypeInv, TypeOK
    <3>2. QED
      BY <2>0, <3>1, RunsKeepInv DEF HandlerRuns
  <2>1. CASE OnPrePrepare(m)
    BY <2>1, LocksOnPrePrepare
  <2>2. CASE OnPrepare(m)
    BY <2>0, <2>2, RunsOnPrepare
  <2>3. CASE OnPrepareCert(m)
    BY <2>0, <2>3, RunsOnPrepareCert
  <2>4. CASE OnCommit(m)
    BY <2>0, <2>4, RunsOnCommit
  <2>5. CASE OnDecidingCommit(m)
    BY <2>0, <2>5, RunsOnDecidingCommit
  <2>6. CASE OnCommitCert(m)
    BY <2>0, <2>6, RunsOnCommitCert
  <2>7. CASE OnDiscardSeq(m)
    BY <2>7 DEF OnDiscardSeq, LocksInv, NoDiscards
  <2>8. CASE Ignore(m)
    BY <1>1, <2>8 DEF Ignore, SendsNoDiscard, storeVars
  <2>9. QED
    BY <1>3, <2>1, <2>2, <2>3, <2>4, <2>5, <2>6, <2>7, <2>8 DEF Handle
<1>4. ASSUME NEW r \in Replica, NEW t \in tasks[r], LockAndPrepare(r, t)
      PROVE  LocksInv'
  BY <1>4, LocksLockAndPrepare
<1>5. ASSUME NEW r \in Replica, NEW t \in tasks[r], LockWaitExpires(r, t)
      PROVE  LocksInv'
  BY <1>1, <1>5 DEF LockWaitExpires, SendsNoDiscard, storeVars
<1>6. ASSUME NEW r \in Replica, NEW s \in SeqNo, Apply(r, s)
      PROVE  LocksInv'
  BY <1>6, LocksApply
<1>7. ASSUME NEW s \in SeqNo, Reclaim(s)
      PROVE  FALSE
  BY <1>7 DEF Reclaim, TypeInv, TypeOK
<1>8. CASE UNCHANGED vars
  BY <1>1, <1>8 DEF vars, SendsNoDiscard, storeVars
<1>9. QED
  BY <1>2, <1>3, <1>4, <1>5, <1>6, <1>7, <1>8 DEF Next

-----------------------------------------------------------------------------
(***************************************************************************)
(* The invariant and what follows from it.                                 *)
(***************************************************************************)
\* Reclaims are counted and never forgotten.
LEMMA ReclaimsCounted ==
    ASSUME TypeInv, [Next]_vars, reclaims' = 0
    PROVE  reclaims = 0
<1>1. reclaims \in Nat
  BY BoundAssumption DEF TypeInv, TypeOK
<1>2. reclaims' = reclaims \/ reclaims' = reclaims + 1
  BY DEF Next, vars, Handle, StartConsensus, StartSelfTransfer, OnPrePrepare, OnPrepare,
         OnPrepareCert, OnCommit, OnDecidingCommit, OnCommitCert, OnDiscardSeq, Ignore,
         LockAndPrepare, LockWaitExpires, Apply, Reclaim
<1>3. QED
  BY <1>1, <1>2

LEMMA LocksInvInit == Init => LocksInv
<1> SUFFICES ASSUME Init PROVE LocksInv
  OBVIOUS
<1>1. \A r \in Replica : \A s \in SeqNo :
        /\ log[r][s] = EmptySlot
        /\ applying[r] = {}
        /\ execSeq[r] = 1
  BY DEF Init
<1>2. \A s \in SeqNo : ~(s < 1)
  BY DEF SeqNo
<1>3. NoDiscards /\ AppliesClaimed /\ CursorPassesClaimed
  BY <1>1, <1>2 DEF Init, NoDiscards, AppliesClaimed, CursorPassesClaimed, EmptySlot
<1>4. ReservedInv
  BY <1>1, FaultAssumption DEF ReservedInv, InFlight, EmptySlot
<1>5. QED
  BY <1>3, <1>4 DEF LocksInv

UnreclaimedInv == TypeInv /\ RefinementInv /\ (reclaims = 0 => LocksInv)

LEMMA UnreclaimedInvariant == Spec => []UnreclaimedInv
<1>1. Init => (reclaims = 0 => LocksInv)
  BY LocksInvInit
<1>2. /\ TypeInv /\ RefinementInv /\ (reclaims = 0 => LocksInv)
      /\ [Next]_vars
      /\ (TypeInv /\ RefinementInv)'
      => (reclaims = 0 => LocksInv)'
  BY LocksNext, ReclaimsCounted
<1>3. QED
  BY <1>1, <1>2, RefinementInvariant, PTL DEF Spec, UnreclaimedInv

\* While the cluster has given up no slot, the locks taken in startConsensus
\* stay with their slot at the primary until executeIntra has run: neither
\* the unconditional ReleaseLock of another slot nor a late processPrePrepare
\* takes them away, whatever the number of slots and the order of messages.
THEOREM LocksHeld == Spec => [](reclaims = 0 => PrimaryHoldsItsLocks)
<1>1. UnreclaimedInv => (reclaims = 0 => PrimaryHoldsItsLocks)
  BY DEF UnreclaimedInv, LocksInv, ReservedInv, Reserved, PrimaryHoldsItsLocks
<1>2. QED
  BY <1>1, UnreclaimedInvariant, PTL

\* While the cluster has given up no slot, the balance that validateRequest
\* has seen before the proposal is still there when executeIntra looks again.
THEOREM FundsHeld == Spec => [](reclaims = 0 => FundsStayReserved)
<1>1. UnreclaimedInv => (reclaims = 0 => FundsStayReserved)
  BY DEF UnreclaimedInv, LocksInv, ReservedInv, Reserved, FundsStayReserved
<1>2. QED
  BY <1>1, UnreclaimedInvariant, PTL

\* While the cluster has given up no slot, the cursor of tryExecute leaves no
\* committed slot behind it unexecuted, at any replica.
THEOREM NothingSkipped == Spec => [](reclaims = 0 => NoCommittedSlotSkipped)
<1>1. UnreclaimedInv => (reclaims = 0 => NoCommittedSlotSkipped)
  BY DEF UnreclaimedInv, LocksInv, CursorPassesClaimed, NoCommittedSlotSkipped
<1>2. QED
  BY <1>1, UnreclaimedInvariant, PTL

-----------------------------------------------------------------------------
(***************************************************************************)
(* What the certificates of a cluster that has given up no slot stand for. *)
(*                                                                         *)
(* A vote is a claim about the slot of its sender: PREPARE says that the   *)
(* sender accepted a proposal, COMMIT that it holds a prepare certificate. *)
(* The collector copies signers into certificates long after the votes     *)
(* were sent, and replicas check no more than the digest.  The claims stay *)
(* true because a slot that is proposed is never proposed again, and only  *)
(* a prepare certificate that is just as good replaces another one.        *)
(***************************************************************************)

\* Replica v has accepted the proposal of req for slot s.
Accepted(v, s, req) == log[v][s].prePrepare /\ log[v][s].req = req

AllAccepted(sigs, s, req) ==
    Cardinality(sigs) >= Quorum /\ \A v \in sigs : Accepted(v, s, req)

\* Replica q holds a prepare certificate for req.
Prepared(q, s, req) == Accepted(q, s, req) /\ AllAccepted(log[q][s].prepareCert, s, req)

AllPrepared(sigs, s, req) ==
    Cardinality(sigs) >= Quorum /\ \A q \in sigs : Prepared(q, s, req)

\* The votes and certificates that slot st with number s contains.
SlotBacked(st, s) ==
    /\ \A v \in st.prepares : Accepted(v, s, st.req)
    /\ st.prepareCert # {} => AllAccepted(st.prepareCert, s, st.req)
    /\ \A q \in st.commits : Prepared(q, s, st.req)
    /\ st.commitCert # {} => AllPrepared(st.commitCert, s, st.req)

\* The claim that a message makes.
MessageBacked(m) ==
    /\ m.type = "PREPARE" => Accepted(m.from, m.seq, m.req)
    /\ m.type = "COMMIT" => Prepared(m.from, m.seq, m.req)
    /\ m.type = "PREPARE_CERT" => \A v \in m.sigs : Accepted(v, m.seq, m.req)
    /\ m.type = "COMMIT_CERT" => \A q \in m.sigs : Prepared(q, m.seq, m.req)

TasksAccepted == \A r \in Replica : \A t \in tasks[r] : Accepted(r, t[1], t[2])

CertsInv ==
    /\ TasksAccepted
    /\ \A m \in net : MessageBacked(m)
    /\ \A r \in Replica : \A s \in SeqNo : SlotBacked(log[r][s], s)

(***************************************************************************)
(* What a step may do: a proposal stays, a prepare certificate is replaced *)
(* only by another, and whatever a slot contains afterwards is backed by   *)
(* the state before; what is sent or started is backed by the state after. *)
(***************************************************************************)
SlotKept(old, new) ==
    /\ old.prePrepare => new.prePrepare /\ new.req = old.req
    /\ old.prepareCert # {} => new.prepareCert # {}

CertStep ==
    \A r \in Replica : \A s \in SeqNo :
        SlotKept(log[r][s], log'[r][s]) /\ SlotBacked(log'[r][s], s)

SendsBacked == \A m \in net' \ net : MessageBacked(m)'

StartsAccepted ==
    \A r \in Replica : \A t \in tasks'[r] : t \in tasks[r] \/ Accepted(r, t[1], t[2])'

CertEffect == CertStep /\ SendsBacked /\ StartsAccepted

-----------------------------------------------------------------------------
(***************************************************************************)
(* Such a step keeps the invariant.                                        *)
(***************************************************************************)
LEMMA AcceptedKept ==
    ASSUME CertStep, NEW v \in Replica, NEW s \in SeqNo, NEW req, Accepted(v, s, req)
    PROVE  Accepted(v, s, req)'
BY DEF CertStep, SlotKept, Accepted

LEMMA AllAcceptedKept ==
    ASSUME CertStep, NEW sigs \in SUBSET Replica, NEW s \in SeqNo, NEW req,
           AllAccepted(sigs, s, req)
    PROVE  AllAccepted(sigs, s, req)'
<1>1. \A v \in sigs : Accepted(v, s, req)'
  BY AcceptedKept DEF AllAccepted
<1>2. QED
  BY <1>1 DEF AllAccepted

LEMMA PreparedKept ==
    ASSUME TypeInv', CertStep, NEW q \in Replica, NEW s \in SeqNo, NEW req,
           Prepared(q, s, req)
    PROVE  Prepared(q, s, req)'
<1>1. Accepted(q, s, req) /\ Accepted(q, s, req)'
  BY AcceptedKept DEF Prepared
<1>2. log[q][s].prepareCert # {}
  BY QuorumNotEmpty DEF Prepared, AllAccepted
<1>3. SlotKept(log[q][s], log'[q][s]) /\ SlotBacked(log'[q][s], s)
  BY DEF CertStep
<1>4. log'[q][s].req = req
  BY <1>1 DEF Accepted
<1>5. AllAccepted(log'[q][s].prepareCert, s, req)
  BY <1>2, <1>3, <1>4 DEF SlotKept, SlotBacked
<1>6. log'[q][s].prepareCert \in SUBSET Replica
  BY DEF TypeInv, TypeOK, Slot
<1> DEFINE sigs == log'[q][s].prepareCert
<1> HIDE DEF sigs
<1>7. \A v \in sigs : Accepted(v, s, req)'
  BY <1>5, <1>6, AcceptedKept DEF AllAccepted, sigs
<1>8. QED
  BY <1>1, <1>5, <1>7 DEF Prepared, AllAccepted, sigs

LEMMA SlotBackedKept ==
    ASSUME TypeInv', CertStep, NEW st \in Slot, NEW s \in SeqNo, SlotBacked(st, s)
    PROVE  SlotBacked(st, s)'
<1>1. /\ st.prepares \subseteq Replica /\ st.prepareCert \in SUBSET Replica
      /\ st.commits \subseteq Replica /\ st.commitCert \in SUBSET Replica
  BY DEF Slot
<1>2. \A v \in st.prepares : Accepted(v, s, st.req)'
  BY <1>1, AcceptedKept DEF SlotBacked
<1>3. st.prepareCert # {} => AllAccepted(st.prepareCert, s, st.req)'
  BY <1>1, AllAcceptedKept DEF SlotBacked
<1>4. \A q \in st.commits : Prepared(q, s, st.req)'
  BY <1>1, PreparedKept DEF SlotBacked
<1>5. st.commitCert # {} => AllPrepared(st.commitCert, s, st.req)'
  <2> SUFFICES ASSUME st.commitCert # {} PROVE AllPrepared(st.commitCert, s, st.req)'
    OBVIOUS
  <2>1. \A q \in st.commitCert : Prepared(q, s, st.req)'
    BY <1>1, PreparedKept DEF SlotBacked, AllPrepared
  <2>2. QED
    BY <2>1 DEF SlotBacked, AllPrepared
<1>6. QED
  BY <1>2, <1>3, <1>4, <1>5 DEF SlotBacked

LEMMA CertsInvStep ==
    ASSUME TypeInv, TypeInv', CertsInv, CertEffect
    PROVE  CertsInv'
<1>1. CertStep
  BY DEF CertEffect
<1>2. /\ log' \in [Replica -> [SeqNo -> Slot]]
      /\ tasks \in [Replica -> SUBSET (SeqNo \X Request)]
      /\ net \subseteq Message
  BY DEF TypeInv, TypeOK
<1>3. TasksAccepted'
  <2> SUFFICES ASSUME NEW r \in Replica, NEW t \in tasks'[r]
               PROVE  Accepted(r, t[1], t[2])'
    BY DEF TasksAccepted
  <2>1. CASE t \in tasks[r]
    <3>1. t[1] \in SeqNo /\ Accepted(r, t[1], t[2])
      BY <1>2, <2>1 DEF CertsInv, TasksAccepted
    <3>2. QED
      BY <1>1, <3>1, AcceptedKept
  <2>2. CASE t \notin tasks[r]
    BY <2>2 DEF CertEffect, StartsAccepted
  <2>3. QED
    BY <2>1, <2>2
<1>4. ASSUME NEW m \in net'
      PROVE  MessageBacked(m)'
  <2>1. CASE m \in net
    <3>1. MessageBacked(m) /\ m \in Message
      BY <1>2, <2>1 DEF CertsInv
    <3>2. CASE m.type = "PREPARE"
      <4>1. m.from \in Replica /\ m.seq \in SeqNo /\ Accepted(m.from, m.seq, m.req)
        BY <3>1, <3>2, MessageFields DEF MessageBacked
      <4>2. Accepted(m.from, m.seq, m.req)'
        BY <1>1, <4>1, AcceptedKept
      <4>3. QED
        BY <3>2, <4>2 DEF MessageBacked
    <3>3. CASE m.type = "COMMIT"
      <4>1. m.from \in Replica /\ m.seq \in SeqNo /\ Prepared(m.from, m.seq, m.req)
        BY <3>1, <3>3, MessageFields DEF MessageBacked
      <4>2. Prepared(m.from, m.seq, m.req)'
        BY <1>1, <4>1, PreparedKept
      <4>3. QED
        BY <3>3, <4>2 DEF MessageBacked
    <3>4. CASE m.type = "PREPARE_CERT"
      <4>1. /\ m.sigs \in SUBSET Replica /\ m.seq \in SeqNo
            /\ \A v \in m.sigs : Accepted(v, m.seq, m.req)
        BY <3>1, <3>4, MessageFields DEF MessageBacked
      <4>2. \A v \in m.sigs : Accepted(v, m.seq, m.req)'
        BY <1>1, <4>1, AcceptedKept
      <4>3. QED
        BY <3>4, <4>2 DEF MessageBacked
    <3>5. CASE m.type = "COMMIT_CERT"
      <4>1. /\ m.sigs \in SUBSET Replica /\ m.seq \in SeqNo
            /\ \A q \in m.sigs : Prepared(q, m.seq, m.req)
        BY <3>1, <3>5, MessageFields DEF MessageBacked
      <4>2. \A q \in m.sigs : Prepared(q, m.seq, m.req)'
        BY <1>1, <4>1, PreparedKept
      <4>3. QED
        BY <3>5, <4>2 DEF MessageBacked
    <3>6. CASE m.type \notin {"PREPARE", "COMMIT", "PREPARE_CERT", "COMMIT_CERT"}
      BY <3>6 DEF MessageBacked
    <3>7. QED
      BY <3>2, <3>3, <3>4, <3>5, <3>6
  <2>2. CASE m \notin net
    BY <1>4, <2>2 DEF CertEffect, SendsBacked
  <2>3. QED
    BY <2>1, <2>2
<1>5. ASSUME NEW r \in Replica, NEW s \in SeqNo
      PROVE  SlotBacked(log[r][s], s)'
  <2>1. PICK st \in Slot : st = log'[r][s]
    BY <1>2
  <2>2. SlotBacked(st, s)
    BY <1>1, <2>1 DEF CertStep
  <2>3. SlotBacked(st, s)'
    BY <1>1, <2>2, SlotBackedKept
  <2>4. QED
    BY <2>1, <2>3 DEF SlotBacked
<1>6. QED
  BY <1>3, <1>4, <1>5 DEF CertsInv

-----------------------------------------------------------------------------
(***************************************************************************)
(* Frames.                                                                 *)
(***************************************************************************)
\* A slot that is left alone.
LEMMA SlotUntouched ==
    ASSUME CertsInv, NEW r \in Replica, NEW s \in SeqNo, log'[r][s] = log[r][s]
    PROVE  SlotKept(log[r][s], log'[r][s]) /\ SlotBacked(log'[r][s], s)
BY DEF CertsInv, SlotKept, SlotBacked

LEMMA NoSlotWritten ==
    ASSUME CertsInv, log' = log
    PROVE  CertStep
BY SlotUntouched DEF CertStep

LEMMA OneSlotWritten ==
    ASSUME TypeInv, CertsInv, NEW r \in Replica, NEW s \in SeqNo, NEW st \in Slot,
           log' = [log EXCEPT ![r][s] = st],
           SlotKept(log[r][s], st), SlotBacked(st, s)
    PROVE  CertStep
<1>1. log \in [Replica -> [SeqNo -> Slot]]
  BY DEF TypeInv, TypeOK
<1>2. /\ log'[r][s] = st
      /\ \A q \in Replica : \A t \in SeqNo :
           q # r \/ t # s => log'[q][t] = log[q][t]
  BY <1>1, SlotWritten
<1>3. SlotKept(log[r][s], log'[r][s]) /\ SlotBacked(log'[r][s], s)
  BY <1>2
<1>4. QED
  BY <1>2, <1>3, SlotUntouched DEF CertStep

\* tryExecute changes nothing in the slots that it is given but one mark.
LEMMA ExecutingWritten ==
    ASSUME TypeInv, CertsInv, NEW r \in Replica, NEW s \in SeqNo, NEW new \in Slot,
           NEW from, NEW claims,
           NEW slots \in [SeqNo -> Slot], slots[s] = new,
           \A t \in SeqNo : t # s => slots[t] = log[r][t],
           SlotKept(log[r][s], new), SlotBacked(new, s),
           TryExecute(r, slots, from, claims)
    PROVE  CertStep
<1>1. log \in [Replica -> [SeqNo -> Slot]]
  BY DEF TypeInv, TypeOK
<1>2. \A t \in SeqNo : SlotKept(log[r][t], slots[t]) /\ SlotBacked(slots[t], t)
  BY DEF CertsInv, SlotKept
<1>3. \/ log' = [log EXCEPT ![r] = slots]
      \/ \E i \in SeqNo : log' = [log EXCEPT ![r] = [slots EXCEPT ![i].executed = TRUE]]
  BY DEF TryExecute
<1>4. CASE log' = [log EXCEPT ![r] = slots]
  <2>1. log'[r] = slots /\ \A q \in Replica \ {r} : log'[q] = log[q]
    BY <1>1, <1>4
  <2>2. QED
    BY <1>2, <2>1, SlotUntouched DEF CertStep
<1>5. ASSUME NEW i \in SeqNo,
             log' = [log EXCEPT ![r] = [slots EXCEPT ![i].executed = TRUE]]
      PROVE  CertStep
  <2>1. /\ log'[r] = [slots EXCEPT ![i].executed = TRUE]
        /\ \A q \in Replica \ {r} : log'[q] = log[q]
    BY <1>1, <1>5
  <2>2. PICK marked \in Slot : marked = [slots[i] EXCEPT !.executed = TRUE]
    BY MarkExecuted
  <2>3. log'[r][i] = marked /\ \A t \in SeqNo : t # i => log'[r][t] = slots[t]
    BY <2>1, <2>2
  <2>4. /\ marked.prePrepare = slots[i].prePrepare
        /\ marked.req = slots[i].req
        /\ marked.prepares = slots[i].prepares
        /\ marked.prepareCert = slots[i].prepareCert
        /\ marked.commits = slots[i].commits
        /\ marked.commitCert = slots[i].commitCert
    <3>1. slots[i] \in Slot
      OBVIOUS
    <3>2. QED
      BY <2>2, <3>1 DEF Slot
  <2>5. SlotKept(log[r][i], marked) /\ SlotBacked(marked, i)
    BY <1>2, <2>4 DEF SlotKept, SlotBacked
  <2>6. \A t \in SeqNo : SlotKept(log[r][t], log'[r][t]) /\ SlotBacked(log'[r][t], t)
    BY <1>2, <2>3, <2>5
  <2>7. QED
    BY <2>1, <2>6, SlotUntouched DEF CertStep
<1>6. QED
  BY <1>3, <1>4, <1>5

\* A step that sends and starts nothing.
LEMMA NothingSent ==
    ASSUME CertStep, net' \subseteq net, tasks' = tasks
    PROVE  CertEffect
BY DEF CertEffect, SendsBacked, StartsAccepted

\* A fresh proposal contains no vote.
LEMMA ProposalBacked ==
    ASSUME NEW req \in Request, NEW s \in SeqNo, NEW old, ~old.prePrepare, old.prepareCert = {}
    PROVE  /\ Proposed(req) \in Slot
           /\ SlotKept(old, Proposed(req)) /\ SlotBacked(Proposed(req), s)
BY SlotTypes DEF Proposed, EmptySlot, SlotKept, SlotBacked

-----------------------------------------------------------------------------
(***************************************************************************)
(* One lemma per action.                                                   *)
(***************************************************************************)
LEMMA CertsStartConsensus ==
    ASSUME TypeInv, RefinementInv, CertsInv, NEW req \in Request, StartConsensus(req)
    PROVE  CertEffect
<1>1. /\ Primary \in Replica
      /\ nextSeq \in SeqNo
      /\ nextSeq >= nextSeq
  BY FaultAssumption, BoundAssumption DEF TypeInv, TypeOK, StartConsensus, Startable, SeqNo
<1>2. PICK s \in SeqNo : s = nextSeq
  BY <1>1
<1>3. /\ log' = [log EXCEPT ![Primary][s] = Proposed(req)]
      /\ tasks' = [tasks EXCEPT ![Primary] = TaskFor(Primary, s, req)]
      /\ \A m \in net' \ net : m.type = "PRE_PREPARE"
  BY <1>2 DEF StartConsensus, PrePrepareMsg
<1>4. ~log[Primary][s].prePrepare /\ log[Primary][s].prepareCert = {}
  BY <1>1, <1>2 DEF RefinementInv, AgreementInv, NextSlotsUnproposed, SlotShape
<1>5. CertStep
  <2>1. /\ Proposed(req) \in Slot
        /\ SlotKept(log[Primary][s], Proposed(req))
        /\ SlotBacked(Proposed(req), s)
    BY <1>4, ProposalBacked
  <2>2. QED
    BY <1>1, <1>3, <2>1, OneSlotWritten
<1>6. SendsBacked
  BY <1>3 DEF SendsBacked, MessageBacked
<1>7. StartsAccepted
  <2>1. Accepted(Primary, s, req)'
    <3>1. log'[Primary][s] = Proposed(req)
      BY <1>1, <1>3 DEF TypeInv, TypeOK
    <3>2. QED
      BY <3>1 DEF Accepted, Proposed, EmptySlot
  <2>2. \A t \in TaskFor(Primary, s, req) : t = <<s, req>>
    BY DEF TaskFor
  <2>3. \A r \in Replica : \A t \in tasks'[r] :
          t \in tasks[r] \/ (r = Primary /\ t \in TaskFor(Primary, s, req))
    BY <1>1, <1>3 DEF TypeInv, TypeOK
  <2>4. \A r \in Replica : \A t \in tasks'[r] :
          t \in tasks[r] \/ (r = Primary /\ t[1] = s /\ t[2] = req)
    BY <2>2, <2>3
  <2>5. QED
    BY <2>1, <2>4 DEF StartsAccepted, Accepted
<1>8. QED
  BY <1>5, <1>6, <1>7 DEF CertEffect

LEMMA CertsOnPrePrepare ==
    ASSUME TypeInv, RefinementInv, NoDiscards, CertsInv, NEW m \in net, OnPrePrepare(m)
    PROVE  CertEffect
<1>1. m.to \in Replica /\ m.seq \in SeqNo /\ m.req \in Request
  BY MessageFields DEF TypeInv, TypeOK, OnPrePrepare
<1>2. /\ log' = [log EXCEPT ![m.to][m.seq] = Proposed(m.req)]
      /\ tasks' = [tasks EXCEPT ![m.to] = @ \cup TaskFor(m.to, m.seq, m.req)]
      /\ net' \subseteq net
  BY DEF OnPrePrepare
<1>3. ~log[m.to][m.seq].prePrepare /\ log[m.to][m.seq].prepareCert = {}
  BY <1>1 DEF OnPrePrepare, AcceptsPrePrepare, NoDiscards, RefinementInv, AgreementInv, SlotShape
<1>4. CertStep
  <2>1. /\ Proposed(m.req) \in Slot
        /\ SlotKept(log[m.to][m.seq], Proposed(m.req))
        /\ SlotBacked(Proposed(m.req), m.seq)
    BY <1>1, <1>3, ProposalBacked
  <2>2. QED
    BY <1>1, <1>2, <2>1, OneSlotWritten
<1>5. SendsBacked
  BY <1>2 DEF SendsBacked
<1>6. StartsAccepted
  <2>1. Accepted(m.to, m.seq, m.req)'
    <3>1. log'[m.to][m.seq] = Proposed(m.req)
      BY <1>1, <1>2 DEF TypeInv, TypeOK
    <3>2. QED
      BY <3>1 DEF Accepted, Proposed, EmptySlot
  <2>2. \A t \in TaskFor(m.to, m.seq, m.req) : t = <<m.seq, m.req>>
    BY DEF TaskFor
  <2>3. \A r \in Replica : \A t \in tasks'[r] :
          t \in tasks[r] \/ (r = m.to /\ t \in TaskFor(m.to, m.seq, m.req))
    BY <1>1, <1>2 DEF TypeInv, TypeOK
  <2>4. \A r \in Replica : \A t \in tasks'[r] :
          t \in tasks[r] \/ (r = m.to /\ t[1] = m.seq /\ t[2] = m.req)
    BY <2>2, <2>3
  <2>5. QED
    BY <2>1, <2>4 DEF StartsAccepted, Accepted
<1>7. QED
  BY <1>4, <1>5, <1>6 DEF CertEffect

\* A task votes for the proposal that started it.
LEMMA CertsLockAndPrepare ==
    ASSUME TypeInv, CertsInv, NEW r \in Replica, NEW t \in tasks[r], LockAndPrepare(r, t)
    PROVE  CertEffect
<1> DEFINE vote == VoteMsg("PREPARE", r, t[1], t[2])
<1>1. /\ log' = log
      /\ tasks' = [tasks EXCEPT ![r] = @ \ {t}]
      /\ net' = net \cup {vote}
  BY DEF LockAndPrepare
<1>2. CertStep
  BY <1>1, NoSlotWritten
<1>3. SendsBacked
  <2>1. Accepted(r, t[1], t[2])
    BY DEF CertsInv, TasksAccepted
  <2>2. Accepted(r, t[1], t[2])'
    BY <1>1, <2>1 DEF Accepted
  <2>3. vote.type = "PREPARE" /\ vote.from = r /\ vote.seq = t[1] /\ vote.req = t[2]
    BY DEF VoteMsg
  <2> HIDE DEF vote
  <2>4. \A m \in net' \ net : m = vote
    BY <1>1
  <2>5. QED
    BY <2>2, <2>3, <2>4 DEF SendsBacked, MessageBacked
<1>4. StartsAccepted
  <2>1. \A q \in Replica : tasks'[q] \subseteq tasks[q]
    BY <1>1 DEF TypeInv, TypeOK
  <2>2. QED
    BY <2>1 DEF StartsAccepted
<1>5. QED
  BY <1>2, <1>3, <1>4 DEF CertEffect

\* The collector has the PREPARE votes of a quorum: their senders accepted
\* what it accepted, and its own COMMIT vote claims just that.
LEMMA CertsOnPrepare ==
    ASSUME TypeInv, TypeInv', CertsInv, NEW m \in net, OnPrepare(m)
    PROVE  CertEffect
<1> DEFINE st    == log[m.to][m.seq]
           votes == st.prepares \cup {m.from}
           cert  == Cardinality(votes) >= Quorum /\ st.prepareCert = {}
           new   == [st EXCEPT !.prepares = votes,
                               !.prepareCert = IF cert THEN votes ELSE @]
           own   == VoteMsg("COMMIT", m.to, m.seq, m.req)
           certs == {CertMsg("PREPARE_CERT", r, m.seq, m.req, votes) : r \in Up \ {m.to}}
<1>1. m.to \in Replica /\ m.seq \in SeqNo /\ m.from \in Replica
  BY MessageFields DEF OnPrepare, TypeInv, TypeOK
<1>2. log \in [Replica -> [SeqNo -> Slot]] /\ st \in Slot
  BY <1>1 DEF TypeInv, TypeOK
<1>3. log' = [log EXCEPT ![m.to][m.seq] = new]
  BY <1>1, <1>2 DEF OnPrepare
<1>4. /\ tasks' = tasks
      /\ net' \subseteq net \cup (IF cert THEN {own} \cup certs ELSE {})
  BY DEF OnPrepare
<1>5. st.prePrepare /\ st.req = m.req
  BY DEF OnPrepare, AcceptsPrepare
<1>6. /\ new \in Slot
      /\ new.prePrepare = st.prePrepare /\ new.req = st.req
      /\ new.prepares = votes
      /\ new.prepareCert = IF cert THEN votes ELSE st.prepareCert
      /\ new.commits = st.commits /\ new.commitCert = st.commitCert
  BY <1>1, <1>2 DEF Slot
<1>7. SlotBacked(st, m.seq)
  BY <1>1 DEF CertsInv
<1>8. \A v \in votes : Accepted(v, m.seq, m.req)
  <2>1. Accepted(m.from, m.seq, m.req)
    BY DEF OnPrepare, CertsInv, MessageBacked
  <2>2. QED
    BY <1>5, <1>7, <2>1 DEF SlotBacked
<1>9. votes \in SUBSET Replica
  BY <1>1, <1>2 DEF Slot
<1> HIDE DEF new, votes
<1>10. SlotBacked(new, m.seq)
  BY <1>5, <1>6, <1>7, <1>8 DEF SlotBacked, AllAccepted
<1>11. SlotKept(st, new)
  <2>1. cert => votes # {}
    BY QuorumNotEmpty
  <2>2. QED
    BY <1>6, <2>1 DEF SlotKept
<1>12. CertStep
  BY <1>1, <1>3, <1>6, <1>10, <1>11, OneSlotWritten
<1>13. ASSUME cert
       PROVE  MessageBacked(own)' /\ \A n \in certs : MessageBacked(n)'
  <2>1. own.type = "COMMIT" /\ own.from = m.to /\ own.seq = m.seq /\ own.req = m.req
    BY DEF VoteMsg
  <2>2. log'[m.to][m.seq] = new
    BY <1>1, <1>2, <1>3, <1>6, SlotWritten
  <2>3. \A v \in votes : Accepted(v, m.seq, m.req)'
    BY <1>1, <1>8, <1>9, <1>12, AcceptedKept
  <2>4. Prepared(m.to, m.seq, m.req)'
    <3>1. log'[m.to][m.seq].prepareCert = votes /\ log'[m.to][m.seq].req = m.req
          /\ log'[m.to][m.seq].prePrepare
      BY <1>5, <1>6, <1>13, <2>2
    <3>2. QED
      BY <1>13, <2>3, <3>1 DEF Prepared, AllAccepted, Accepted
  <2> HIDE DEF own
  <2>5. MessageBacked(own)'
    BY <2>1, <2>4 DEF MessageBacked
  <2>6. ASSUME NEW n \in certs
        PROVE  MessageBacked(n)'
    <3>1. n.type = "PREPARE_CERT" /\ n.sigs = votes /\ n.seq = m.seq /\ n.req = m.req
      BY <2>6 DEF CertMsg
    <3>2. QED
      BY <2>3, <3>1 DEF MessageBacked
  <2>7. QED
    BY <2>5, <2>6
<1> HIDE DEF own, certs, cert
<1>14. SendsBacked
  BY <1>4, <1>13 DEF SendsBacked
<1>15. QED
  BY <1>4, <1>12, <1>14 DEF CertEffect, StartsAccepted

\* A replica that has a valid prepare certificate says so.
LEMMA CertsOnPrepareCert ==
    ASSUME TypeInv, TypeInv', CertsInv, NEW m \in net, OnPrepareCert(m)
    PROVE  CertEffect
<1> DEFINE st  == log[m.to][m.seq]
           new == [st EXCEPT !.prepareCert = m.sigs]
           own == VoteMsg("COMMIT", m.to, m.seq, m.req)
<1>1. m.to \in Replica /\ m.seq \in SeqNo /\ m.sigs \in SUBSET Replica
  BY MessageFields DEF OnPrepareCert, TypeInv, TypeOK
<1>2. log \in [Replica -> [SeqNo -> Slot]] /\ st \in Slot
  BY <1>1 DEF TypeInv, TypeOK
<1>3. /\ log' = [log EXCEPT ![m.to][m.seq] = new]
      /\ tasks' = tasks
      /\ net' \subseteq net \cup {own}
  BY <1>1, <1>2 DEF OnPrepareCert
<1>4. st.prePrepare /\ st.req = m.req /\ Cardinality(m.sigs) >= Quorum
  BY DEF OnPrepareCert, AcceptsCert
<1>5. /\ new \in Slot
      /\ new.prePrepare = st.prePrepare /\ new.req = st.req
      /\ new.prepares = st.prepares
      /\ new.prepareCert = m.sigs
      /\ new.commits = st.commits /\ new.commitCert = st.commitCert
  BY <1>1, <1>2 DEF Slot
<1>6. SlotBacked(st, m.seq)
  BY <1>1 DEF CertsInv
<1>7. AllAccepted(m.sigs, m.seq, m.req)
  BY <1>4 DEF OnPrepareCert, CertsInv, MessageBacked, AllAccepted
<1> HIDE DEF new
<1>8. SlotBacked(new, m.seq)
  BY <1>4, <1>5, <1>6, <1>7 DEF SlotBacked
<1>9. SlotKept(st, new)
  BY <1>4, <1>5, QuorumNotEmpty DEF SlotKept
<1>10. CertStep
  BY <1>1, <1>3, <1>5, <1>8, <1>9, OneSlotWritten
<1>11. MessageBacked(own)'
  <2>1. own.type = "COMMIT" /\ own.from = m.to /\ own.seq = m.seq /\ own.req = m.req
    BY DEF VoteMsg
  <2>2. log'[m.to][m.seq] = new
    BY <1>1, <1>2, <1>3, <1>5, SlotWritten
  <2>3. \A v \in m.sigs : Accepted(v, m.seq, m.req)'
    BY <1>1, <1>7, <1>10, AcceptedKept DEF AllAccepted
  <2>4. Prepared(m.to, m.seq, m.req)'
    BY <1>4, <1>5, <2>2, <2>3 DEF Prepared, AllAccepted, Accepted
  <2> HIDE DEF own
  <2>5. QED
    BY <2>1, <2>4 DEF MessageBacked
<1> HIDE DEF own
<1>12. SendsBacked
  BY <1>3, <1>11 DEF SendsBacked
<1>13. QED
  BY <1>3, <1>10, <1>12 DEF CertEffect, StartsAccepted

LEMMA CertsOnCommit ==
    ASSUME TypeInv, CertsInv, NEW m \in net, OnCommit(m)
    PROVE  CertEffect
<1> DEFINE st    == log[m.to][m.seq]
           votes == st.commits \cup {m.from}
           new   == [st EXCEPT !.commits = votes]
<1>1. m.to \in Replica /\ m.seq \in SeqNo /\ m.from \in Replica
  BY MessageFields DEF OnCommit, TypeInv, TypeOK
<1>2. log \in [Replica -> [SeqNo -> Slot]] /\ st \in Slot
  BY <1>1 DEF TypeInv, TypeOK
<1>3. /\ log' = [log EXCEPT ![m.to][m.seq] = new]
      /\ tasks' = tasks
      /\ net' \subseteq net
  BY <1>1, <1>2 DEF OnCommit
<1>4. /\ new \in Slot
      /\ new.prePrepare = st.prePrepare /\ new.req = st.req
      /\ new.prepares = st.prepares
      /\ new.prepareCert = st.prepareCert
      /\ new.commits = votes /\ new.commitCert = st.commitCert
  BY <1>1, <1>2 DEF Slot
<1>5. SlotBacked(st, m.seq)
  BY <1>1 DEF CertsInv
<1>6. Prepared(m.from, m.seq, m.req) /\ st.req = m.req
  BY DEF OnCommit, AcceptsCommit, CertsInv, MessageBacked
<1> HIDE DEF new
<1>7. SlotBacked(new, m.seq)
  BY <1>4, <1>5, <1>6 DEF SlotBacked
<1>8. SlotKept(st, new)
  BY <1>4 DEF SlotKept
<1>9. CertStep
  BY <1>1, <1>3, <1>4, <1>7, <1>8, OneSlotWritten
<1>10. QED
  BY <1>3, <1>9, NothingSent

\* The collector has the COMMIT votes of a quorum.
LEMMA CertsOnDecidingCommit ==
    ASSUME TypeInv, TypeInv', CertsInv, NEW m \in net, OnDecidingCommit(m)
    PROVE  CertEffect
<1> DEFINE st    == log[m.to][m.seq]
           votes == st.commits \cup {m.from}
           new   == [st EXCEPT !.commits = votes, !.commitCert = votes]
           slots == [log[m.to] EXCEPT ![m.seq] = new]
           certs == {CertMsg("COMMIT_CERT", r, m.seq, m.req, votes) : r \in Up \ {m.to}}
<1>1. m.to \in Replica /\ m.seq \in SeqNo /\ m.from \in Replica
  BY MessageFields DEF OnDecidingCommit, TypeInv, TypeOK
<1>2. log \in [Replica -> [SeqNo -> Slot]] /\ st \in Slot
  BY <1>1 DEF TypeInv, TypeOK
<1>3. /\ TryExecute(m.to, slots, execSeq[m.to], applying[m.to])
      /\ tasks' = tasks
      /\ net' \subseteq net \cup certs
      /\ Cardinality(votes) >= Quorum
  BY <1>1, <1>2 DEF OnDecidingCommit
<1>4. /\ new \in Slot
      /\ new.prePrepare = st.prePrepare /\ new.req = st.req
      /\ new.prepares = st.prepares
      /\ new.prepareCert = st.prepareCert
      /\ new.commits = votes /\ new.commitCert = votes
  BY <1>1, <1>2 DEF Slot
<1>5. SlotBacked(st, m.seq)
  BY <1>1 DEF CertsInv
<1>6. st.req = m.req
  BY DEF OnDecidingCommit, AcceptsCommit
<1>7. \A q \in votes : Prepared(q, m.seq, m.req)
  <2>1. Prepared(m.from, m.seq, m.req)
    BY DEF OnDecidingCommit, CertsInv, MessageBacked
  <2>2. QED
    BY <1>5, <1>6, <2>1 DEF SlotBacked
<1>8. votes \in SUBSET Replica
  BY <1>1, <1>2 DEF Slot
<1> HIDE DEF new, votes
<1>9. SlotBacked(new, m.seq)
  BY <1>3, <1>4, <1>5, <1>6, <1>7 DEF SlotBacked, AllPrepared
<1>10. SlotKept(st, new)
  BY <1>4 DEF SlotKept
<1>11. /\ slots \in [SeqNo -> Slot]
       /\ slots[m.seq] = new
       /\ \A t \in SeqNo : t # m.seq => slots[t] = log[m.to][t]
  BY <1>1, <1>2, <1>4, SlotPassed
<1> HIDE DEF slots
<1>12. CertStep
  BY <1>1, <1>3, <1>4, <1>9, <1>10, <1>11, ExecutingWritten
<1>13. ASSUME NEW n \in certs
       PROVE  MessageBacked(n)'
  <2>1. n.type = "COMMIT_CERT" /\ n.sigs = votes /\ n.seq = m.seq /\ n.req = m.req
    BY <1>13 DEF CertMsg
  <2>2. \A q \in votes : Prepared(q, m.seq, m.req)'
    BY <1>1, <1>7, <1>8, <1>12, PreparedKept
  <2>3. QED
    BY <2>1, <2>2 DEF MessageBacked
<1> HIDE DEF certs
<1>14. SendsBacked
  BY <1>3, <1>13 DEF SendsBacked
<1>15. QED
  BY <1>3, <1>12, <1>14 DEF CertEffect, StartsAccepted

LEMMA CertsOnCommitCert ==
    ASSUME TypeInv, CertsInv, NEW m \in net, OnCommitCert(m)
    PROVE  CertEffect
<1> DEFINE st    == log[m.to][m.seq]
           new   == [st EXCEPT !.commitCert = m.sigs]
           slots == [log[m.to] EXCEPT ![m.seq] = new]
<1>1. m.to \in Replica /\ m.seq \in SeqNo /\ m.sigs \in SUBSET Replica
  BY MessageFields DEF OnCommitCert, TypeInv, TypeOK
<1>2. log \in [Replica -> [SeqNo -> Slot]] /\ st \in Slot
  BY <1>1 DEF TypeInv, TypeOK
<1>3. /\ TryExecute(m.to, slots, execSeq[m.to], applying[m.to])
      /\ tasks' = tasks
      /\ net' \subseteq net
  BY <1>1, <1>2 DEF OnCommitCert
<1>4. /\ new \in Slot
      /\ new.prePrepare = st.prePrepare /\ new.req = st.req
      /\ new.prepares = st.prepares
      /\ new.prepareCert = st.prepareCert
      /\ new.commits = st.commits /\ new.commitCert = m.sigs
  BY <1>1, <1>2 DEF Slot
<1>5. SlotBacked(st, m.seq)
  BY <1>1 DEF CertsInv
<1>6. AllPrepared(m.sigs, m.seq, m.req) /\ st.req = m.req
  BY DEF OnCommitCert, AcceptsCert, CertsInv, MessageBacked, AllPrepared
<1> HIDE DEF new
<1>7. SlotBacked(new, m.seq)
  BY <1>4, <1>5, <1>6 DEF SlotBacked
<1>8. SlotKept(st, new)
  BY <1>4 DEF SlotKept
<1>9. /\ slots \in [SeqNo -> Slot]
      /\ slots[m.seq] = new
      /\ \A t \in SeqNo : t # m.seq => slots[t] = log[m.to][t]
  BY <1>1, <1>2, <1>4, SlotPassed
<1> HIDE DEF slots
<1>10. CertStep
  BY <1>1, <1>3, <1>4, <1>7, <1>8, <1>9, ExecutingWritten
<1>11. QED
  BY <1>3, <1>10, NothingSent

LEMMA CertsApply ==
    ASSUME TypeInv, CertsInv, NEW r \in Replica, NEW s \in SeqNo, Apply(r, s)
    PROVE  CertEffect
<1>1. log[r] \in [SeqNo -> Slot] /\ log[r][s] \in Slot
  BY DEF TypeInv, TypeOK
<1>2. /\ TryExecute(r, log[r], execSeq[r], applying[r] \ {s})
      /\ tasks' = tasks /\ net' = net
  BY DEF Apply
<1>3. SlotKept(log[r][s], log[r][s]) /\ SlotBacked(log[r][s], s)
  BY DEF CertsInv, SlotKept
<1>4. CertStep
  BY <1>1, <1>2, <1>3, ExecutingWritten
<1>5. QED
  BY <1>2, <1>4, NothingSent

LEMMA CertsNext ==
    ASSUME TypeInv, TypeInv', RefinementInv, LocksInv, CertsInv, [Next]_vars, reclaims' = 0
    PROVE  CertEffect
<1>0. NoDiscards
  BY DEF LocksInv
<1>1. ASSUME log' = log, net' \subseteq net, \A r \in Replica : tasks'[r] \subseteq tasks[r]
      PROVE  CertEffect
  BY <1>1, NoSlotWritten DEF CertEffect, SendsBacked, StartsAccepted
<1>2. ASSUME NEW req \in Request, StartConsensus(req) \/ StartSelfTransfer(req)
      PROVE  CertEffect
  <2>1. CASE StartConsensus(req)
    BY <2>1, CertsStartConsensus
  <2>2. CASE StartSelfTransfer(req)
    BY <1>1, <2>2 DEF StartSelfTransfer
  <2>3. QED
    BY <1>2, <2>1, <2>2
<1>3. ASSUME NEW m \in net, Handle(m)
      PROVE  CertEffect
  <2>1. CASE OnPrePrepare(m)
    BY <1>0, <2>1, CertsOnPrePrepare
  <2>2. CASE OnPrepare(m)
    BY <2>2, CertsOnPrepare
  <2>3. CASE OnPrepareCert(m)
    BY <2>3, CertsOnPrepareCert
  <2>4. CASE OnCommit(m)
    BY <2>4, CertsOnCommit
  <2>5. CASE OnDecidingCommit(m)
    BY <2>5, CertsOnDecidingCommit
  <2>6. CASE OnCommitCert(m)
    BY <2>6, CertsOnCommitCert
  <2>7. CASE OnDiscardSeq(m)
    BY <1>0, <2>7 DEF OnDiscardSeq, NoDiscards
  <2>8. CASE Ignore(m)
    BY <1>1, <2>8 DEF Ignore
  <2>9. QED
    BY <1>3, <2>1, <2>2, <2>3, <2>4, <2>5, <2>6, <2>7, <2>8 DEF Handle
<1>4. ASSUME NEW r \in Replica, NEW t \in tasks[r], LockAndPrepare(r, t)
      PROVE  CertEffect
  BY <1>4, CertsLockAndPrepare
<1>5. ASSUME NEW r \in Replica, NEW t \in tasks[r], LockWaitExpires(r, t)
      PROVE  CertEffect
  <2>1. \A q \in Replica : tasks'[q] \subseteq tasks[q]
    BY <1>5 DEF LockWaitExpires, TypeInv, TypeOK
  <2>2. QED
    BY <1>1, <1>5, <2>1 DEF LockWaitExpires
<1>6. ASSUME NEW r \in Replica, NEW s \in SeqNo, Apply(r, s)
      PROVE  CertEffect
  BY <1>6, CertsApply
<1>7. ASSUME NEW s \in SeqNo, Reclaim(s)
      PROVE  FALSE
  BY <1>7 DEF Reclaim, TypeInv, TypeOK
<1>8. CASE UNCHANGED vars
  BY <1>1, <1>8 DEF vars
<1>9. QED
  BY <1>2, <1>3, <1>4, <1>5, <1>6, <1>7, <1>8 DEF Next

-----------------------------------------------------------------------------
(***************************************************************************)
(* The invariant.                                                          *)
(***************************************************************************)
LEMMA CertsInvInit == Init => CertsInv
<1> SUFFICES ASSUME Init PROVE CertsInv
  OBVIOUS
<1>1. \A r \in Replica : tasks[r] = {} /\ \A s \in SeqNo : log[r][s] = EmptySlot
  BY DEF Init
<1>2. net = {}
  BY DEF Init
<1>3. \A s \in SeqNo : SlotBacked(EmptySlot, s)
  BY DEF SlotBacked, EmptySlot
<1>4. QED
  BY <1>1, <1>2, <1>3 DEF CertsInv, TasksAccepted

LEMMA CertsInvariant == Spec => [](UnreclaimedInv /\ (reclaims = 0 => CertsInv))
<1>1. Init => (reclaims = 0 => CertsInv)
  BY CertsInvInit
<1>2. /\ UnreclaimedInv /\ (reclaims = 0 => CertsInv)
      /\ [Next]_vars
      /\ UnreclaimedInv'
      => (reclaims = 0 => CertsInv)'
  BY CertsNext, CertsInvStep, ReclaimsCounted DEF UnreclaimedInv
<1>3. QED
  BY <1>1, <1>2, UnreclaimedInvariant, PTL DEF Spec

\* While the cluster has given up no slot, a commit certificate is what it
\* claims to be: a quorum of replicas hold prepare certificates for just that
\* request, and behind each of those is a quorum that accepted the proposal.
THEOREM CertificatesBacked == Spec => [](reclaims = 0 => CertificatesAreBacked)
<1>1. CertsInv => CertificatesAreBacked
  <2> SUFFICES ASSUME CertsInv, NEW r \in Replica, NEW s \in SeqNo, Committed(r, s)
               PROVE  /\ Cardinality(log[r][s].commitCert) >= Quorum
                      /\ \A q \in log[r][s].commitCert : Prepared(q, s, log[r][s].req)
    BY DEF CertificatesAreBacked, Prepared, AllAccepted, Accepted
  <2>1. SlotBacked(log[r][s], s)
    BY DEF CertsInv
  <2>2. QED
    BY <2>1 DEF SlotBacked, AllPrepared, Committed
<1>2. QED
  BY <1>1, CertsInvariant, PTL

-----------------------------------------------------------------------------
(***************************************************************************)
(* Execution of what was agreed on.                                        *)
(***************************************************************************)

\* What a step is for execution: a proposal, a vote, the end of an execution,
\* or a handler that at most claims a slot.
LEMMA StepShapes ==
    ASSUME TypeInv, LocksInv, [Next]_vars, reclaims' = 0
    PROVE  \/ \E req \in Request : StartConsensus(req)
           \/ \E m \in net : OnPrePrepare(m)
           \/ \E r \in Replica : \E t \in tasks[r] : LockAndPrepare(r, t)
           \/ \E r \in Replica : \E s \in SeqNo : Apply(r, s)
           \/ \E r \in Replica : HandlerRuns(r)
<1>1. ASSUME log' = log, execSeq' = execSeq, applying' = applying, lock' = lock,
             storeVars' = storeVars, SendsNoDiscard
      PROVE  HandlerRuns(Primary) /\ Primary \in Replica
  <2>1. \A q \in Replica : \A s \in SeqNo : SlotRuns(q, s, applying[q])
    BY <1>1 DEF SlotRuns
  <2>2. QED
    BY <1>1, <2>1, FaultAssumption DEF HandlerRuns, Runs, storeVars
<1>2. ASSUME NEW m \in net, Handle(m)
      PROVE  OnPrePrepare(m) \/ \E r \in Replica : HandlerRuns(r)
  <2>1. m.to \in Replica
    BY MessageFields DEF TypeInv, TypeOK
  <2>2. ~OnDiscardSeq(m)
    BY DEF OnDiscardSeq, LocksInv, NoDiscards
  <2>3. CASE Ignore(m)
    BY <1>1, <2>3 DEF Ignore, SendsNoDiscard
  <2>4. CASE OnPrepare(m) \/ OnPrepareCert(m) \/ OnCommit(m) \/ OnDecidingCommit(m) \/ OnCommitCert(m)
    BY <2>1, <2>4, RunsOnPrepare, RunsOnPrepareCert, RunsOnCommit, RunsOnDecidingCommit,
       RunsOnCommitCert
  <2>5. QED
    BY <1>2, <2>2, <2>3, <2>4 DEF Handle
<1>3. ASSUME NEW req \in Request, StartSelfTransfer(req)
      PROVE  HandlerRuns(Primary) /\ Primary \in Replica
  BY <1>1, <1>3 DEF StartSelfTransfer, SendsNoDiscard
<1>4. ASSUME NEW r \in Replica, NEW t \in tasks[r], LockWaitExpires(r, t)
      PROVE  HandlerRuns(Primary) /\ Primary \in Replica
  BY <1>1, <1>4 DEF LockWaitExpires, SendsNoDiscard
<1>5. ASSUME NEW s \in SeqNo, Reclaim(s)
      PROVE  FALSE
  BY <1>5 DEF Reclaim, TypeInv, TypeOK
<1>6. ASSUME UNCHANGED vars
      PROVE  HandlerRuns(Primary) /\ Primary \in Replica
  BY <1>1, <1>6 DEF vars, SendsNoDiscard, storeVars
<1>7. CASE Next
  <2>1. \/ \E req \in Request : StartConsensus(req) \/ StartSelfTransfer(req)
        \/ \E m \in net : Handle(m)
        \/ \E r \in Replica : \E t \in tasks[r] : LockAndPrepare(r, t) \/ LockWaitExpires(r, t)
        \/ \E r \in Replica : \E s \in SeqNo : Apply(r, s)
        \/ \E s \in SeqNo : Reclaim(s)
    BY <1>7 DEF Next
  <2>2. QED
    BY <1>2, <1>3, <1>4, <1>5, <2>1
<1>8. QED
  BY <1>6, <1>7

\* Such a handler applies nothing; executeIntra applies its slot alone.
LEMMA AppliedKept ==
    ASSUME AppliesClaimed, NEW r \in Replica, NEW claims \in SUBSET applying[r],
           Runs(r, claims), NEW q \in Replica, NEW s \in SeqNo
    PROVE  /\ Applied(q, s)' <=> Applied(q, s) \/ (q = r /\ s \in applying[r] \ claims)
           /\ log'[q][s].req = log[q][s].req
           /\ log'[q][s].prePrepare = log[q][s].prePrepare
<1>1. SlotRuns(q, s, IF q = r THEN claims ELSE applying[q])
  BY DEF Runs
<1>2. s \in applying[q] => log[q][s].executed
  BY DEF AppliesClaimed
<1>3. CASE q = r
  BY <1>1, <1>2, <1>3 DEF SlotRuns, Applied
<1>4. CASE q # r
  BY <1>1, <1>2, <1>4 DEF SlotRuns, Applied
<1>5. QED
  BY <1>3, <1>4

\* A slot that is proposed was not applied before and is not then.
LEMMA AppliedUnlessProposed ==
    ASSUME RefinementInv, NEW r \in Replica, NEW s \in SeqNo, NEW req \in Request,
           ~(log[r][s].prePrepare /\ ~log[r][s].discarded),
           OnlyProposes(r, s, req), applying' = applying,
           NEW q \in Replica, NEW t \in SeqNo
    PROVE  /\ Applied(q, t)' <=> Applied(q, t)
           /\ Applied(q, t) => log'[q][t] = log[q][t]
<1>1. ~log[r][s].executed
  BY UnclaimedUnlessLive
<1>2. ~log'[r][s].executed
  BY DEF OnlyProposes, Proposed, EmptySlot
<1>3. CASE q = r /\ t = s
  BY <1>1, <1>2, <1>3 DEF Applied
<1>4. CASE q # r \/ t # s
  <2>1. log'[q][t] = log[q][t]
    BY <1>4 DEF OnlyProposes
  <2>2. QED
    BY <2>1 DEF Applied
<1>5. QED
  BY <1>3, <1>4

\* What the two actions that put a proposal in a slot have in common.
LEMMA StartProposes ==
    ASSUME TypeInv, TypeInv', RefinementInv, LocksInv,
           NEW req \in Request, StartConsensus(req)
    PROVE  /\ Primary \in Replica /\ nextSeq \in SeqNo
           /\ ~log[Primary][nextSeq].prePrepare
           /\ OnlyProposes(Primary, nextSeq, req)
           /\ applying' = applying /\ storeVars' = storeVars
<1>1. /\ Primary \in Replica
      /\ nextSeq \in SeqNo
      /\ nextSeq >= nextSeq
  BY FaultAssumption, BoundAssumption DEF TypeInv, TypeOK, StartConsensus, Startable, SeqNo
<1>2. /\ log' = [log EXCEPT ![Primary][nextSeq] = Proposed(req)]
      /\ execSeq' = execSeq /\ applying' = applying /\ storeVars' = storeVars
  BY DEF StartConsensus
<1>3. ~log[Primary][nextSeq].prePrepare
  BY <1>1 DEF RefinementInv, AgreementInv, NextSlotsUnproposed
<1>4. SendsNoDiscard
  BY DEF StartConsensus, SendsNoDiscard, PrePrepareMsg
<1>5. ProposesAt(Primary, nextSeq, req)
  BY <1>2, <1>3 DEF ProposesAt
<1>6. OnlyProposes(Primary, nextSeq, req)
  BY <1>1, <1>4, <1>5, ProposingKeeps
<1>7. QED
  BY <1>1, <1>2, <1>3, <1>6

LEMMA PrePrepareProposes ==
    ASSUME TypeInv, TypeInv', RefinementInv, LocksInv, NEW m \in net, OnPrePrepare(m)
    PROVE  /\ m.to \in Replica \ {Primary} /\ m.seq \in SeqNo /\ m.req \in Request
           /\ ~log[m.to][m.seq].prePrepare
           /\ OnlyProposes(m.to, m.seq, m.req)
           /\ applying' = applying /\ storeVars' = storeVars
<1>1. m.to \in Replica /\ m.seq \in SeqNo /\ m.req \in Request
  BY MessageFields DEF TypeInv, TypeOK, OnPrePrepare
<1>2. /\ log' = [log EXCEPT ![m.to][m.seq] = Proposed(m.req)]
      /\ execSeq' = execSeq /\ applying' = applying /\ storeVars' = storeVars
  BY DEF OnPrePrepare
<1>3. ~log[m.to][m.seq].prePrepare
  BY <1>1 DEF OnPrePrepare, AcceptsPrePrepare, LocksInv, NoDiscards
<1>4. SendsNoDiscard
  BY DEF OnPrePrepare, SendsNoDiscard
<1>5. ProposesAt(m.to, m.seq, m.req)
  BY <1>2, <1>3 DEF ProposesAt
<1>6. OnlyProposes(m.to, m.seq, m.req)
  BY <1>1, <1>4, <1>5, ProposingKeeps
<1>7. m.to # Primary
  BY DEF OnPrePrepare, RefinementInv, AgreementInv, PrePreparesGoToBackups
<1>8. QED
  BY <1>1, <1>2, <1>3, <1>6, <1>7

\* Where executeIntra is called and what tryExecute does after it.
LEMMA ApplyRuns ==
    ASSUME TypeInv, LocksInv, NEW r \in Replica, NEW s \in SeqNo, Apply(r, s)
    PROVE  /\ s \in applying[r] /\ log[r][s].executed
           /\ applying[r] \ {s} \in SUBSET applying[r]
           /\ Runs(r, applying[r] \ {s})
<1>1. /\ log[r] \in [SeqNo -> Slot]
      /\ applying[r] \ {s} \in SUBSET SeqNo
      /\ log[r][s] \in Slot
  BY DEF TypeInv, TypeOK
<1>2. s \in applying[r] /\ TryExecute(r, log[r], execSeq[r], applying[r] \ {s})
  BY DEF Apply
<1>3. NoDiscards /\ AppliesClaimed
  BY DEF LocksInv
<1>4. Runs(r, applying[r] \ {s})
  BY <1>1, <1>2, <1>3, ExecutingRuns
<1>5. QED
  BY <1>2, <1>3, <1>4 DEF AppliesClaimed

\* A claimed slot of the primary that is not applied is in flight.
LEMMA ClaimsInFlight ==
    ASSUME RefinementInv, LocksInv, NEW s \in SeqNo, s \in applying[Primary]
    PROVE  InFlight(s)
<1>1. Primary \in Replica
  BY FaultAssumption
<1>2. log[Primary][s].executed /\ ~log[Primary][s].discarded
  BY <1>1 DEF LocksInv, AppliesClaimed, NoDiscards
<1>3. log[Primary][s].prePrepare
  BY <1>1, <1>2, UnclaimedUnlessLive
<1>4. QED
  BY <1>2, <1>3 DEF InFlight, Applied
-----------------------------------------------------------------------------
(***************************************************************************)
(* Each request is applied once.                                           *)
(***************************************************************************)
\* No client has two transfers under way at the primary.
OneOutstanding ==
    \A s, t \in SeqNo :
        (/\ InFlight(s) /\ InFlight(t)
         /\ log[Primary][s].req.client = log[Primary][t].req.client) => s = t

\* The timestamp check of validateRequest would refuse the request.
Seen(req) == clientTS[Primary][req.client] >= req.ts

SeenInv == \A s \in SeqNo :
    /\ InFlight(s) => ~Seen(log[Primary][s].req)
    /\ Applied(Primary, s) => Seen(log[Primary][s].req)

ProposedOnce == \A s, t \in SeqNo :
    (/\ log[Primary][s].prePrepare /\ log[Primary][t].prePrepare
     /\ log[Primary][s].req = log[Primary][t].req) => s = t

\* Every record in the datastore comes from a slot.
RecordsApplied == \A r \in Replica : \A k \in DOMAIN datastore[r] :
    \E s \in SeqNo : Applied(r, s) /\ log[r][s].req = datastore[r][k]

OnceInv == SeenInv /\ ProposedOnce /\ RecordsApplied /\ AppliedAtMostOnce

LEMMA StoreTypes ==
    ASSUME TypeInv
    PROVE  /\ clientTS \in [Replica -> [Client -> Nat]]
           /\ datastore \in [Replica -> Seq(Request)]
           /\ bal \in [Replica -> [Item -> Nat]]
BY DEF TypeInv, TypeOK

\* What the primary holds in a slot in flight or applied is a request.
LEMMA LiveRequests ==
    ASSUME TypeInv, RefinementInv, NEW r \in Replica, NEW s \in SeqNo,
           log[r][s].prePrepare \/ log[r][s].executed
    PROVE  log[r][s].req \in Request
<1>1. log[r][s].executed => log[r][s].prePrepare
  BY UnclaimedUnlessLive
<1>2. QED
  BY <1>1 DEF TypeInv, SlotsHoldRequests, InLog

LEMMA OnceQuiet ==
    ASSUME TypeInv, LocksInv, OnceInv, NEW r \in Replica,
           Runs(r, applying[r]), storeVars' = storeVars
    PROVE  OnceInv'
<1>1. Primary \in Replica /\ applying[r] \in SUBSET applying[r] /\ AppliesClaimed
  BY FaultAssumption DEF LocksInv
<1>2. \A q \in Replica : \A s \in SeqNo :
        /\ Applied(q, s)' <=> Applied(q, s)
        /\ log'[q][s].req = log[q][s].req
        /\ log'[q][s].prePrepare = log[q][s].prePrepare
  BY <1>1, AppliedKept
<1>3. \A s \in SeqNo : InFlight(s)' => InFlight(s)
  BY <1>1, FlightKept
<1>4. clientTS' = clientTS /\ datastore' = datastore
  BY DEF storeVars
<1>5. SeenInv'
  BY <1>1, <1>2, <1>3, <1>4 DEF OnceInv, SeenInv, Seen
<1>6. ProposedOnce'
  BY <1>1, <1>2 DEF OnceInv, ProposedOnce
<1>7. RecordsApplied'
  BY <1>2, <1>4 DEF OnceInv, RecordsApplied
<1>8. AppliedAtMostOnce'
  BY <1>4 DEF OnceInv, AppliedAtMostOnce
<1>9. QED
  BY <1>5, <1>6, <1>7, <1>8 DEF OnceInv

\* A proposal at a backup, or one that is new at the primary.
LEMMA OnceProposed ==
    ASSUME RefinementInv, OnceInv, NEW r \in Replica, NEW s \in SeqNo, NEW req \in Request,
           ~log[r][s].prePrepare, OnlyProposes(r, s, req),
           applying' = applying, storeVars' = storeVars,
           r = Primary => /\ ~Seen(req)
                          /\ \A t \in SeqNo : log[Primary][t].prePrepare
                                => log[Primary][t].req # req
    PROVE  OnceInv'
<1>1. Primary \in Replica
  BY FaultAssumption
<1>2. \A q \in Replica : \A t \in SeqNo :
        /\ Applied(q, t)' <=> Applied(q, t)
        /\ Applied(q, t) => log'[q][t] = log[q][t]
  BY AppliedUnlessProposed
<1>3. clientTS' = clientTS /\ datastore' = datastore
  BY DEF storeVars
<1>4. log'[r][s].req = req
  BY DEF OnlyProposes, Proposed, EmptySlot
<1>5. \A t \in SeqNo : Primary # r \/ t # s => log'[Primary][t] = log[Primary][t]
  BY <1>1 DEF OnlyProposes
<1>6. SeenInv'
  <2> SUFFICES ASSUME NEW t \in SeqNo
               PROVE  /\ InFlight(t)' => ~Seen(log[Primary][t].req)'
                      /\ Applied(Primary, t)' => Seen(log[Primary][t].req)'
    BY DEF SeenInv
  <2>1. Applied(Primary, t)' => Seen(log[Primary][t].req)'
    BY <1>1, <1>2, <1>3 DEF OnceInv, SeenInv, Seen
  <2>2. CASE Primary = r /\ t = s
    BY <1>3, <1>4, <2>1, <2>2 DEF Seen
  <2>3. CASE Primary # r \/ t # s
    <3>1. log'[Primary][t] = log[Primary][t] /\ (Applied(Primary, t)' <=> Applied(Primary, t))
      BY <1>1, <1>2, <1>5, <2>3
    <3>2. InFlight(t)' => InFlight(t)
      BY <3>1 DEF InFlight
    <3>3. QED
      BY <1>3, <2>1, <3>1, <3>2 DEF OnceInv, SeenInv, Seen
  <2>4. QED
    BY <2>2, <2>3
<1>7. ProposedOnce'
  BY <1>4, <1>5 DEF OnceInv, ProposedOnce
<1>8. RecordsApplied'
  BY <1>2, <1>3 DEF OnceInv, RecordsApplied
<1>9. AppliedAtMostOnce'
  BY <1>3 DEF OnceInv, AppliedAtMostOnce
<1>10. QED
  BY <1>6, <1>7, <1>8, <1>9 DEF OnceInv

\* startConsensus: a request that is already in the log is in flight and
\* unclaimed (txnKeyIndex), or claimed and holding its locks, or applied and
\* no newer than its client's timestamp.
LEMMA OnceStartConsensus ==
    ASSUME TypeInv, TypeInv', RefinementInv, LocksInv, OnceInv,
           NEW req \in Request, StartConsensus(req)
    PROVE  OnceInv'
<1>1. /\ Primary \in Replica /\ nextSeq \in SeqNo
      /\ ~log[Primary][nextSeq].prePrepare
      /\ OnlyProposes(Primary, nextSeq, req)
      /\ applying' = applying /\ storeVars' = storeVars
  BY StartProposes
<1>2. /\ FreshAndFunded(Primary, req)
      /\ ~ClientTxnInFlight(req)
      /\ CanAcquire(Primary, req)
  BY DEF StartConsensus, Startable
<1>3. ~Seen(req)
  <2>1. clientTS[Primary][req.client] \in Nat /\ req.ts \in Nat
    BY <1>1, StoreTypes, RequestFields
  <2>2. QED
    BY <1>2, <2>1 DEF FreshAndFunded, Seen
<1>4. ASSUME NEW t \in SeqNo, log[Primary][t].prePrepare, log[Primary][t].req = req
      PROVE  FALSE
  <2>1. ~log[Primary][t].discarded
    BY <1>1 DEF LocksInv, NoDiscards
  <2>2. log[Primary][t].executed
    BY <1>2, <1>4, <2>1 DEF ClientTxnInFlight
  <2>3. ~Applied(Primary, t)
    BY <1>3, <1>4 DEF OnceInv, SeenInv
  <2>4. InFlight(t)
    BY <1>4, <2>1, <2>3 DEF InFlight
  <2>5. \A i \in LockItems(req) : lock[Primary][i] = t
    BY <1>4, <2>4, ReservedItems
  <2>6. t # 0 /\ req.x \in LockItems(req)
    BY DEF SeqNo, LockItems
  <2>7. QED
    BY <1>2, <2>5, <2>6 DEF CanAcquire
<1>5. QED
  BY <1>1, <1>3, <1>4, OnceProposed

\* What executeIntra leaves in the store.
LEMMA ApplyStores ==
    ASSUME TypeInv, NEW r \in Replica, NEW s \in SeqNo, Apply(r, s),
           log[r][s].req \in Request
    PROVE  LET req == log[r][s].req IN
           /\ \A q \in Replica \ {r} : clientTS'[q] = clientTS[q] /\ datastore'[q] = datastore[q]
           /\ \A c \in Client : c # req.client => clientTS'[r][c] = clientTS[r][c]
           /\ bal[r][req.x] >= req.amt => clientTS'[r][req.client] = req.ts
           /\ datastore'[r] \in {datastore[r], Append(datastore[r], req)}
<1> DEFINE req == log[r][s].req
<1>1. /\ clientTS \in [Replica -> [Client -> Nat]]
      /\ datastore \in [Replica -> Seq(Request)]
      /\ req.client \in Client
  BY StoreTypes, RequestFields
<1>2. \/ /\ datastore' = [datastore EXCEPT ![r] = Append(@, req)]
         /\ clientTS' = [clientTS EXCEPT ![r][req.client] = req.ts]
      \/ ~(bal[r][req.x] >= req.amt) /\ datastore' = datastore /\ clientTS' = clientTS
  BY DEF Apply, storeVars
<1> HIDE DEF req
<1>3. QED
  BY <1>1, <1>2 DEF req

\* Two claimed slots of a replica hold different requests.
LEMMA ClaimsDiffer ==
    ASSUME RefinementInv, OnceInv, NEW r \in Replica, NEW s \in SeqNo, NEW u \in SeqNo,
           log[r][s].executed, log[r][u].executed, log[r][s].req = log[r][u].req
    PROVE  s = u
<1>1. Primary \in Replica
  BY FaultAssumption
<1>2. \A t \in {s, u} : Committed(Primary, t) /\ log[Primary][t].req = log[r][t].req
  BY DEF RefinementInv, ClaimsBehindCursor, AgreementInv, CommitsMatchPrimary
<1>3. \A t \in {s, u} : log[Primary][t].prePrepare
  BY <1>1, <1>2 DEF RefinementInv, AgreementInv, SlotShape, Committed
<1>4. QED
  BY <1>2, <1>3 DEF OnceInv, ProposedOnce

\* executeIntra: the record it appends is new, and at the primary the
\* timestamp it sets is above that of all that was applied.
LEMMA OnceApply ==
    ASSUME TypeInv, RefinementInv, LocksInv, OneOutstanding, OnceInv,
           NEW r \in Replica, NEW s \in SeqNo, Apply(r, s)
    PROVE  OnceInv'
<1> DEFINE req == log[r][s].req
<1>1. /\ s \in applying[r] /\ log[r][s].executed
      /\ applying[r] \ {s} \in SUBSET applying[r]
      /\ Runs(r, applying[r] \ {s})
  BY ApplyRuns
<1>2. Primary \in Replica /\ AppliesClaimed
  BY FaultAssumption DEF LocksInv
<1>3. \A q \in Replica : \A u \in SeqNo :
        /\ Applied(q, u)' <=> Applied(q, u) \/ (q = r /\ u \in {s})
        /\ log'[q][u].req = log[q][u].req
        /\ log'[q][u].prePrepare = log[q][u].prePrepare
  <2>1. applying[r] \ (applying[r] \ {s}) = {s}
    BY <1>1
  <2>2. QED
    BY <1>1, <1>2, <2>1, AppliedKept
<1>4. req \in Request
  BY <1>1, LiveRequests
<1>5. /\ \A q \in Replica \ {r} : clientTS'[q] = clientTS[q] /\ datastore'[q] = datastore[q]
      /\ \A c \in Client : c # req.client => clientTS'[r][c] = clientTS[r][c]
      /\ bal[r][req.x] >= req.amt => clientTS'[r][req.client] = req.ts
      /\ datastore'[r] \in {datastore[r], Append(datastore[r], req)}
  BY <1>4, ApplyStores
<1>6. \A u \in SeqNo : InFlight(u)' => InFlight(u)
  BY <1>1, FlightKept
<1>7. SeenInv'
  <2>1. CASE r # Primary
    BY <1>2, <1>3, <1>5, <1>6, <2>1 DEF OnceInv, SeenInv, Seen
  <2>2. CASE r = Primary
    <3>1. InFlight(s)
      BY <1>1, <2>2, ClaimsInFlight
    <3>2. clientTS'[Primary][req.client] = req.ts
      BY <1>5, <2>2, <3>1, ReservedItems
    <3>3. ~Seen(req)
      BY <2>2, <3>1 DEF OnceInv, SeenInv
    <3>4. /\ clientTS[Primary][req.client] \in Nat
          /\ req.ts \in Nat /\ req.client \in Client
      BY <1>2, <1>4, StoreTypes, RequestFields
    <3>5. ASSUME NEW u \in SeqNo, Applied(Primary, u)'
          PROVE  Seen(log[Primary][u].req)'
      <4>1. log'[Primary][u].req = log[Primary][u].req
        BY <1>2, <1>3
      <4>2. log[Primary][u].executed
        BY <1>1, <1>2, <1>3, <2>2, <3>5 DEF Applied
      <4>3. PICK old \in Request : old = log[Primary][u].req
        BY <1>2, <4>2, LiveRequests
      <4>4. old.ts \in Nat /\ old.client \in Client
        BY RequestFields
      <4>5. CASE u = s
        BY <2>2, <3>2, <3>4, <4>1, <4>5 DEF Seen
      <4>6. CASE u # s /\ old.client = req.client
        <5>1. clientTS[Primary][old.client] >= old.ts
          BY <1>2, <1>3, <3>5, <4>3, <4>6 DEF OnceInv, SeenInv, Seen
        <5>2. ~(clientTS[Primary][req.client] >= req.ts)
          BY <3>3 DEF Seen
        <5>3. clientTS'[Primary][old.client] >= old.ts
          BY <3>2, <3>4, <4>4, <4>6, <5>1, <5>2
        <5>4. QED
          BY <4>1, <4>3, <5>3 DEF Seen
      <4>7. CASE u # s /\ old.client # req.client
        <5>1. clientTS[Primary][old.client] >= old.ts
          BY <1>2, <1>3, <3>5, <4>3, <4>7 DEF OnceInv, SeenInv, Seen
        <5>2. clientTS'[Primary][old.client] = clientTS[Primary][old.client]
          BY <1>5, <2>2, <4>4, <4>7
        <5>3. QED
          BY <4>1, <4>3, <5>1, <5>2 DEF Seen
      <4>8. QED
        BY <4>5, <4>6, <4>7
    <3>6. ASSUME NEW u \in SeqNo, InFlight(u)'
          PROVE  ~Seen(log[Primary][u].req)'
      <4>1. /\ InFlight(u) /\ u # s
            /\ log'[Primary][u].req = log[Primary][u].req
        BY <1>2, <1>3, <1>6, <2>2, <3>6 DEF InFlight
      <4>2. log[Primary][u].req.client # req.client
        BY <2>2, <3>1, <4>1 DEF OneOutstanding
      <4>3. log[Primary][u].req \in Request
        BY <1>2, <4>1, LiveRequests DEF InFlight
      <4>4. log[Primary][u].req.client \in Client
        BY <4>3, RequestFields
      <4>5. ~Seen(log[Primary][u].req)
        BY <4>1 DEF OnceInv, SeenInv
      <4>6. QED
        BY <1>5, <2>2, <4>1, <4>2, <4>4, <4>5 DEF Seen
    <3>7. QED
      BY <3>5, <3>6 DEF SeenInv
  <2>3. QED
    BY <2>1, <2>2
<1>8. ProposedOnce'
  BY <1>2, <1>3 DEF OnceInv, ProposedOnce
<1>9. ASSUME NEW q \in Replica, NEW k \in DOMAIN datastore'[q]
      PROVE  \/ k \in DOMAIN datastore[q] /\ datastore'[q][k] = datastore[q][k]
             \/ /\ q = r /\ datastore'[q][k] = req
                /\ k = Len(datastore[q]) + 1
                /\ k \notin DOMAIN datastore[q]
  <2>1. datastore[q] \in Seq(Request)
    BY StoreTypes
  <2>2. datastore'[q] = datastore[q] \/ (q = r /\ datastore'[q] = Append(datastore[q], req))
    BY <1>5
  <2> HIDE DEF req
  <2>3. QED
    BY <1>4, <1>9, <2>1, <2>2
<1>10. RecordsApplied'
  <2> SUFFICES ASSUME NEW q \in Replica, NEW k \in DOMAIN datastore'[q]
               PROVE  \E u \in SeqNo : Applied(q, u)' /\ log'[q][u].req = datastore'[q][k]
    BY DEF RecordsApplied
  <2>1. CASE k \in DOMAIN datastore[q] /\ datastore'[q][k] = datastore[q][k]
    BY <1>3, <2>1 DEF OnceInv, RecordsApplied
  <2>2. CASE q = r /\ datastore'[q][k] = req
    BY <1>3, <2>2
  <2>3. QED
    BY <1>9, <2>1, <2>2
<1>11. \A k \in DOMAIN datastore[r] : datastore[r][k] # req
  <2> SUFFICES ASSUME NEW k \in DOMAIN datastore[r], datastore[r][k] = req PROVE FALSE
    OBVIOUS
  <2>1. PICK u \in SeqNo : Applied(r, u) /\ log[r][u].req = req
    BY DEF OnceInv, RecordsApplied
  <2>2. u = s
    BY <1>1, <2>1, ClaimsDiffer DEF Applied
  <2>3. QED
    BY <1>1, <2>1, <2>2 DEF Applied
<1>12. AppliedAtMostOnce'
  <2> SUFFICES ASSUME NEW q \in Replica, NEW j \in DOMAIN datastore'[q],
                      NEW k \in DOMAIN datastore'[q], datastore'[q][j] = datastore'[q][k]
               PROVE  j = k
    BY DEF AppliedAtMostOnce
  <2> HIDE DEF req
  <2>1. CASE /\ j \in DOMAIN datastore[q] /\ datastore'[q][j] = datastore[q][j]
             /\ k \in DOMAIN datastore[q] /\ datastore'[q][k] = datastore[q][k]
    BY <2>1 DEF OnceInv, AppliedAtMostOnce
  <2>2. CASE \/ k \notin DOMAIN datastore[q]
             \/ j \notin DOMAIN datastore[q]
    BY <1>9, <1>11, <2>2
  <2>3. QED
    BY <1>9, <2>1, <2>2
<1>13. QED
  BY <1>7, <1>8, <1>10, <1>12 DEF OnceInv

LEMMA OnceNext ==
    ASSUME TypeInv, TypeInv', RefinementInv, LocksInv, OneOutstanding, OnceInv,
           [Next]_vars, reclaims' = 0
    PROVE  OnceInv'
<1>1. ASSUME NEW req \in Request, StartConsensus(req)
      PROVE  OnceInv'
  BY <1>1, OnceStartConsensus
<1>2. ASSUME NEW m \in net, OnPrePrepare(m)
      PROVE  OnceInv'
  <2>1. /\ m.to \in Replica \ {Primary} /\ m.seq \in SeqNo /\ m.req \in Request
        /\ ~log[m.to][m.seq].prePrepare
        /\ OnlyProposes(m.to, m.seq, m.req)
        /\ applying' = applying /\ storeVars' = storeVars
    BY <1>2, PrePrepareProposes
  <2>2. QED
    BY <2>1, OnceProposed
<1>3. ASSUME NEW r \in Replica, NEW t \in tasks[r], LockAndPrepare(r, t)
      PROVE  OnceInv'
  <2>1. log' = log /\ execSeq' = execSeq /\ applying' = applying /\ storeVars' = storeVars
    BY <1>3 DEF LockAndPrepare
  <2>2. Runs(r, applying[r])
    BY <2>1 DEF Runs, SlotRuns
  <2>3. QED
    BY <2>1, <2>2, OnceQuiet
<1>4. ASSUME NEW r \in Replica, NEW s \in SeqNo, Apply(r, s)
      PROVE  OnceInv'
  BY <1>4, OnceApply
<1>5. ASSUME NEW r \in Replica, HandlerRuns(r)
      PROVE  OnceInv'
  BY <1>5, OnceQuiet DEF HandlerRuns, storeVars
<1>6. QED
  BY <1>1, <1>2, <1>3, <1>4, <1>5, StepShapes

LEMMA OnceInvInit == Init => OnceInv
<1> SUFFICES ASSUME Init PROVE OnceInv
  OBVIOUS
<1>1. Primary \in Replica /\ \A r \in Replica : datastore[r] = <<>>
  BY FaultAssumption DEF Init
<1>2. \A r \in Replica : \A s \in SeqNo : log[r][s] = EmptySlot
  BY DEF Init
<1>3. SeenInv /\ ProposedOnce
  BY <1>1, <1>2 DEF SeenInv, ProposedOnce, InFlight, Applied, EmptySlot
<1>4. RecordsApplied /\ AppliedAtMostOnce
  BY <1>1 DEF RecordsApplied, AppliedAtMostOnce
<1>5. QED
  BY <1>3, <1>4 DEF OnceInv

\* While the cluster has given up no slot and no client has two transfers
\* under way, no replica applies a request twice, however often clients
\* resend it: the log, the locks and the timestamp of the client each cover
\* a part of the life of a slot, and together all of it.
THEOREM AppliedOnce ==
    Spec /\ [](reclaims = 0 => OneOutstanding) => [](reclaims = 0 => AppliedAtMostOnce)
<1>1. Init => (reclaims = 0 => OnceInv)
  BY OnceInvInit
<1>2. /\ UnreclaimedInv /\ (reclaims = 0 => OneOutstanding)
      /\ (reclaims = 0 => OnceInv)
      /\ [Next]_vars
      /\ UnreclaimedInv'
      => (reclaims = 0 => OnceInv)'
  BY OnceNext, ReclaimsCounted DEF UnreclaimedInv
<1>3. OnceInv => AppliedAtMostOnce
  BY DEF OnceInv
<1>4. QED
  BY <1>1, <1>2, <1>3, UnreclaimedInvariant, PTL DEF Spec

\* No two transfers of one client can be under way when they share an item:
\* so it is enough that each client submits one transfer, or moves money out
\* of one account.
THEOREM AppliedOnceByLocks ==
    ASSUME \A q1, q2 \in Request : q1.client = q2.client => LockItems(q1) \cap LockItems(q2) # {}
    PROVE  Spec => [](reclaims = 0 => AppliedAtMostOnce)
<1>1. UnreclaimedInv => (reclaims = 0 => OneOutstanding)
  <2> SUFFICES ASSUME UnreclaimedInv, reclaims = 0, NEW s \in SeqNo, NEW t \in SeqNo,
                      InFlight(s), InFlight(t),
                      log[Primary][s].req.client = log[Primary][t].req.client
               PROVE  s = t
    BY DEF OneOutstanding
  <2>1. TypeInv /\ RefinementInv /\ LocksInv /\ Primary \in Replica
    BY FaultAssumption DEF UnreclaimedInv
  <2>2. log[Primary][s].req \in Request /\ log[Primary][t].req \in Request
    BY <2>1, LiveRequests DEF InFlight
  <2>3. PICK i : i \in LockItems(log[Primary][s].req) /\ i \in LockItems(log[Primary][t].req)
    BY <2>2
  <2>4. lock[Primary][i] = s /\ lock[Primary][i] = t
    BY <2>1, <2>3, ReservedItems
  <2>5. QED
    BY <2>4
<1>2. QED
  BY <1>1, UnreclaimedInvariant, AppliedOnce, PTL

-----------------------------------------------------------------------------
(***************************************************************************)
(* Who votes, and what a vote leaves to do.                                *)
(***************************************************************************)
\* Replica r has voted PREPARE for slot s: its vote is under way, or counted,
\* or part of a certificate.
Voted(r, s) ==
    \/ \E m \in net : m.type = "PREPARE" /\ m.from = r /\ m.seq = s
    \/ \E m \in net : m.type = "PREPARE_CERT" /\ r \in m.sigs /\ m.seq = s
    \/ \E q \in Replica : r \in log[q][s].prepares \cup log[q][s].prepareCert

\* Only replicas that are up take part.
SlotsUp ==
    /\ \A r \in Replica : \A s \in SeqNo : log[r][s].prePrepare => r \in Up
    /\ \A m \in net : m.type = "PRE_PREPARE" => m.to \in Up

\* A replica that still waits for the locks of a slot has not voted on it.
TasksUnvoted == \A r \in Replica : \A t \in tasks[r] : ~Voted(r, t[1])

\* A lock belongs to a slot that is proposed and has the item.
OwnersKnown == \A r \in Replica : \A i \in Item : lock[r][i] # 0 =>
    LET st == log[r][lock[r][i]] IN st.prePrepare /\ i \in LockItems(st.req)

VotesInv == SlotsUp /\ TasksUnvoted /\ OwnersKnown

LEMMA VotedAccepted ==
    ASSUME CertsInv, NEW r \in Replica, NEW s \in SeqNo, Voted(r, s)
    PROVE  log[r][s].prePrepare
<1>1. CASE \E m \in net : m.type = "PREPARE" /\ m.from = r /\ m.seq = s
  BY <1>1 DEF CertsInv, MessageBacked, Accepted
<1>2. CASE \E m \in net : m.type = "PREPARE_CERT" /\ r \in m.sigs /\ m.seq = s
  BY <1>2 DEF CertsInv, MessageBacked, Accepted
<1>3. ASSUME NEW q \in Replica, r \in log[q][s].prepares \cup log[q][s].prepareCert
      PROVE  log[r][s].prePrepare
  <2>1. SlotBacked(log[q][s], s)
    BY DEF CertsInv
  <2>2. QED
    BY <1>3, <2>1 DEF SlotBacked, AllAccepted, Accepted
<1>4. QED
  BY <1>1, <1>2, <1>3 DEF Voted

(***************************************************************************)
(* What a step does to votes: it copies them, and sends no more than the   *)
(* proposals of the primary besides.                                       *)
(***************************************************************************)
LogCopiesVotes == \A q \in Replica : \A s \in SeqNo :
    \A v \in log'[q][s].prepares \cup log'[q][s].prepareCert : Voted(v, s)

SendsCopies == \A m \in net' \ net :
    /\ m.type # "PREPARE"
    /\ m.type = "PREPARE_CERT" => \A v \in m.sigs : Voted(v, m.seq)

CopiesVotes == LogCopiesVotes /\ SendsCopies

SendsUp == \A m \in net' \ net : m.type = "PRE_PREPARE" => m.to \in Up

LEMMA NoNewVotes ==
    ASSUME CopiesVotes, NEW r \in Replica, NEW s \in SeqNo, Voted(r, s)'
    PROVE  Voted(r, s)
BY DEF CopiesVotes, LogCopiesVotes, SendsCopies, Voted

LEMMA SlotUnvoted ==
    ASSUME NEW r \in Replica, NEW s \in SeqNo,
           log'[r][s].prepares = log[r][s].prepares,
           log'[r][s].prepareCert = log[r][s].prepareCert
    PROVE  \A v \in log'[r][s].prepares \cup log'[r][s].prepareCert : Voted(v, s)
BY DEF Voted

LEMMA LogUnvoted ==
    ASSUME log' = log
    PROVE  LogCopiesVotes
BY SlotUnvoted DEF LogCopiesVotes

LEMMA OneSlotVoted ==
    ASSUME TypeInv, NEW r \in Replica, NEW s \in SeqNo, NEW st \in Slot,
           log' = [log EXCEPT ![r][s] = st],
           \A v \in st.prepares \cup st.prepareCert : Voted(v, s)
    PROVE  LogCopiesVotes
<1>1. log \in [Replica -> [SeqNo -> Slot]]
  BY DEF TypeInv, TypeOK
<1>2. /\ log'[r][s] = st
      /\ \A q \in Replica : \A t \in SeqNo :
           q # r \/ t # s => log'[q][t] = log[q][t]
  BY <1>1, SlotWritten
<1>3. QED
  BY <1>2, SlotUnvoted DEF LogCopiesVotes

LEMMA ExecutingUnvoted ==
    ASSUME NEW r \in Replica, NEW slots, NEW claims, ExecutionEffect(r, slots, claims),
           \A t \in SeqNo : /\ slots[t].prepares = log[r][t].prepares
                            /\ slots[t].prepareCert = log[r][t].prepareCert
    PROVE  LogCopiesVotes
<1>1. \A q \in Replica : \A t \in SeqNo :
        /\ log'[q][t].prepares = log[q][t].prepares
        /\ log'[q][t].prepareCert = log[q][t].prepareCert
  BY DEF ExecutionEffect
<1>2. QED
  BY <1>1, SlotUnvoted DEF LogCopiesVotes

LEMMA CopiesOnPrepare ==
    ASSUME TypeInv, NEW m \in net, OnPrepare(m)
    PROVE  CopiesVotes /\ SendsUp
<1> DEFINE st    == log[m.to][m.seq]
           votes == st.prepares \cup {m.from}
           cert  == Cardinality(votes) >= Quorum /\ st.prepareCert = {}
           new   == [st EXCEPT !.prepares = votes,
                               !.prepareCert = IF cert THEN votes ELSE @]
           certs == {CertMsg("PREPARE_CERT", r, m.seq, m.req, votes) : r \in Up \ {m.to}}
<1>1. m.to \in Replica /\ m.seq \in SeqNo /\ m.from \in Replica
  BY MessageFields DEF OnPrepare, TypeInv, TypeOK
<1>2. log \in [Replica -> [SeqNo -> Slot]] /\ st \in Slot
  BY <1>1 DEF TypeInv, TypeOK
<1>3. log' = [log EXCEPT ![m.to][m.seq] = new]
  BY <1>1, <1>2 DEF OnPrepare
<1>4. net' \subseteq net \cup {VoteMsg("COMMIT", m.to, m.seq, m.req)} \cup certs
  BY DEF OnPrepare
<1>5. /\ new \in Slot
      /\ new.prepares = votes
      /\ new.prepareCert = IF cert THEN votes ELSE st.prepareCert
  BY <1>1, <1>2 DEF Slot
<1>6. \A v \in st.prepares \cup st.prepareCert \cup {m.from} : Voted(v, m.seq)
  BY <1>1 DEF OnPrepare, Voted
<1> HIDE DEF new
<1>7. LogCopiesVotes
  BY <1>1, <1>3, <1>5, <1>6, OneSlotVoted
<1>8. \A n \in certs : n.type = "PREPARE_CERT" /\ n.sigs = votes /\ n.seq = m.seq
  BY DEF CertMsg
<1>9. VoteMsg("COMMIT", m.to, m.seq, m.req).type = "COMMIT"
  BY DEF VoteMsg
<1> HIDE DEF certs
<1>10. SendsCopies /\ SendsUp
  BY <1>4, <1>6, <1>8, <1>9 DEF SendsCopies, SendsUp
<1>11. QED
  BY <1>7, <1>10 DEF CopiesVotes

LEMMA CopiesOnPrepareCert ==
    ASSUME TypeInv, NEW m \in net, OnPrepareCert(m)
    PROVE  CopiesVotes /\ SendsUp
<1> DEFINE st  == log[m.to][m.seq]
           new == [st EXCEPT !.prepareCert = m.sigs]
<1>1. m.to \in Replica /\ m.seq \in SeqNo /\ m.sigs \in SUBSET Replica
  BY MessageFields DEF OnPrepareCert, TypeInv, TypeOK
<1>2. log \in [Replica -> [SeqNo -> Slot]] /\ st \in Slot
  BY <1>1 DEF TypeInv, TypeOK
<1>3. log' = [log EXCEPT ![m.to][m.seq] = new]
  BY <1>1, <1>2 DEF OnPrepareCert
<1>4. new \in Slot /\ new.prepares = st.prepares /\ new.prepareCert = m.sigs
  BY <1>1, <1>2 DEF Slot
<1>5. \A v \in st.prepares \cup m.sigs : Voted(v, m.seq)
  BY <1>1 DEF OnPrepareCert, Voted
<1> HIDE DEF new
<1>6. LogCopiesVotes
  BY <1>1, <1>3, <1>4, <1>5, OneSlotVoted
<1>7. SendsCopies /\ SendsUp
  BY DEF OnPrepareCert, VoteMsg, SendsCopies, SendsUp
<1>8. QED
  BY <1>6, <1>7 DEF CopiesVotes

LEMMA CopiesOnCommit ==
    ASSUME TypeInv, NEW m \in net, OnCommit(m)
    PROVE  CopiesVotes /\ SendsUp
<1> DEFINE st  == log[m.to][m.seq]
           new == [st EXCEPT !.commits = st.commits \cup {m.from}]
<1>1. m.to \in Replica /\ m.seq \in SeqNo /\ m.from \in Replica
  BY MessageFields DEF OnCommit, TypeInv, TypeOK
<1>2. log \in [Replica -> [SeqNo -> Slot]] /\ st \in Slot
  BY <1>1 DEF TypeInv, TypeOK
<1>3. log' = [log EXCEPT ![m.to][m.seq] = new]
  BY <1>1, <1>2 DEF OnCommit
<1>4. new \in Slot /\ new.prepares = st.prepares /\ new.prepareCert = st.prepareCert
  BY <1>1, <1>2 DEF Slot
<1>5. \A v \in st.prepares \cup st.prepareCert : Voted(v, m.seq)
  BY <1>1 DEF Voted
<1> HIDE DEF new
<1>6. LogCopiesVotes
  BY <1>1, <1>3, <1>4, <1>5, OneSlotVoted
<1>7. SendsCopies /\ SendsUp
  BY DEF OnCommit, SendsCopies, SendsUp
<1>8. QED
  BY <1>6, <1>7 DEF CopiesVotes

LEMMA CopiesOnDecidingCommit ==
    ASSUME TypeInv, NEW m \in net, OnDecidingCommit(m)
    PROVE  CopiesVotes /\ SendsUp
<1> DEFINE st    == log[m.to][m.seq]
           votes == st.commits \cup {m.from}
           new   == [st EXCEPT !.commits = votes, !.commitCert = votes]
           slots == [log[m.to] EXCEPT ![m.seq] = new]
           certs == {CertMsg("COMMIT_CERT", r, m.seq, m.req, votes) : r \in Up \ {m.to}}
<1>1. m.to \in Replica /\ m.seq \in SeqNo /\ m.from \in Replica
  BY MessageFields DEF OnDecidingCommit, TypeInv, TypeOK
<1>2. /\ log \in [Replica -> [SeqNo -> Slot]] /\ st \in Slot
      /\ applying[m.to] \in SUBSET SeqNo
  BY <1>1 DEF TypeInv, TypeOK
<1>3. /\ new \in Slot
      /\ new.prepares = log[m.to][m.seq].prepares
      /\ new.prepareCert = log[m.to][m.seq].prepareCert
  BY <1>1, <1>2 DEF Slot
<1>4. /\ TryExecute(m.to, slots, execSeq[m.to], applying[m.to])
      /\ net' \subseteq net \cup certs
  BY <1>1, <1>2 DEF OnDecidingCommit
<1> HIDE DEF new
<1>5. /\ slots \in [SeqNo -> Slot]
      /\ slots[m.seq] = new
      /\ \A t \in SeqNo : t # m.seq => slots[t] = log[m.to][t]
  BY <1>1, <1>2, <1>3, SlotPassed
<1> HIDE DEF slots
<1>6. LogCopiesVotes
  <2>1. /\ execSeq \in [Replica -> 1 .. MaxSeq + 1]
        /\ applying \in [Replica -> SUBSET SeqNo]
    BY DEF TypeInv, TypeOK
  <2>2. ExecutionEffect(m.to, slots, applying[m.to])
    BY <1>1, <1>2, <1>4, <1>5, <2>1, TryExecuteEffect
  <2>3. \A t \in SeqNo : /\ slots[t].prepares = log[m.to][t].prepares
                         /\ slots[t].prepareCert = log[m.to][t].prepareCert
    BY <1>3, <1>5
  <2>4. QED
    BY <1>1, <2>2, <2>3, ExecutingUnvoted
<1>7. \A n \in certs : n.type = "COMMIT_CERT"
  BY DEF CertMsg
<1> HIDE DEF certs
<1>8. SendsCopies /\ SendsUp
  BY <1>4, <1>7 DEF SendsCopies, SendsUp
<1>9. QED
  BY <1>6, <1>8 DEF CopiesVotes

LEMMA CopiesOnCommitCert ==
    ASSUME TypeInv, NEW m \in net, OnCommitCert(m)
    PROVE  CopiesVotes /\ SendsUp
<1> DEFINE st    == log[m.to][m.seq]
           new   == [st EXCEPT !.commitCert = m.sigs]
           slots == [log[m.to] EXCEPT ![m.seq] = new]
<1>1. m.to \in Replica /\ m.seq \in SeqNo /\ m.sigs \in SUBSET Replica
  BY MessageFields DEF OnCommitCert, TypeInv, TypeOK
<1>2. /\ log \in [Replica -> [SeqNo -> Slot]] /\ st \in Slot
      /\ applying[m.to] \in SUBSET SeqNo
  BY <1>1 DEF TypeInv, TypeOK
<1>3. /\ new \in Slot
      /\ new.prepares = log[m.to][m.seq].prepares
      /\ new.prepareCert = log[m.to][m.seq].prepareCert
  BY <1>1, <1>2 DEF Slot
<1>4. TryExecute(m.to, slots, execSeq[m.to], applying[m.to])
  BY <1>1, <1>2 DEF OnCommitCert
<1> HIDE DEF new
<1>5. /\ slots \in [SeqNo -> Slot]
      /\ slots[m.seq] = new
      /\ \A t \in SeqNo : t # m.seq => slots[t] = log[m.to][t]
  BY <1>1, <1>2, <1>3, SlotPassed
<1> HIDE DEF slots
<1>6. LogCopiesVotes
  <2>1. /\ execSeq \in [Replica -> 1 .. MaxSeq + 1]
        /\ applying \in [Replica -> SUBSET SeqNo]
    BY DEF TypeInv, TypeOK
  <2>2. ExecutionEffect(m.to, slots, applying[m.to])
    BY <1>1, <1>2, <1>4, <1>5, <2>1, TryExecuteEffect
  <2>3. \A t \in SeqNo : /\ slots[t].prepares = log[m.to][t].prepares
                         /\ slots[t].prepareCert = log[m.to][t].prepareCert
    BY <1>3, <1>5
  <2>4. QED
    BY <1>1, <2>2, <2>3, ExecutingUnvoted
<1>7. SendsCopies /\ SendsUp
  BY DEF OnCommitCert, SendsCopies, SendsUp
<1>8. QED
  BY <1>6, <1>7 DEF CopiesVotes

LEMMA CopiesApply ==
    ASSUME TypeInv, NEW r \in Replica, NEW s \in SeqNo, Apply(r, s)
    PROVE  CopiesVotes /\ SendsUp
<1>1. /\ log[r] \in [SeqNo -> Slot] /\ log[r][s] \in Slot
      /\ applying[r] \ {s} \in SUBSET SeqNo
  BY DEF TypeInv, TypeOK
<1>2. /\ TryExecute(r, log[r], execSeq[r], applying[r] \ {s})
      /\ net' = net
  BY DEF Apply
<1>3. LogCopiesVotes
  <2>1. /\ log \in [Replica -> [SeqNo -> Slot]]
        /\ execSeq \in [Replica -> 1 .. MaxSeq + 1]
        /\ applying \in [Replica -> SUBSET SeqNo]
    BY DEF TypeInv, TypeOK
  <2>2. ExecutionEffect(r, log[r], applying[r] \ {s})
    BY <1>1, <1>2, <2>1, TryExecuteEffect
  <2>3. QED
    BY <2>2, ExecutingUnvoted
<1>4. QED
  BY <1>2, <1>3 DEF CopiesVotes, SendsCopies, SendsUp

\* The proposals of a step contain no vote.
LEMMA CopiesProposed ==
    ASSUME TypeInv, NEW r \in Replica, NEW s \in SeqNo, NEW req \in Request,
           log' = [log EXCEPT ![r][s] = Proposed(req)],
           \A m \in net' \ net : m.type = "PRE_PREPARE"
    PROVE  CopiesVotes
<1>1. Proposed(req) \in Slot
  BY SlotTypes
<1>2. Proposed(req).prepares \cup Proposed(req).prepareCert = {}
  BY DEF Proposed, EmptySlot
<1>3. LogCopiesVotes
  BY <1>1, <1>2, OneSlotVoted
<1>4. QED
  BY <1>3 DEF CopiesVotes, SendsCopies

StopsTasks == \A r \in Replica : tasks'[r] \subseteq tasks[r]

\* Every step but a vote copies votes, and only proposals start tasks.
LEMMA VotesCopied ==
    ASSUME TypeInv, LocksInv, [Next]_vars, reclaims' = 0
    PROVE  \/ \E req \in Request : StartConsensus(req)
           \/ \E m \in net : OnPrePrepare(m)
           \/ \E r \in Replica : \E t \in tasks[r] : LockAndPrepare(r, t)
           \/ CopiesVotes /\ SendsUp /\ StopsTasks
<1>1. ASSUME log' = log, net' \subseteq net
      PROVE  CopiesVotes /\ SendsUp
  <2>1. net' \ net = {}
    BY <1>1
  <2>2. QED
    BY <1>1, <2>1, LogUnvoted DEF CopiesVotes, SendsCopies, SendsUp
<1>2. ASSUME NEW m \in net, Handle(m)
      PROVE  OnPrePrepare(m) \/ (CopiesVotes /\ SendsUp /\ StopsTasks)
  <2>1. ~OnDiscardSeq(m)
    BY DEF OnDiscardSeq, LocksInv, NoDiscards
  <2>2. CASE Ignore(m)
    BY <1>1, <2>2 DEF Ignore, StopsTasks
  <2>3. CASE OnPrepare(m)
    BY <2>3, CopiesOnPrepare DEF OnPrepare, StopsTasks
  <2>4. CASE OnPrepareCert(m)
    BY <2>4, CopiesOnPrepareCert DEF OnPrepareCert, StopsTasks
  <2>5. CASE OnCommit(m)
    BY <2>5, CopiesOnCommit DEF OnCommit, StopsTasks
  <2>6. CASE OnDecidingCommit(m)
    BY <2>6, CopiesOnDecidingCommit DEF OnDecidingCommit, StopsTasks
  <2>7. CASE OnCommitCert(m)
    BY <2>7, CopiesOnCommitCert DEF OnCommitCert, StopsTasks
  <2>8. QED
    BY <1>2, <2>1, <2>2, <2>3, <2>4, <2>5, <2>6, <2>7 DEF Handle
<1>3. ASSUME NEW req \in Request, StartSelfTransfer(req)
      PROVE  CopiesVotes /\ SendsUp /\ StopsTasks
  BY <1>1, <1>3 DEF StartSelfTransfer, StopsTasks
<1>4. ASSUME NEW r \in Replica, NEW t \in tasks[r], LockWaitExpires(r, t)
      PROVE  CopiesVotes /\ SendsUp /\ StopsTasks
  <2>1. StopsTasks
    BY <1>4 DEF LockWaitExpires, StopsTasks, TypeInv, TypeOK
  <2>2. QED
    BY <1>1, <1>4, <2>1 DEF LockWaitExpires
<1>5. ASSUME NEW r \in Replica, NEW s \in SeqNo, Apply(r, s)
      PROVE  CopiesVotes /\ SendsUp /\ StopsTasks
  BY <1>5, CopiesApply DEF Apply, StopsTasks
<1>6. ASSUME NEW s \in SeqNo, Reclaim(s)
      PROVE  FALSE
  BY <1>6 DEF Reclaim, TypeInv, TypeOK
<1>7. ASSUME UNCHANGED vars
      PROVE  CopiesVotes /\ SendsUp /\ StopsTasks
  BY <1>1, <1>7 DEF vars, StopsTasks
<1>8. CASE Next
  <2>1. \/ \E req \in Request : StartConsensus(req) \/ StartSelfTransfer(req)
        \/ \E m \in net : Handle(m)
        \/ \E r \in Replica : \E t \in tasks[r] : LockAndPrepare(r, t) \/ LockWaitExpires(r, t)
        \/ \E r \in Replica : \E s \in SeqNo : Apply(r, s)
        \/ \E s \in SeqNo : Reclaim(s)
    BY <1>8 DEF Next
  <2>2. QED
    BY <1>2, <1>3, <1>4, <1>5, <1>6, <2>1
<1>9. QED
  BY <1>7, <1>8

(***************************************************************************)
(* The invariant of votes.                                                 *)
(***************************************************************************)
LEMMA VotesStartConsensus ==
    ASSUME TypeInv, TypeInv', RefinementInv, LocksInv, CertsInv, VotesInv,
           NEW req \in Request, StartConsensus(req)
    PROVE  VotesInv' /\ CopiesVotes
<1>1. /\ Primary \in Replica /\ nextSeq \in SeqNo
      /\ ~log[Primary][nextSeq].prePrepare
      /\ OnlyProposes(Primary, nextSeq, req)
  BY StartProposes
<1>2. /\ log' = [log EXCEPT ![Primary][nextSeq] = Proposed(req)]
      /\ lock' = [lock EXCEPT ![Primary] = Acquired(Primary, nextSeq, req)]
      /\ tasks' = [tasks EXCEPT ![Primary] = TaskFor(Primary, nextSeq, req)]
      /\ Primary \in Up
  BY DEF StartConsensus, Startable
<1>3. \A m \in net' \ net : m.type = "PRE_PREPARE" /\ m.to \in Up
  BY DEF StartConsensus, PrePrepareMsg
<1>4. CopiesVotes
  BY <1>1, <1>2, <1>3, CopiesProposed
<1>5. /\ log'[Primary][nextSeq].prePrepare
      /\ log'[Primary][nextSeq].req = req
      /\ \A q \in Replica : \A t \in SeqNo :
           q # Primary \/ t # nextSeq => log'[q][t] = log[q][t]
  BY <1>1 DEF OnlyProposes, Proposed, EmptySlot
<1>6. SlotsUp'
  <2>1. \A q \in Replica : \A t \in SeqNo : log'[q][t].prePrepare => q \in Up
    BY <1>2, <1>5 DEF VotesInv, SlotsUp
  <2>2. \A m \in net' : m.type = "PRE_PREPARE" => m.to \in Up
    BY <1>3 DEF VotesInv, SlotsUp
  <2>3. QED
    BY <2>1, <2>2 DEF SlotsUp
<1>7. TasksUnvoted'
  <2> SUFFICES ASSUME NEW q \in Replica, NEW t \in tasks'[q]
               PROVE  ~Voted(q, t[1])'
    BY DEF TasksUnvoted
  <2>1. /\ tasks \in [Replica -> SUBSET (SeqNo \X Request)]
        /\ tasks' \in [Replica -> SUBSET (SeqNo \X Request)]
    BY DEF TypeInv, TypeOK
  <2>2. t[1] \in SeqNo
    BY <2>1
  <2>3. ~Voted(q, t[1])
    <3>1. CASE q = Primary
      <4>1. t = <<nextSeq, req>>
        BY <1>2, <2>1, <3>1 DEF TaskFor
      <4>2. t[1] = nextSeq
        BY <4>1
      <4>3. QED
        BY <1>1, <3>1, <4>2, VotedAccepted
    <3>2. CASE q # Primary
      BY <1>2, <2>1, <3>2 DEF VotesInv, TasksUnvoted
    <3>3. QED
      BY <3>1, <3>2
  <2>4. QED
    BY <1>4, <2>2, <2>3, NoNewVotes
<1>8. OwnersKnown'
  <2> SUFFICES ASSUME NEW q \in Replica, NEW i \in Item, lock'[q][i] # 0
               PROVE  /\ log'[q][lock'[q][i]].prePrepare
                      /\ i \in LockItems(log'[q][lock'[q][i]].req)
    BY DEF OwnersKnown
  <2>1. lock \in [Replica -> [Item -> SeqNo \cup {0}]]
    BY DEF TypeInv, TypeOK
  <2>2. \/ lock'[q][i] = lock[q][i]
        \/ q = Primary /\ lock'[q][i] = nextSeq /\ i \in LockItems(req)
    BY <1>1, <1>2, <2>1 DEF Acquired
  <2>3. CASE lock'[q][i] = lock[q][i]
    <3>1. PICK t \in SeqNo : t = lock[q][i]
      BY <2>1, <2>3
    <3>2. log[q][t].prePrepare /\ i \in LockItems(log[q][t].req)
      BY <2>3, <3>1 DEF VotesInv, OwnersKnown
    <3>3. log'[q][t] = log[q][t]
      BY <1>1, <1>5, <3>2
    <3>4. QED
      BY <2>3, <3>1, <3>2, <3>3
  <2>4. CASE q = Primary /\ lock'[q][i] = nextSeq /\ i \in LockItems(req)
    BY <1>5, <2>4
  <2>5. QED
    BY <2>2, <2>3, <2>4
<1>9. QED
  BY <1>4, <1>6, <1>7, <1>8 DEF VotesInv

LEMMA VotesOnPrePrepare ==
    ASSUME TypeInv, TypeInv', RefinementInv, LocksInv, CertsInv, VotesInv,
           NEW m \in net, OnPrePrepare(m)
    PROVE  VotesInv' /\ CopiesVotes
<1>1. /\ m.to \in Replica /\ m.seq \in SeqNo /\ m.req \in Request
      /\ ~log[m.to][m.seq].prePrepare
      /\ OnlyProposes(m.to, m.seq, m.req)
  BY PrePrepareProposes
<1>2. /\ log' = [log EXCEPT ![m.to][m.seq] = Proposed(m.req)]
      /\ lock' = lock
      /\ tasks' = [tasks EXCEPT ![m.to] = @ \cup TaskFor(m.to, m.seq, m.req)]
      /\ m.to \in Up
  BY DEF OnPrePrepare, VotesInv, SlotsUp
<1>3. net' \ net = {} /\ net' \subseteq net
  BY DEF OnPrePrepare
<1>4. CopiesVotes
  BY <1>1, <1>2, <1>3, CopiesProposed
<1>5. \A q \in Replica : \A t \in SeqNo :
        q # m.to \/ t # m.seq => log'[q][t] = log[q][t]
  BY <1>1 DEF OnlyProposes
<1>6. SlotsUp'
  <2>1. \A q \in Replica : \A t \in SeqNo : log'[q][t].prePrepare => q \in Up
    BY <1>2, <1>5 DEF VotesInv, SlotsUp
  <2>2. \A n \in net' : n.type = "PRE_PREPARE" => n.to \in Up
    BY <1>3 DEF VotesInv, SlotsUp
  <2>3. QED
    BY <2>1, <2>2 DEF SlotsUp
<1>7. TasksUnvoted'
  <2> SUFFICES ASSUME NEW q \in Replica, NEW t \in tasks'[q]
               PROVE  ~Voted(q, t[1])'
    BY DEF TasksUnvoted
  <2>1. /\ tasks \in [Replica -> SUBSET (SeqNo \X Request)]
        /\ tasks' \in [Replica -> SUBSET (SeqNo \X Request)]
    BY DEF TypeInv, TypeOK
  <2>2. t[1] \in SeqNo
    BY <2>1
  <2>3. ~Voted(q, t[1])
    <3>1. t \in tasks[q] \/ (q = m.to /\ t = <<m.seq, m.req>>)
      BY <1>1, <1>2, <2>1 DEF TaskFor
    <3>2. CASE t \in tasks[q]
      BY <3>2 DEF VotesInv, TasksUnvoted
    <3>3. CASE q = m.to /\ t = <<m.seq, m.req>>
      <4>1. t[1] = m.seq
        BY <3>3
      <4>2. QED
        BY <1>1, <3>3, <4>1, VotedAccepted
    <3>4. QED
      BY <3>1, <3>2, <3>3
  <2>4. QED
    BY <1>4, <2>2, <2>3, NoNewVotes
<1>8. OwnersKnown'
  <2> SUFFICES ASSUME NEW q \in Replica, NEW i \in Item, lock[q][i] # 0
               PROVE  /\ log'[q][lock[q][i]].prePrepare
                      /\ i \in LockItems(log'[q][lock[q][i]].req)
    BY <1>2 DEF OwnersKnown
  <2>1. PICK t \in SeqNo : t = lock[q][i]
    BY DEF TypeInv, TypeOK
  <2>2. log[q][t].prePrepare /\ i \in LockItems(log[q][t].req)
    BY <2>1 DEF VotesInv, OwnersKnown
  <2>3. log'[q][t] = log[q][t]
    BY <1>1, <1>5, <2>2
  <2>4. QED
    BY <2>1, <2>2, <2>3
<1>9. QED
  BY <1>4, <1>6, <1>7, <1>8 DEF VotesInv

\* A vote: the task that it ends was the only one for its slot.
LEMMA VotesLockAndPrepare ==
    ASSUME TypeInv, CertsInv, VotesInv, NEW r \in Replica, NEW t \in tasks[r],
           LockAndPrepare(r, t)
    PROVE  /\ VotesInv'
           /\ t[1] \in SeqNo /\ log[r][t[1]].prePrepare /\ log[r][t[1]].req = t[2]
           /\ \A q \in Replica : \A s \in SeqNo :
                Voted(q, s)' => Voted(q, s) \/ (q = r /\ s = t[1])
<1>1. /\ tasks \in [Replica -> SUBSET (SeqNo \X Request)]
      /\ lock \in [Replica -> [Item -> SeqNo \cup {0}]]
  BY DEF TypeInv, TypeOK
<1>2. t[1] \in SeqNo /\ t[2] \in Request /\ t = <<t[1], t[2]>>
  BY <1>1
<1>3. log[r][t[1]].prePrepare /\ log[r][t[1]].req = t[2]
  BY DEF CertsInv, TasksAccepted, Accepted
<1>4. PICK s \in SeqNo, req \in Request : s = t[1] /\ req = t[2]
  BY <1>2
<1>5. /\ lock' = [lock EXCEPT ![r] = Acquired(r, s, req)]
      /\ tasks' = [tasks EXCEPT ![r] = @ \ {t}]
      /\ net' = net \cup {VoteMsg("PREPARE", r, s, req)}
      /\ log' = log
  BY <1>4 DEF LockAndPrepare
<1>6. /\ VoteMsg("PREPARE", r, s, req).type = "PREPARE"
      /\ VoteMsg("PREPARE", r, s, req).from = r
      /\ VoteMsg("PREPARE", r, s, req).seq = s
  BY DEF VoteMsg
<1>7. \A q \in Replica : \A u \in SeqNo :
        Voted(q, u)' => Voted(q, u) \/ (q = r /\ u = s)
  BY <1>5, <1>6 DEF Voted
<1>8. SlotsUp'
  BY <1>5, <1>6 DEF VotesInv, SlotsUp
<1>9. TasksUnvoted'
  <2> SUFFICES ASSUME NEW q \in Replica, NEW u \in tasks'[q]
               PROVE  ~Voted(q, u[1])'
    BY DEF TasksUnvoted
  <2>1. u \in tasks[q] /\ (q = r => u # t)
    BY <1>1, <1>5
  <2>2. u[1] \in SeqNo /\ u[2] \in Request /\ u = <<u[1], u[2]>>
    BY <1>1, <2>1
  <2>3. log[q][u[1]].req = u[2]
    BY <2>1 DEF CertsInv, TasksAccepted, Accepted
  <2>4. q = r => u[1] # s
    BY <1>2, <1>3, <1>4, <2>1, <2>2, <2>3
  <2>5. ~Voted(q, u[1])
    BY <2>1 DEF VotesInv, TasksUnvoted
  <2>6. QED
    BY <1>7, <2>2, <2>4, <2>5
<1>10. OwnersKnown'
  <2> SUFFICES ASSUME NEW q \in Replica, NEW i \in Item, lock'[q][i] # 0
               PROVE  /\ log[q][lock'[q][i]].prePrepare
                      /\ i \in LockItems(log[q][lock'[q][i]].req)
    BY <1>5 DEF OwnersKnown
  <2>1. \/ lock'[q][i] = lock[q][i]
        \/ q = r /\ lock'[q][i] = s /\ i \in LockItems(req)
    BY <1>1, <1>5 DEF Acquired
  <2>2. QED
    BY <1>3, <1>4, <2>1 DEF VotesInv, OwnersKnown
<1>11. QED
  BY <1>2, <1>3, <1>4, <1>7, <1>8, <1>9, <1>10 DEF VotesInv

\* Every other step, where it takes no lock.
LEMMA VotesCopying ==
    ASSUME TypeInv, LocksInv, VotesInv, CopiesVotes, SendsUp, StopsTasks,
           NEW r \in Replica, NEW claims \in SUBSET applying[r], Runs(r, claims),
           \A q \in Replica : \A i \in Item : lock'[q][i] \in {0, lock[q][i]}
    PROVE  VotesInv'
<1>1. \A q \in Replica : \A s \in SeqNo :
        /\ log'[q][s].req = log[q][s].req
        /\ log'[q][s].prePrepare = log[q][s].prePrepare
  BY AppliedKept DEF LocksInv
<1>2. SlotsUp'
  BY <1>1 DEF VotesInv, SlotsUp, SendsUp
<1>3. TasksUnvoted'
  <2>1. \A q \in Replica : \A t \in tasks'[q] : t[1] \in SeqNo /\ ~Voted(q, t[1])
    BY DEF TypeInv, TypeOK, StopsTasks, VotesInv, TasksUnvoted
  <2>2. QED
    BY <2>1, NoNewVotes DEF TasksUnvoted
<1>4. OwnersKnown'
  <2> SUFFICES ASSUME NEW q \in Replica, NEW i \in Item, lock'[q][i] # 0
               PROVE  /\ log'[q][lock'[q][i]].prePrepare
                      /\ i \in LockItems(log'[q][lock'[q][i]].req)
    BY DEF OwnersKnown
  <2>1. lock'[q][i] = lock[q][i] /\ lock[q][i] # 0
    OBVIOUS
  <2>2. PICK t \in SeqNo : t = lock[q][i]
    BY <2>1 DEF TypeInv, TypeOK
  <2>3. QED
    BY <1>1, <2>1, <2>2 DEF VotesInv, OwnersKnown
<1>5. QED
  BY <1>2, <1>3, <1>4 DEF VotesInv

-----------------------------------------------------------------------------
(***************************************************************************)
(* Where no more replicas are up than a quorum needs, every certificate    *)
(* carries the votes of all of them: a slot that is executed waits for no  *)
(* locks anywhere, and holds those of its items until it is applied.       *)
(***************************************************************************)
ExactQuorum == IsFiniteSet(Up) /\ Cardinality(Up) <= Quorum

\* A slot that its replica has voted on keeps its locks until it is applied.
VotesHold == \A r \in Replica : \A s \in SeqNo :
    Voted(r, s) /\ ~Applied(r, s) => \A i \in LockItems(log[r][s].req) : lock[r][i] = s

\* Of two slots that share an item, the earlier one is applied first.
ContendersInOrder == \A r \in Replica : \A s, t \in SeqNo :
    (/\ s < t /\ Applied(r, t) /\ s \in applying[r])
        => LockItems(log[r][s].req) \cap LockItems(log[r][t].req) = {}

HoldInv == VotesHold /\ LocksReleasedAfterCommit /\ ContendersInOrder

LEMMA ExecutedVoted ==
    ASSUME ExactQuorum, TypeInv, RefinementInv, CertsInv, VotesInv,
           NEW r \in Replica, NEW s \in SeqNo, log[r][s].executed
    PROVE  Voted(r, s) /\ log[r][s].prePrepare
<1>1. Committed(r, s) /\ log[r][s].prePrepare
  BY UnclaimedUnlessLive DEF RefinementInv, ClaimsBehindCursor
<1>2. r \in Up
  BY <1>1 DEF VotesInv, SlotsUp
<1>3. SlotBacked(log[r][s], s) /\ log[r][s].commitCert \subseteq Replica
  BY DEF CertsInv, TypeInv, TypeOK, Slot
<1>4. PICK q \in Replica : Prepared(q, s, log[r][s].req)
  <2>1. PICK q : q \in log[r][s].commitCert
    BY <1>1 DEF Committed
  <2>2. QED
    BY <1>1, <1>3, <2>1 DEF SlotBacked, AllPrepared, Committed
<1>5. PICK cert \in SUBSET Replica : cert = log[q][s].prepareCert
  BY DEF TypeInv, TypeOK, Slot
<1>6. /\ Cardinality(cert) >= Quorum
      /\ \A v \in cert : log[v][s].prePrepare
  BY <1>4, <1>5 DEF Prepared, AllAccepted, Accepted
<1>7. cert \in SUBSET Up
  BY <1>6 DEF VotesInv, SlotsUp
<1>8. /\ Cardinality(cert) <= Cardinality(Up)
      /\ Cardinality(Up) = Cardinality(cert) => Up = cert
      /\ Cardinality(cert) \in Nat /\ Cardinality(Up) \in Nat
  <2>1. IsFiniteSet(Up) /\ IsFiniteSet(cert)
    BY <1>7, FS_Subset DEF ExactQuorum
  <2>2. QED
    BY <1>7, <2>1, FS_Subset, FS_CardinalityType
<1>9. Quorum \in Nat
  BY FaultAssumption DEF Quorum
<1>10. Up = cert
  BY <1>6, <1>8, <1>9 DEF ExactQuorum
<1>11. QED
  BY <1>1, <1>2, <1>4, <1>5, <1>10 DEF Voted

\* Slots that are voted on and not applied share no item.
LEMMA VotedDisjoint ==
    ASSUME VotesHold, NEW r \in Replica, NEW s \in SeqNo, NEW t \in SeqNo, s # t,
           Voted(r, s), ~Applied(r, s), Voted(r, t), ~Applied(r, t)
    PROVE  LockItems(log[r][s].req) \cap LockItems(log[r][t].req) = {}
BY DEF VotesHold

\* Claims are made in ascending order.
LEMMA OrderKept ==
    ASSUME TypeInv, RefinementInv, LocksInv, NEW r \in Replica,
           NEW claims \in SUBSET applying[r], Runs(r, claims),
           NEW q \in Replica, NEW s \in SeqNo, NEW t \in SeqNo, s < t,
           log[q][t].executed, s \in applying'[q]
    PROVE  s \in applying[q]
<1>1. \E c \in SUBSET applying[q] : SlotRuns(q, s, c)
  BY DEF Runs
<1>2. CASE ~log[q][s].executed
  <2>1. ~(s < execSeq[q]) /\ t < execSeq[q]
    BY <1>2 DEF LocksInv, CursorPassesClaimed, RefinementInv, ClaimsBehindCursor
  <2>2. execSeq[q] \in Int /\ s \in Int /\ t \in Int
    BY DEF TypeInv, TypeOK, SeqNo
  <2>3. QED
    BY <2>1, <2>2
<1>3. CASE log[q][s].executed
  BY <1>1, <1>3 DEF SlotRuns
<1>4. QED
  BY <1>2, <1>3

LEMMA HoldQuiet ==
    ASSUME TypeInv, RefinementInv, LocksInv, HoldInv, CopiesVotes, NEW r \in Replica,
           Runs(r, applying[r]), lock' = lock
    PROVE  HoldInv'
<1>1. \A q \in Replica : \A s \in SeqNo :
        /\ Applied(q, s)' <=> Applied(q, s)
        /\ log'[q][s].req = log[q][s].req
  <2>1. AppliesClaimed /\ applying[r] \in SUBSET applying[r]
    BY DEF LocksInv
  <2>2. QED
    BY <2>1, AppliedKept
<1>2. VotesHold'
  BY <1>1, NoNewVotes DEF HoldInv, VotesHold
<1>3. LocksReleasedAfterCommit'
  BY <1>1 DEF HoldInv, LocksReleasedAfterCommit
<1>4. ContendersInOrder'
  <2> SUFFICES ASSUME NEW q \in Replica, NEW s \in SeqNo, NEW t \in SeqNo, s < t,
                      Applied(q, t)', s \in applying'[q]
               PROVE  LockItems(log'[q][s].req) \cap LockItems(log'[q][t].req) = {}
    BY DEF ContendersInOrder
  <2>1. Applied(q, t) /\ log[q][t].executed
    BY <1>1 DEF Applied
  <2>2. s \in applying[q]
    BY <2>1, OrderKept
  <2>3. QED
    BY <1>1, <2>1, <2>2 DEF HoldInv, ContendersInOrder
<1>5. QED
  BY <1>2, <1>3, <1>4 DEF HoldInv

\* A proposal for slot s of replica r, which may take free locks.
LEMMA HoldProposed ==
    ASSUME TypeInv, RefinementInv, LocksInv, CertsInv, HoldInv, CopiesVotes,
           NEW r \in Replica, NEW s \in SeqNo,
           NEW req \in Request, ~log[r][s].prePrepare, OnlyProposes(r, s, req),
           applying' = applying,
           \A q \in Replica : \A i \in Item :
               \/ lock'[q][i] = lock[q][i]
               \/ q = r /\ lock[q][i] = 0 /\ lock'[q][i] = s
    PROVE  HoldInv'
<1>1. \A q \in Replica : \A t \in SeqNo :
        /\ Applied(q, t)' <=> Applied(q, t)
        /\ Applied(q, t) => log'[q][t] = log[q][t]
  BY AppliedUnlessProposed
<1>2. \A q \in Replica : \A t \in SeqNo :
        q # r \/ t # s => log'[q][t] = log[q][t]
  BY DEF OnlyProposes
<1>3. VotesHold'
  <2> SUFFICES ASSUME NEW q \in Replica, NEW t \in SeqNo, Voted(q, t)', ~Applied(q, t)',
                      NEW i \in LockItems(log'[q][t].req)
               PROVE  lock'[q][i] = t
    BY DEF VotesHold
  <2>1. Voted(q, t) /\ ~Applied(q, t)
    BY <1>1, NoNewVotes
  <2>2. log[q][t].prePrepare
    BY <2>1, VotedAccepted
  <2>3. log'[q][t] = log[q][t]
    BY <1>2, <2>2
  <2>4. lock[q][i] = t
    BY <2>1, <2>3 DEF HoldInv, VotesHold
  <2>5. i \in Item /\ t # 0
    BY <2>2, <2>3, LiveRequests, RequestFields DEF LockItems, SeqNo
  <2>6. QED
    BY <2>4, <2>5
<1>4. LocksReleasedAfterCommit'
  <2> SUFFICES ASSUME NEW q \in Replica, NEW t \in SeqNo, Applied(q, t), NEW i \in Item
               PROVE  lock'[q][i] # t
    BY <1>1 DEF LocksReleasedAfterCommit
  <2>1. lock[q][i] # t
    BY DEF HoldInv, LocksReleasedAfterCommit
  <2>2. log[q][t].prePrepare
    BY UnclaimedUnlessLive DEF Applied
  <2>3. QED
    BY <2>1, <2>2
<1>5. ContendersInOrder'
  <2> SUFFICES ASSUME NEW q \in Replica, NEW u \in SeqNo, NEW t \in SeqNo, u < t,
                      Applied(q, t), u \in applying[q]
               PROVE  LockItems(log'[q][u].req) \cap LockItems(log'[q][t].req) = {}
    BY <1>1 DEF ContendersInOrder
  <2>1. log[q][u].executed
    BY DEF LocksInv, AppliesClaimed
  <2>2. log[q][u].prePrepare
    BY <2>1, UnclaimedUnlessLive
  <2>3. log'[q][u] = log[q][u] /\ log'[q][t] = log[q][t]
    BY <1>1, <1>2, <2>2
  <2>4. QED
    BY <2>3 DEF HoldInv, ContendersInOrder
<1>6. QED
  BY <1>3, <1>4, <1>5 DEF HoldInv

\* processPrePrepare takes its locks before the slot can be executed.
LEMMA HoldLockAndPrepare ==
    ASSUME ExactQuorum, TypeInv, RefinementInv, LocksInv, CertsInv, VotesInv, HoldInv,
           NEW r \in Replica, NEW t \in tasks[r], LockAndPrepare(r, t)
    PROVE  HoldInv'
<1>1. /\ t[1] \in SeqNo /\ log[r][t[1]].prePrepare /\ log[r][t[1]].req = t[2]
      /\ \A q \in Replica : \A s \in SeqNo :
           Voted(q, s)' => Voted(q, s) \/ (q = r /\ s = t[1])
  BY VotesLockAndPrepare
<1>2. PICK s \in SeqNo : s = t[1]
  BY <1>1
<1>3. PICK req \in Request : req = log[r][s].req
  BY <1>1, <1>2, LiveRequests
<1>4. /\ lock' = [lock EXCEPT ![r] = Acquired(r, s, req)]
      /\ \A i \in LockItems(req) : lock[r][i] \in {0, s}
      /\ log' = log /\ applying' = applying
  BY <1>1, <1>2, <1>3 DEF LockAndPrepare, LocksReadyForSeq
<1>5. /\ lock \in [Replica -> [Item -> SeqNo \cup {0}]]
      /\ LockItems(req) \subseteq Item
  BY RequestFields DEF TypeInv, TypeOK, LockItems
<1>6. /\ \A q \in Replica \ {r} : lock'[q] = lock[q]
      /\ \A i \in Item : i \in LockItems(req) => lock'[r][i] = s
      /\ \A i \in Item : i \notin LockItems(req) => lock'[r][i] = lock[r][i]
  BY <1>4, <1>5 DEF Acquired
<1>7. ~log[r][s].executed
  <2>1. ~Voted(r, s)
    BY <1>2 DEF VotesInv, TasksUnvoted
  <2>2. QED
    BY <2>1, ExecutedVoted
<1>8. \A q \in Replica : \A u \in SeqNo : Applied(q, u)' <=> Applied(q, u)
  BY <1>4 DEF Applied
<1>9. VotesHold'
  <2> SUFFICES ASSUME NEW q \in Replica, NEW u \in SeqNo, Voted(q, u)', ~Applied(q, u),
                      NEW i \in LockItems(log[q][u].req)
               PROVE  lock'[q][i] = u
    BY <1>4, <1>8 DEF VotesHold
  <2>1. CASE q = r /\ u = s
    BY <1>3, <1>5, <1>6, <2>1
  <2>2. CASE ~(q = r /\ u = s)
    <3>1. Voted(q, u)
      BY <1>1, <1>2, <2>2
    <3>2. lock[q][i] = u /\ u # 0
      BY <3>1 DEF HoldInv, VotesHold, SeqNo
    <3>3. log[q][u].prePrepare
      BY <3>1, VotedAccepted
    <3>4. i \in Item
      BY <3>3, LiveRequests, RequestFields DEF LockItems
    <3>5. QED
      BY <1>4, <1>6, <2>2, <3>2, <3>4
  <2>3. QED
    BY <2>1, <2>2
<1>10. LocksReleasedAfterCommit'
  <2> SUFFICES ASSUME NEW q \in Replica, NEW u \in SeqNo, Applied(q, u), NEW i \in Item
               PROVE  lock'[q][i] # u
    BY <1>8 DEF LocksReleasedAfterCommit
  <2>1. lock[q][i] # u
    BY DEF HoldInv, LocksReleasedAfterCommit
  <2>2. q = r => u # s
    BY <1>7 DEF Applied
  <2>3. QED
    BY <1>6, <2>1, <2>2
<1>11. ContendersInOrder'
  BY <1>4, <1>8 DEF HoldInv, ContendersInOrder
<1>12. QED
  BY <1>9, <1>10, <1>11 DEF HoldInv

\* executeIntra: ReleaseLock does not look at the owner, but the slot owns
\* the locks of its items.
LEMMA HoldApply ==
    ASSUME ExactQuorum, TypeInv, RefinementInv, LocksInv, CertsInv, VotesInv, HoldInv,
           NEW r \in Replica, NEW s \in SeqNo, Apply(r, s)
    PROVE  HoldInv'
<1>1. /\ s \in applying[r] /\ log[r][s].executed
      /\ applying[r] \ {s} \in SUBSET applying[r]
      /\ Runs(r, applying[r] \ {s})
  BY ApplyRuns
<1>2. AppliesClaimed /\ CopiesVotes
  BY CopiesApply DEF LocksInv
<1>3. \A q \in Replica : \A u \in SeqNo :
        /\ Applied(q, u)' <=> Applied(q, u) \/ (q = r /\ u \in {s})
        /\ log'[q][u].req = log[q][u].req
  <2>1. applying[r] \ (applying[r] \ {s}) = {s}
    BY <1>1
  <2>2. QED
    BY <1>1, <1>2, <2>1, AppliedKept
<1>4. /\ lock \in [Replica -> [Item -> SeqNo \cup {0}]]
      /\ lock' = [lock EXCEPT ![r] = Released(r, log[r][s].req)]
  BY DEF TypeInv, TypeOK, Apply
<1>5. /\ \A q \in Replica \ {r} : lock'[q] = lock[q]
      /\ \A i \in Item : i \in LockItems(log[r][s].req) => lock'[r][i] = 0
      /\ \A i \in Item : i \notin LockItems(log[r][s].req) => lock'[r][i] = lock[r][i]
  BY <1>4 DEF Released
<1>6. Voted(r, s) /\ ~Applied(r, s)
  BY <1>1, ExecutedVoted DEF Applied
<1>7. VotesHold'
  <2> SUFFICES ASSUME NEW q \in Replica, NEW u \in SeqNo, Voted(q, u)', ~Applied(q, u)',
                      NEW i \in LockItems(log[q][u].req)
               PROVE  lock'[q][i] = u
    BY <1>3 DEF VotesHold
  <2>1. Voted(q, u) /\ ~Applied(q, u) /\ (q = r => u # s)
    BY <1>2, <1>3, NoNewVotes
  <2>2. lock[q][i] = u
    BY <2>1 DEF HoldInv, VotesHold
  <2>3. i \in Item
    <3>1. log[q][u].prePrepare
      BY <2>1, VotedAccepted
    <3>2. QED
      BY <3>1, LiveRequests, RequestFields DEF LockItems
  <2>4. q = r => i \notin LockItems(log[r][s].req)
    BY <1>6, <2>1, <2>2 DEF HoldInv, VotesHold
  <2>5. QED
    BY <1>5, <2>2, <2>3, <2>4
<1>8. LocksReleasedAfterCommit'
  <2> SUFFICES ASSUME NEW q \in Replica, NEW u \in SeqNo, Applied(q, u)', NEW i \in Item,
                      lock'[q][i] = u
               PROVE  FALSE
    BY DEF LocksReleasedAfterCommit
  <2>1. lock[q][i] = u /\ u # 0 /\ (q = r => i \notin LockItems(log[r][s].req))
    BY <1>5 DEF SeqNo
  <2>2. CASE Applied(q, u)
    BY <2>1, <2>2 DEF HoldInv, LocksReleasedAfterCommit
  <2>3. CASE q = r /\ u = s
    BY <2>1, <2>3 DEF VotesInv, OwnersKnown
  <2>4. QED
    BY <1>3, <2>2, <2>3
<1>9. ContendersInOrder'
  <2> SUFFICES ASSUME NEW q \in Replica, NEW u \in SeqNo, NEW t \in SeqNo, u < t,
                      Applied(q, t)', u \in applying'[q]
               PROVE  LockItems(log[q][u].req) \cap LockItems(log[q][t].req) = {}
    BY <1>3 DEF ContendersInOrder
  <2>1. log[q][t].executed
    BY <1>1, <1>3 DEF Applied
  <2>2. u \in applying[q]
    BY <1>1, <2>1, OrderKept
  <2>3. CASE Applied(q, t)
    BY <2>2, <2>3 DEF HoldInv, ContendersInOrder
  <2>4. CASE q = r /\ t = s
    <3>1. log[q][u].executed /\ ~Applied(q, u) /\ u # t
      BY <1>2, <2>2 DEF AppliesClaimed, Applied, SeqNo
    <3>2. Voted(q, u)
      BY <3>1, ExecutedVoted
    <3>3. QED
      BY <1>6, <2>4, <3>1, <3>2, VotedDisjoint DEF HoldInv
  <2>5. QED
    BY <1>3, <2>3, <2>4
<1>10. QED
  BY <1>7, <1>8, <1>9 DEF HoldInv

\* One step, for both invariants.
LEMMA VotesNext ==
    ASSUME TypeInv, TypeInv', RefinementInv, LocksInv, CertsInv, VotesInv,
           [Next]_vars, reclaims' = 0
    PROVE  VotesInv' /\ (ExactQuorum /\ HoldInv => HoldInv')
<1>1. ASSUME NEW req \in Request, StartConsensus(req)
      PROVE  VotesInv' /\ (HoldInv => HoldInv')
  <2>1. /\ Primary \in Replica /\ nextSeq \in SeqNo
        /\ ~log[Primary][nextSeq].prePrepare
        /\ OnlyProposes(Primary, nextSeq, req)
        /\ applying' = applying
    BY <1>1, StartProposes
  <2>2. VotesInv' /\ CopiesVotes
    BY <1>1, VotesStartConsensus
  <2>3. \A q \in Replica : \A i \in Item :
          \/ lock'[q][i] = lock[q][i]
          \/ q = Primary /\ lock[q][i] = 0 /\ lock'[q][i] = nextSeq
    <3>1. /\ lock \in [Replica -> [Item -> SeqNo \cup {0}]]
          /\ lock' = [lock EXCEPT ![Primary] = Acquired(Primary, nextSeq, req)]
          /\ \A i \in LockItems(req) : lock[Primary][i] = 0
      BY <1>1 DEF TypeInv, TypeOK, StartConsensus, Startable, CanAcquire
    <3>2. QED
      BY <2>1, <3>1 DEF Acquired
  <2>4. PICK s \in SeqNo : s = nextSeq
    BY <2>1
  <2>5. QED
    BY <2>1, <2>2, <2>3, <2>4, HoldProposed
<1>2. ASSUME NEW m \in net, OnPrePrepare(m)
      PROVE  VotesInv' /\ (HoldInv => HoldInv')
  <2>1. /\ m.to \in Replica /\ m.seq \in SeqNo /\ m.req \in Request
        /\ ~log[m.to][m.seq].prePrepare
        /\ OnlyProposes(m.to, m.seq, m.req)
        /\ applying' = applying
    BY <1>2, PrePrepareProposes
  <2>2. VotesInv' /\ CopiesVotes
    BY <1>2, VotesOnPrePrepare
  <2>3. lock' = lock
    BY <1>2 DEF OnPrePrepare
  <2>4. QED
    BY <2>1, <2>2, <2>3, HoldProposed
<1>3. ASSUME NEW r \in Replica, NEW t \in tasks[r], LockAndPrepare(r, t)
      PROVE  VotesInv' /\ (ExactQuorum /\ HoldInv => HoldInv')
  BY <1>3, VotesLockAndPrepare, HoldLockAndPrepare
<1>4. ASSUME NEW r \in Replica, NEW s \in SeqNo, Apply(r, s), SendsUp, StopsTasks
      PROVE  VotesInv' /\ (ExactQuorum /\ HoldInv => HoldInv')
  <2>1. /\ applying[r] \ {s} \in SUBSET applying[r]
        /\ Runs(r, applying[r] \ {s})
        /\ CopiesVotes
    BY <1>4, ApplyRuns, CopiesApply
  <2>2. \A q \in Replica : \A i \in Item : lock'[q][i] \in {0, lock[q][i]}
    BY <1>4 DEF Apply, Released, TypeInv, TypeOK
  <2>3. VotesInv'
    BY <1>4, <2>1, <2>2, VotesCopying
  <2>4. QED
    BY <1>4, <2>3, HoldApply
<1>5. ASSUME NEW r \in Replica, HandlerRuns(r), CopiesVotes, SendsUp, StopsTasks
      PROVE  VotesInv' /\ (HoldInv => HoldInv')
  <2>1. applying[r] \in SUBSET applying[r] /\ Runs(r, applying[r]) /\ lock' = lock
    BY <1>5 DEF HandlerRuns
  <2>2. VotesInv'
    BY <1>5, <2>1, VotesCopying
  <2>3. QED
    BY <1>5, <2>1, <2>2, HoldQuiet
<1>6. QED
  BY <1>1, <1>2, <1>3, <1>4, <1>5, StepShapes, VotesCopied

LEMMA VotesInvInit == Init => VotesInv /\ HoldInv
<1> SUFFICES ASSUME Init PROVE VotesInv /\ HoldInv
  OBVIOUS
<1>1. /\ net = {}
      /\ \A r \in Replica : /\ \A s \in SeqNo : log[r][s] = EmptySlot
                            /\ tasks[r] = {} /\ applying[r] = {}
                            /\ \A i \in Item : lock[r][i] = 0
  BY DEF Init
<1>2. SlotsUp /\ TasksUnvoted /\ OwnersKnown
  BY <1>1 DEF SlotsUp, TasksUnvoted, OwnersKnown, EmptySlot
<1>3. VotesHold /\ LocksReleasedAfterCommit /\ ContendersInOrder
  BY <1>1 DEF VotesHold, LocksReleasedAfterCommit, ContendersInOrder, Applied, Voted, EmptySlot
<1>4. QED
  BY <1>2, <1>3 DEF VotesInv, HoldInv

LEMMA HoldInvariant ==
    ASSUME ExactQuorum
    PROVE  Spec => [](UnreclaimedInv /\ (reclaims = 0 => LocksInv /\ HoldInv))
<1>1. Init => (reclaims = 0 => VotesInv /\ HoldInv)
  BY VotesInvInit
<1>2. /\ UnreclaimedInv /\ (reclaims = 0 => CertsInv)
      /\ (reclaims = 0 => VotesInv /\ HoldInv)
      /\ [Next]_vars
      /\ UnreclaimedInv'
      => (reclaims = 0 => VotesInv /\ HoldInv)'
  BY VotesNext, ReclaimsCounted DEF UnreclaimedInv
<1>3. UnreclaimedInv => (reclaims = 0 => LocksInv)
  BY DEF UnreclaimedInv
<1>4. QED
  BY <1>1, <1>2, <1>3, CertsInvariant, PTL DEF Spec

\* While the cluster has given up no slot and runs with no more replicas than
\* a quorum needs, a transfer that has been applied holds no lock: no
\* processPrePrepare that woke up late takes the locks of an executed slot,
\* which nobody would release.
THEOREM LocksReleased ==
    ASSUME ExactQuorum
    PROVE  Spec => [](reclaims = 0 => LocksReleasedAfterCommit)
<1>1. HoldInv => LocksReleasedAfterCommit
  BY DEF HoldInv
<1>2. QED
  BY <1>1, HoldInvariant, PTL

\* In such a cluster transfers that share an item are applied in the order of
\* their slots at every replica, although tryExecute lets go of the mutex
\* between claiming a slot and executing it.
THEOREM ContendersOrdered ==
    ASSUME ExactQuorum
    PROVE  Spec => [](reclaims = 0 => ContendersInOrder)
<1>1. HoldInv => ContendersInOrder
  BY DEF HoldInv
<1>2. QED
  BY <1>1, HoldInvariant, PTL

\* So where any two transfers share an item, slots are applied in order.
THEOREM AppliedOrdered ==
    ASSUME ExactQuorum,
           \A q1, q2 \in Request : LockItems(q1) \cap LockItems(q2) # {}
    PROVE  Spec => [](reclaims = 0 => AppliedInOrder)
<1>1. UnreclaimedInv /\ LocksInv /\ HoldInv => AppliedInOrder
  <2> SUFFICES ASSUME UnreclaimedInv, LocksInv, HoldInv, NEW r \in Replica,
                      NEW s \in SeqNo, NEW t \in SeqNo, s < t, Applied(r, t),
                      s \in applying[r]
               PROVE  FALSE
    BY DEF AppliedInOrder
  <2>1. log[r][s].executed /\ log[r][t].executed
    BY DEF LocksInv, AppliesClaimed, Applied
  <2>2. log[r][s].req \in Request /\ log[r][t].req \in Request
    BY <2>1, LiveRequests DEF UnreclaimedInv
  <2>3. QED
    BY <2>2 DEF HoldInv, ContendersInOrder
<1>2. QED
  BY <1>1, HoldInvariant, PTL

=============================================================================
