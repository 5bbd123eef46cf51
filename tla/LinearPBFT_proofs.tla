--------------------------- MODULE LinearPBFT_proofs ---------------------------
(***************************************************************************)
(* Proofs about the normal case of the PBFT engine, for every cluster, set *)
(* of requests and bound: types, agreement, and that it implements a       *)
(* replicated log.                                                         *)
(***************************************************************************)
EXTENDS LinearPBFT, FiniteSetTheorems, TLAPS

(***************************************************************************)
(* TypeOK alone is not inductive: executeIntra and the discards read the   *)
(* request of a slot, so a slot they can reach must hold one.              *)
(***************************************************************************)
SlotsHoldRequests ==
    \A r \in Replica : \A s \in SeqNo :
        InLog(log[r][s]) \/ Committed(r, s) \/ s \in applying[r]
            => log[r][s].req \in Request

TypeInv == TypeOK /\ SlotsHoldRequests

\* What a transfer record is made of.
LEMMA RequestFields ==
    ASSUME NEW req \in Request
    PROVE  /\ req.client \in Client /\ req.ts \in Nat
           /\ req.x \in Item /\ req.y \in Item /\ req.amt \in Nat
BY RequestAssumption

\* The message constructors build messages.
LEMMA MessageTypes ==
    ASSUME NEW r \in Replica, NEW s \in SeqNo, NEW req \in Request,
           NEW sigs \in SUBSET Replica
    PROVE  /\ PrePrepareMsg(r, s, req) \in Message
           /\ VoteMsg("PREPARE", r, s, req) \in Message
           /\ VoteMsg("COMMIT", r, s, req) \in Message
           /\ CertMsg("PREPARE_CERT", r, s, req, sigs) \in Message
           /\ CertMsg("COMMIT_CERT", r, s, req, sigs) \in Message
           /\ DiscardSeqMsg(r, s) \in Message
BY FaultAssumption DEF Message, PrePrepareMsg, VoteMsg, CertMsg, DiscardSeqMsg

LEMMA BroadcastTypes ==
    ASSUME NEW R \in SUBSET Replica, NEW s \in SeqNo, NEW req \in Request,
           NEW sigs \in SUBSET Replica
    PROVE  /\ {PrePrepareMsg(r, s, req) : r \in R} \subseteq Message
           /\ {CertMsg("PREPARE_CERT", r, s, req, sigs) : r \in R} \subseteq Message
           /\ {CertMsg("COMMIT_CERT", r, s, req, sigs) : r \in R} \subseteq Message
           /\ {DiscardSeqMsg(r, s) : r \in R} \subseteq Message
BY MessageTypes

\* What the fields of a message are, by kind.
LEMMA MessageFields ==
    ASSUME NEW m \in Message
    PROVE  /\ m.to \in Replica /\ m.seq \in SeqNo
           /\ m.type # "DISCARD_SEQ" => m.req \in Request
           /\ m.type \in {"PREPARE", "COMMIT"} => m.from \in Replica
           /\ m.type \in {"PREPARE_CERT", "COMMIT_CERT"} => m.sigs \in SUBSET Replica
BY DEF Message

\* A fresh proposal and a tombstone are slots.
LEMMA SlotTypes ==
    /\ EmptySlot \in Slot
    /\ \A req \in Request : Proposed(req) \in Slot
    /\ \A st \in Slot : Tombstone(st) \in Slot
BY DEF Slot, EmptySlot, Proposed, Tombstone

\* Marking a slot executed changes nothing else.
LEMMA MarkExecuted ==
    ASSUME NEW st \in Slot, NEW new, new = [st EXCEPT !.executed = TRUE]
    PROVE  /\ new \in Slot
           /\ new.prePrepare = st.prePrepare
           /\ new.discarded = st.discarded
           /\ new.req = st.req
           /\ new.prepares = st.prepares
           /\ new.prepareCert = st.prepareCert
           /\ new.commitCert = st.commitCert
BY DEF Slot

(***************************************************************************)
(* tryExecute leaves every slot but one as it finds it, and marks that one *)
(* executed and claimed only if it holds a commit certificate.             *)
(***************************************************************************)
ExecutionEffect(r, slots, claims) ==
    /\ log' \in [Replica -> [SeqNo -> Slot]]
    /\ execSeq' \in [Replica -> 1 .. MaxSeq + 1]
    /\ applying' \in [Replica -> SUBSET SeqNo]
    /\ \A q \in Replica \ {r} : log'[q] = log[q] /\ applying'[q] = applying[q]
    /\ claims \subseteq applying'[r]
    /\ \A s \in SeqNo : s \in applying'[r] => s \in claims \/ slots[s].commitCert # {}
    /\ \A s \in SeqNo :
        /\ log'[r][s].prePrepare = slots[s].prePrepare
        /\ log'[r][s].discarded = slots[s].discarded
        /\ log'[r][s].req = slots[s].req
        /\ log'[r][s].prepares = slots[s].prepares
        /\ log'[r][s].prepareCert = slots[s].prepareCert
        /\ log'[r][s].commitCert = slots[s].commitCert

LEMMA TryExecuteEffect ==
    ASSUME NEW r \in Replica, NEW slots \in [SeqNo -> Slot],
           NEW from \in 1 .. MaxSeq + 1, NEW claims \in SUBSET SeqNo,
           log \in [Replica -> [SeqNo -> Slot]],
           execSeq \in [Replica -> 1 .. MaxSeq + 1],
           applying \in [Replica -> SUBSET SeqNo],
           TryExecute(r, slots, from, claims)
    PROVE  ExecutionEffect(r, slots, claims)
<1>1. PICK i \in from .. MaxSeq + 1 :
        IF i \in SeqNo /\ slots[i].commitCert # {} /\ ~slots[i].executed
        THEN /\ log' = [log EXCEPT ![r] = [slots EXCEPT ![i].executed = TRUE]]
             /\ execSeq' = [execSeq EXCEPT ![r] = i + 1]
             /\ applying' = [applying EXCEPT ![r] = claims \cup {i}]
        ELSE /\ log' = [log EXCEPT ![r] = slots]
             /\ execSeq' = [execSeq EXCEPT ![r] = i]
             /\ applying' = [applying EXCEPT ![r] = claims]
  BY DEF TryExecute
<1>2. i \in 1 .. MaxSeq + 1 /\ (i \in SeqNo => i + 1 \in 1 .. MaxSeq + 1)
  BY BoundAssumption DEF SeqNo
<1>3. CASE i \in SeqNo /\ slots[i].commitCert # {} /\ ~slots[i].executed
  <2> DEFINE new == [slots EXCEPT ![i].executed = TRUE]
  <2>1. \A s \in SeqNo :
          /\ new[s] \in Slot
          /\ new[s].prePrepare = slots[s].prePrepare
          /\ new[s].discarded = slots[s].discarded
          /\ new[s].req = slots[s].req
          /\ new[s].prepares = slots[s].prepares
          /\ new[s].prepareCert = slots[s].prepareCert
          /\ new[s].commitCert = slots[s].commitCert
    <3> SUFFICES ASSUME NEW s \in SeqNo
                 PROVE  /\ new[s] \in Slot
                        /\ new[s].prePrepare = slots[s].prePrepare
                        /\ new[s].discarded = slots[s].discarded
                        /\ new[s].req = slots[s].req
                        /\ new[s].prepares = slots[s].prepares
                        /\ new[s].prepareCert = slots[s].prepareCert
                        /\ new[s].commitCert = slots[s].commitCert
      OBVIOUS
    <3>1. slots[s] \in Slot
      OBVIOUS
    <3>2. CASE s = i
      <4>1. new[s] = [slots[s] EXCEPT !.executed = TRUE]
        BY <3>2
      <4>2. QED
        BY <3>1, <4>1, MarkExecuted
    <3>3. CASE s # i
      <4>1. new[s] = slots[s]
        BY <3>3
      <4>2. QED
        BY <3>1, <4>1
    <3>4. QED
      BY <3>2, <3>3
  <2>2. new \in [SeqNo -> Slot]
    BY <2>1
  <2>3. /\ log' = [log EXCEPT ![r] = new]
        /\ execSeq' = [execSeq EXCEPT ![r] = i + 1]
        /\ applying' = [applying EXCEPT ![r] = claims \cup {i}]
    BY <1>1, <1>3
  <2> HIDE DEF new
  <2>4. QED
    BY <1>2, <1>3, <2>1, <2>2, <2>3 DEF ExecutionEffect
<1>4. CASE ~(i \in SeqNo /\ slots[i].commitCert # {} /\ ~slots[i].executed)
  <2>1. /\ log' = [log EXCEPT ![r] = slots]
        /\ execSeq' = [execSeq EXCEPT ![r] = i]
        /\ applying' = [applying EXCEPT ![r] = claims]
    BY <1>1, <1>4
  <2>2. QED
    BY <1>2, <2>1 DEF ExecutionEffect
<1>5. QED
  BY <1>3, <1>4

-----------------------------------------------------------------------------
(***************************************************************************)
(* Type correctness.                                                       *)
(***************************************************************************)
LEMMA LockTypes ==
    ASSUME NEW r \in Replica, NEW s \in SeqNo, NEW req \in Request,
           lock \in [Replica -> [Item -> SeqNo \cup {0}]]
    PROVE  /\ Released(r, req) \in [Item -> SeqNo \cup {0}]
           /\ Acquired(r, s, req) \in [Item -> SeqNo \cup {0}]
BY DEF Released, Acquired

LEMMA TaskTypes ==
    ASSUME NEW r \in Replica, NEW s \in SeqNo, NEW req \in Request
    PROVE  TaskFor(r, s, req) \in SUBSET (SeqNo \X Request)
BY DEF TaskFor

\* Writing one slot of one replica.
LEMMA SlotWritten ==
    ASSUME NEW r \in Replica, NEW s \in SeqNo, NEW st \in Slot,
           log \in [Replica -> [SeqNo -> Slot]],
           log' = [log EXCEPT ![r][s] = st]
    PROVE  /\ log' \in [Replica -> [SeqNo -> Slot]]
           /\ log'[r][s] = st
           /\ \A q \in Replica : \A t \in SeqNo :
                q # r \/ t # s => log'[q][t] = log[q][t]
OBVIOUS

\* The log that a handler at replica r passes to tryExecute after it has
\* written slot s.
LEMMA SlotPassed ==
    ASSUME NEW r \in Replica, NEW s \in SeqNo, NEW st \in Slot,
           log \in [Replica -> [SeqNo -> Slot]],
           NEW slots, slots = [log[r] EXCEPT ![s] = st]
    PROVE  /\ slots \in [SeqNo -> Slot]
           /\ slots[s] = st
           /\ \A t \in SeqNo : t # s => slots[t] = log[r][t]
OBVIOUS

LEMMA RequestWritten ==
    ASSUME SlotsHoldRequests, NEW r \in Replica, NEW s \in SeqNo,
           applying' = applying,
           log'[r][s].req \in Request,
           \A q \in Replica : \A t \in SeqNo :
               q # r \/ t # s => log'[q][t] = log[q][t]
    PROVE  SlotsHoldRequests'
BY DEF SlotsHoldRequests, InLog, Committed

LEMMA TryExecuteTypes ==
    ASSUME TypeInv, NEW r \in Replica, NEW slots \in [SeqNo -> Slot],
           NEW from \in 1 .. MaxSeq + 1, NEW claims \in SUBSET SeqNo,
           TryExecute(r, slots, from, claims),
           \A s \in SeqNo :
               InLog(slots[s]) \/ slots[s].commitCert # {} \/ s \in claims
                   => slots[s].req \in Request
    PROVE  /\ log' \in [Replica -> [SeqNo -> Slot]]
           /\ execSeq' \in [Replica -> 1 .. MaxSeq + 1]
           /\ applying' \in [Replica -> SUBSET SeqNo]
           /\ SlotsHoldRequests'
<1>1. /\ log \in [Replica -> [SeqNo -> Slot]]
      /\ execSeq \in [Replica -> 1 .. MaxSeq + 1]
      /\ applying \in [Replica -> SUBSET SeqNo]
  BY DEF TypeInv, TypeOK
<1>2. ExecutionEffect(r, slots, claims)
  BY <1>1, TryExecuteEffect
<1>3. /\ log' \in [Replica -> [SeqNo -> Slot]]
      /\ execSeq' \in [Replica -> 1 .. MaxSeq + 1]
      /\ applying' \in [Replica -> SUBSET SeqNo]
  BY <1>2 DEF ExecutionEffect
<1>4. ASSUME NEW q \in Replica, NEW s \in SeqNo,
             (InLog(log[q][s]) \/ Committed(q, s) \/ s \in applying[q])'
      PROVE  log'[q][s].req \in Request
  <2>1. CASE q = r
    <3>1. /\ log'[r][s].prePrepare = slots[s].prePrepare
          /\ log'[r][s].discarded = slots[s].discarded
          /\ log'[r][s].req = slots[s].req
          /\ log'[r][s].commitCert = slots[s].commitCert
          /\ s \in applying'[r] => s \in claims \/ slots[s].commitCert # {}
      BY <1>2 DEF ExecutionEffect
    <3>2. QED
      BY <1>4, <2>1, <3>1 DEF InLog, Committed
  <2>2. CASE q # r
    <3>1. log'[q] = log[q] /\ applying'[q] = applying[q]
      BY <1>2, <2>2 DEF ExecutionEffect
    <3>2. QED
      BY <1>4, <3>1 DEF TypeInv, SlotsHoldRequests, InLog, Committed
  <2>3. QED
    BY <2>1, <2>2
<1>5. QED
  BY <1>3, <1>4 DEF SlotsHoldRequests

LEMMA TypeInvInit == Init => TypeInv
<1> SUFFICES ASSUME Init PROVE TypeInv
  OBVIOUS
<1>1. 1 \in 1 .. MaxSeq + 1 /\ 0 \in 0 .. MaxReclaims
  BY BoundAssumption
<1>2. TypeOK
  BY <1>1, BoundAssumption, SlotTypes DEF Init, TypeOK
<1>3. SlotsHoldRequests
  BY DEF Init, SlotsHoldRequests, InLog, Committed, EmptySlot
<1>4. QED
  BY <1>2, <1>3 DEF TypeInv

LEMMA TypeInvStartConsensus ==
    ASSUME TypeInv, NEW req \in Request, StartConsensus(req)
    PROVE  TypeInv'
<1>1. /\ nextSeq \in SeqNo
      /\ nextSeq + 1 \in 1 .. MaxSeq + 1
      /\ Primary \in Replica
  BY FaultAssumption, BoundAssumption DEF StartConsensus, Startable, SeqNo
<1>2. /\ log \in [Replica -> [SeqNo -> Slot]]
      /\ lock \in [Replica -> [Item -> SeqNo \cup {0}]]
      /\ Proposed(req) \in Slot
      /\ Proposed(req).req = req
  BY SlotTypes DEF TypeInv, TypeOK, Proposed, EmptySlot
<1>3. log' = [log EXCEPT ![Primary][nextSeq] = Proposed(req)]
  BY DEF StartConsensus
<1>4. /\ log' \in [Replica -> [SeqNo -> Slot]]
      /\ log'[Primary][nextSeq] = Proposed(req)
      /\ \A q \in Replica : \A t \in SeqNo :
            q # Primary \/ t # nextSeq => log'[q][t] = log[q][t]
  BY <1>1, <1>2, <1>3, SlotWritten
<1>5. lock' \in [Replica -> [Item -> SeqNo \cup {0}]]
  BY <1>1, <1>2, LockTypes DEF StartConsensus
<1>6. tasks' \in [Replica -> SUBSET (SeqNo \X Request)]
  BY <1>1, TaskTypes DEF StartConsensus, TypeInv, TypeOK
<1>7. net' \subseteq Message
  <2>1. {PrePrepareMsg(r, nextSeq, req) : r \in Up \ {Primary}} \subseteq Message
    BY <1>1, BroadcastTypes, Up \ {Primary} \in SUBSET Replica DEF Up
  <2>2. QED
    BY <2>1 DEF StartConsensus, TypeInv, TypeOK
<1>8. TypeOK'
  BY <1>1, <1>4, <1>5, <1>6, <1>7 DEF StartConsensus, TypeInv, TypeOK, storeVars
<1>9. SlotsHoldRequests'
  BY <1>1, <1>2, <1>4 DEF StartConsensus, TypeInv, SlotsHoldRequests, InLog, Committed
<1>10. QED
  BY <1>8, <1>9 DEF TypeInv

LEMMA TypeInvOnPrePrepare ==
    ASSUME TypeInv, NEW m \in net, OnPrePrepare(m)
    PROVE  TypeInv'
<1>1. m.to \in Replica /\ m.seq \in SeqNo /\ m.req \in Request
  BY MessageFields DEF OnPrePrepare, TypeInv, TypeOK
<1>2. /\ log \in [Replica -> [SeqNo -> Slot]]
      /\ Proposed(m.req) \in Slot
      /\ Proposed(m.req).req = m.req
  BY <1>1, SlotTypes DEF TypeInv, TypeOK, Proposed, EmptySlot
<1>3. log' = [log EXCEPT ![m.to][m.seq] = Proposed(m.req)]
  BY DEF OnPrePrepare
<1>4. /\ log' \in [Replica -> [SeqNo -> Slot]]
      /\ log'[m.to][m.seq] = Proposed(m.req)
      /\ \A q \in Replica : \A t \in SeqNo :
            q # m.to \/ t # m.seq => log'[q][t] = log[q][t]
  BY <1>1, <1>2, <1>3, SlotWritten
<1>5. tasks' \in [Replica -> SUBSET (SeqNo \X Request)]
  BY <1>1, TaskTypes DEF OnPrePrepare, TypeInv, TypeOK
<1>6. TypeOK'
  BY <1>4, <1>5 DEF OnPrePrepare, TypeInv, TypeOK, storeVars
<1>7. SlotsHoldRequests'
  BY <1>1, <1>2, <1>4 DEF OnPrePrepare, TypeInv, SlotsHoldRequests, InLog, Committed
<1>8. QED
  BY <1>6, <1>7 DEF TypeInv

LEMMA TypeInvLockAndPrepare ==
    ASSUME TypeInv, NEW r \in Replica, NEW t \in tasks[r], LockAndPrepare(r, t)
    PROVE  TypeInv'
<1>1. t[1] \in SeqNo /\ t[2] \in Request
  BY DEF TypeInv, TypeOK
<1>2. lock' \in [Replica -> [Item -> SeqNo \cup {0}]]
  BY <1>1, LockTypes DEF LockAndPrepare, TypeInv, TypeOK
<1>3. net' \subseteq Message
  BY <1>1, MessageTypes DEF LockAndPrepare, TypeInv, TypeOK
<1>4. tasks' \in [Replica -> SUBSET (SeqNo \X Request)]
  BY DEF LockAndPrepare, TypeInv, TypeOK
<1>5. QED
  BY <1>2, <1>3, <1>4
     DEF LockAndPrepare, TypeInv, TypeOK, SlotsHoldRequests, InLog, Committed, storeVars

LEMMA TypeInvOnPrepare ==
    ASSUME TypeInv, NEW m \in net, OnPrepare(m)
    PROVE  TypeInv'
<1> DEFINE st    == log[m.to][m.seq]
           votes == st.prepares \cup {m.from}
           cert  == Cardinality(votes) >= Quorum /\ st.prepareCert = {}
           new   == [st EXCEPT !.prepares = votes,
                               !.prepareCert = IF cert THEN votes ELSE @]
<1>1. m.to \in Replica /\ m.seq \in SeqNo /\ m.req \in Request /\ m.from \in Replica
  BY MessageFields DEF OnPrepare, TypeInv, TypeOK
<1>2. log \in [Replica -> [SeqNo -> Slot]] /\ st \in Slot
  BY <1>1 DEF TypeInv, TypeOK
<1>3. votes \in SUBSET Replica
  BY <1>1, <1>2 DEF Slot
<1>4. /\ new \in Slot
      /\ new.req = m.req
  BY <1>2, <1>3 DEF Slot, OnPrepare, AcceptsPrepare
<1>5. log' = [log EXCEPT ![m.to][m.seq] = new]
  BY <1>1, <1>2 DEF OnPrepare
<1> HIDE DEF new
<1>6. /\ log' \in [Replica -> [SeqNo -> Slot]]
      /\ log'[m.to][m.seq] = new
      /\ \A q \in Replica : \A t \in SeqNo :
            q # m.to \/ t # m.seq => log'[q][t] = log[q][t]
  BY <1>1, <1>2, <1>4, <1>5, SlotWritten
<1>7. net' \subseteq Message
  <2> HIDE DEF st, votes, cert
  <2>1. {CertMsg("PREPARE_CERT", r, m.seq, m.req, votes) : r \in Up \ {m.to}} \subseteq Message
    <3>1. ASSUME NEW r \in Up \ {m.to}
          PROVE  CertMsg("PREPARE_CERT", r, m.seq, m.req, votes) \in Message
      <4>1. r \in Replica
        BY DEF Up
      <4>2. QED
        BY <1>1, <1>3, <4>1, MessageTypes
    <3>2. QED
      BY <3>1
  <2>2. VoteMsg("COMMIT", m.to, m.seq, m.req) \in Message
    BY <1>1, MessageTypes
  <2>3. net \subseteq Message
    BY DEF TypeInv, TypeOK
  <2>4. net' = (net \ {m}) \cup
               IF cert
               THEN {VoteMsg("COMMIT", m.to, m.seq, m.req)} \cup
                    {CertMsg("PREPARE_CERT", r, m.seq, m.req, votes) : r \in Up \ {m.to}}
               ELSE {}
    BY DEF OnPrepare, st, votes, cert
  <2> DEFINE certs == {CertMsg("PREPARE_CERT", r, m.seq, m.req, votes) : r \in Up \ {m.to}}
             vote  == VoteMsg("COMMIT", m.to, m.seq, m.req)
  <2> HIDE DEF certs, vote
  <2>5. net' \subseteq net \cup {vote} \cup certs
    BY <2>4 DEF certs, vote
  <2>6. QED
    BY <2>1, <2>2, <2>3, <2>5 DEF certs, vote
<1>8. TypeOK'
  BY <1>6, <1>7 DEF OnPrepare, TypeInv, TypeOK, storeVars
<1>9. SlotsHoldRequests'
  <2>1. applying' = applying
    BY DEF OnPrepare
  <2>2. log'[m.to][m.seq].req \in Request
    BY <1>1, <1>4, <1>6
  <2>3. QED
    BY <1>1, <1>6, <2>1, <2>2, RequestWritten DEF TypeInv
<1>10. QED
  BY <1>8, <1>9 DEF TypeInv

LEMMA TypeInvOnPrepareCert ==
    ASSUME TypeInv, NEW m \in net, OnPrepareCert(m)
    PROVE  TypeInv'
<1> DEFINE st  == log[m.to][m.seq]
           new == [st EXCEPT !.prepareCert = m.sigs]
<1>1. /\ m.to \in Replica /\ m.seq \in SeqNo /\ m.req \in Request
      /\ m.sigs \in SUBSET Replica
  BY MessageFields DEF OnPrepareCert, TypeInv, TypeOK
<1>2. log \in [Replica -> [SeqNo -> Slot]] /\ st \in Slot
  BY <1>1 DEF TypeInv, TypeOK
<1>3. /\ new \in Slot
      /\ new.req = m.req
  BY <1>1, <1>2 DEF Slot, OnPrepareCert, AcceptsCert
<1>4. log' = [log EXCEPT ![m.to][m.seq] = new]
  BY <1>1, <1>2 DEF OnPrepareCert
<1> HIDE DEF new
<1>5. /\ log' \in [Replica -> [SeqNo -> Slot]]
      /\ log'[m.to][m.seq] = new
      /\ \A q \in Replica : \A t \in SeqNo :
            q # m.to \/ t # m.seq => log'[q][t] = log[q][t]
  BY <1>1, <1>2, <1>3, <1>4, SlotWritten
<1>6. net' \subseteq Message
  <2>1. net \subseteq Message
    BY DEF TypeInv, TypeOK
  <2>2. VoteMsg("COMMIT", m.to, m.seq, m.req) \in Message
    BY <1>1, MessageTypes
  <2>3. net' = (net \ {m}) \cup {VoteMsg("COMMIT", m.to, m.seq, m.req)}
    BY DEF OnPrepareCert
  <2>4. QED
    BY <2>1, <2>2, <2>3
<1>7. TypeOK'
  BY <1>5, <1>6 DEF OnPrepareCert, TypeInv, TypeOK, storeVars
<1>8. SlotsHoldRequests'
  <2>1. applying' = applying
    BY DEF OnPrepareCert
  <2>2. log'[m.to][m.seq].req \in Request
    BY <1>1, <1>3, <1>5
  <2>3. QED
    BY <1>1, <1>5, <2>1, <2>2, RequestWritten DEF TypeInv
<1>9. QED
  BY <1>7, <1>8 DEF TypeInv

LEMMA TypeInvOnCommit ==
    ASSUME TypeInv, NEW m \in net, OnCommit(m)
    PROVE  TypeInv'
<1> DEFINE st    == log[m.to][m.seq]
           votes == st.commits \cup {m.from}
           new   == [st EXCEPT !.commits = votes]
<1>1. m.to \in Replica /\ m.seq \in SeqNo /\ m.req \in Request /\ m.from \in Replica
  BY MessageFields DEF OnCommit, TypeInv, TypeOK
<1>2. log \in [Replica -> [SeqNo -> Slot]] /\ st \in Slot
  BY <1>1 DEF TypeInv, TypeOK
<1>3. votes \in SUBSET Replica
  BY <1>1, <1>2 DEF Slot
<1>4. /\ new \in Slot
      /\ new.req = m.req
  BY <1>2, <1>3 DEF Slot, OnCommit, AcceptsCommit
<1>5. log' = [log EXCEPT ![m.to][m.seq] = new]
  BY <1>1, <1>2 DEF OnCommit
<1> HIDE DEF new
<1>6. /\ log' \in [Replica -> [SeqNo -> Slot]]
      /\ log'[m.to][m.seq] = new
      /\ \A q \in Replica : \A t \in SeqNo :
            q # m.to \/ t # m.seq => log'[q][t] = log[q][t]
  BY <1>1, <1>2, <1>4, <1>5, SlotWritten
<1>7. TypeOK'
  BY <1>6 DEF OnCommit, TypeInv, TypeOK, storeVars
<1>8. SlotsHoldRequests'
  <2>1. applying' = applying
    BY DEF OnCommit
  <2>2. log'[m.to][m.seq].req \in Request
    BY <1>1, <1>4, <1>6
  <2>3. QED
    BY <1>1, <1>6, <2>1, <2>2, RequestWritten DEF TypeInv
<1>9. QED
  BY <1>7, <1>8 DEF TypeInv

LEMMA TypeInvOnDecidingCommit ==
    ASSUME TypeInv, NEW m \in net, OnDecidingCommit(m)
    PROVE  TypeInv'
<1> DEFINE st    == log[m.to][m.seq]
           votes == st.commits \cup {m.from}
           new   == [st EXCEPT !.commits = votes, !.commitCert = votes]
           slots == [log[m.to] EXCEPT ![m.seq] = new]
<1>1. m.to \in Replica /\ m.seq \in SeqNo /\ m.req \in Request /\ m.from \in Replica
  BY MessageFields DEF OnDecidingCommit, TypeInv, TypeOK
<1>2. log \in [Replica -> [SeqNo -> Slot]] /\ st \in Slot
  BY <1>1 DEF TypeInv, TypeOK
<1>3. votes \in SUBSET Replica
  BY <1>1, <1>2 DEF Slot
<1>4. new \in Slot /\ new.req = m.req
  BY <1>2, <1>3 DEF Slot, OnDecidingCommit, AcceptsCommit
<1>5. TryExecute(m.to, slots, execSeq[m.to], applying[m.to])
  BY <1>1, <1>2 DEF OnDecidingCommit
<1> HIDE DEF new
<1>6. /\ slots \in [SeqNo -> Slot]
      /\ slots[m.seq] = new
      /\ \A t \in SeqNo : t # m.seq => slots[t] = log[m.to][t]
  BY <1>1, <1>2, <1>4, SlotPassed
<1>7. \A s \in SeqNo :
        InLog(slots[s]) \/ slots[s].commitCert # {} \/ s \in applying[m.to]
            => slots[s].req \in Request
  BY <1>1, <1>4, <1>6 DEF TypeInv, SlotsHoldRequests, Committed
<1> HIDE DEF slots
<1>8. execSeq[m.to] \in 1 .. MaxSeq + 1 /\ applying[m.to] \in SUBSET SeqNo
  BY <1>1 DEF TypeInv, TypeOK
<1>9. /\ log' \in [Replica -> [SeqNo -> Slot]]
      /\ execSeq' \in [Replica -> 1 .. MaxSeq + 1]
      /\ applying' \in [Replica -> SUBSET SeqNo]
      /\ SlotsHoldRequests'
  BY <1>1, <1>5, <1>6, <1>7, <1>8, TryExecuteTypes
<1>10. net' \subseteq Message
  <2> HIDE DEF st, votes
  <2>1. {CertMsg("COMMIT_CERT", r, m.seq, m.req, votes) : r \in Up \ {m.to}} \subseteq Message
    <3>1. ASSUME NEW r \in Up \ {m.to}
          PROVE  CertMsg("COMMIT_CERT", r, m.seq, m.req, votes) \in Message
      <4>1. r \in Replica
        BY DEF Up
      <4>2. QED
        BY <1>1, <1>3, <4>1, MessageTypes
    <3>2. QED
      BY <3>1
  <2>2. net \subseteq Message
    BY DEF TypeInv, TypeOK
  <2>3. net' = (net \ {m}) \cup
               {CertMsg("COMMIT_CERT", r, m.seq, m.req, votes) : r \in Up \ {m.to}}
    BY DEF OnDecidingCommit, st, votes
  <2> DEFINE certs == {CertMsg("COMMIT_CERT", r, m.seq, m.req, votes) : r \in Up \ {m.to}}
  <2> HIDE DEF certs
  <2>4. net' = (net \ {m}) \cup certs
    BY <2>3 DEF certs
  <2>5. QED
    BY <2>1, <2>2, <2>4 DEF certs
<1>11. TypeOK'
  BY <1>9, <1>10 DEF OnDecidingCommit, TypeInv, TypeOK, storeVars
<1>12. QED
  BY <1>9, <1>11 DEF TypeInv

LEMMA TypeInvOnCommitCert ==
    ASSUME TypeInv, NEW m \in net, OnCommitCert(m)
    PROVE  TypeInv'
<1> DEFINE st    == log[m.to][m.seq]
           new   == [st EXCEPT !.commitCert = m.sigs]
           slots == [log[m.to] EXCEPT ![m.seq] = new]
<1>1. /\ m.to \in Replica /\ m.seq \in SeqNo /\ m.req \in Request
      /\ m.sigs \in SUBSET Replica
  BY MessageFields DEF OnCommitCert, TypeInv, TypeOK
<1>2. log \in [Replica -> [SeqNo -> Slot]] /\ st \in Slot
  BY <1>1 DEF TypeInv, TypeOK
<1>3. new \in Slot /\ new.req = m.req
  BY <1>1, <1>2 DEF Slot, OnCommitCert, AcceptsCert
<1>4. TryExecute(m.to, slots, execSeq[m.to], applying[m.to])
  BY <1>1, <1>2 DEF OnCommitCert
<1> HIDE DEF new
<1>5. /\ slots \in [SeqNo -> Slot]
      /\ slots[m.seq] = new
      /\ \A t \in SeqNo : t # m.seq => slots[t] = log[m.to][t]
  BY <1>1, <1>2, <1>3, SlotPassed
<1>6. \A s \in SeqNo :
        InLog(slots[s]) \/ slots[s].commitCert # {} \/ s \in applying[m.to]
            => slots[s].req \in Request
  BY <1>1, <1>3, <1>5 DEF TypeInv, SlotsHoldRequests, Committed
<1> HIDE DEF slots
<1>7. execSeq[m.to] \in 1 .. MaxSeq + 1 /\ applying[m.to] \in SUBSET SeqNo
  BY <1>1 DEF TypeInv, TypeOK
<1>8. /\ log' \in [Replica -> [SeqNo -> Slot]]
      /\ execSeq' \in [Replica -> 1 .. MaxSeq + 1]
      /\ applying' \in [Replica -> SUBSET SeqNo]
      /\ SlotsHoldRequests'
  BY <1>1, <1>4, <1>5, <1>6, <1>7, TryExecuteTypes
<1>9. TypeOK'
  BY <1>8 DEF OnCommitCert, TypeInv, TypeOK, storeVars
<1>10. QED
  BY <1>8, <1>9 DEF TypeInv

LEMMA TypeInvApply ==
    ASSUME TypeInv, NEW r \in Replica, NEW s \in SeqNo, Apply(r, s)
    PROVE  TypeInv'
<1> DEFINE req == log[r][s].req
<1>1. req \in Request
  BY DEF Apply, TypeInv, SlotsHoldRequests
<1>2. lock' \in [Replica -> [Item -> SeqNo \cup {0}]]
  BY <1>1, LockTypes DEF Apply, TypeInv, TypeOK
<1>3. /\ log[r] \in [SeqNo -> Slot]
      /\ execSeq[r] \in 1 .. MaxSeq + 1
      /\ applying[r] \ {s} \in SUBSET SeqNo
  BY DEF TypeInv, TypeOK
<1>4. TryExecute(r, log[r], execSeq[r], applying[r] \ {s})
  BY DEF Apply
<1>5. \A t \in SeqNo :
        InLog(log[r][t]) \/ log[r][t].commitCert # {} \/ t \in applying[r] \ {s}
            => log[r][t].req \in Request
  BY DEF TypeInv, SlotsHoldRequests, Committed
<1>6. /\ log' \in [Replica -> [SeqNo -> Slot]]
      /\ execSeq' \in [Replica -> 1 .. MaxSeq + 1]
      /\ applying' \in [Replica -> SUBSET SeqNo]
      /\ SlotsHoldRequests'
  BY <1>3, <1>4, <1>5, TryExecuteTypes
<1>7. /\ bal' \in [Replica -> [Item -> Nat]]
      /\ clientTS' \in [Replica -> [Client -> Nat]]
      /\ datastore' \in [Replica -> Seq(Request)]
  <2>1. /\ req.client \in Client /\ req.ts \in Nat
        /\ req.x \in Item /\ req.y \in Item /\ req.amt \in Nat
    BY <1>1, RequestFields
  <2>2. CASE bal[r][req.x] >= req.amt
    <3>0. bal[r][req.x] \in Nat /\ bal[r][req.y] \in Nat
      <4>1. bal \in [Replica -> [Item -> Nat]]
        BY DEF TypeInv, TypeOK
      <4>2. QED
        BY <2>1, <4>1
    <3>1. bal[r][req.x] - req.amt \in Nat /\ bal[r][req.y] + req.amt \in Nat
      <4>1. req.amt \in Nat
        BY <2>1
      <4>2. \A a, b, c \in Nat : b >= c => b - c \in Nat /\ a + c \in Nat
        OBVIOUS
      <4>3. QED
        BY <2>2, <3>0, <4>1, <4>2
    <3>2. /\ bal' = [bal EXCEPT ![r][req.x] = bal[r][req.x] - req.amt,
                                ![r][req.y] = bal[r][req.y] + req.amt]
          /\ datastore' = [datastore EXCEPT ![r] = Append(datastore[r], req)]
          /\ clientTS' = [clientTS EXCEPT ![r][req.client] = req.ts]
      BY <2>1, <2>2 DEF Apply, TypeInv, TypeOK
    <3> HIDE DEF req
    <3>3. bal' \in [Replica -> [Item -> Nat]]
      BY <2>1, <3>1, <3>2 DEF TypeInv, TypeOK
    <3>4. clientTS' \in [Replica -> [Client -> Nat]]
      BY <2>1, <3>2 DEF TypeInv, TypeOK
    <3>5. datastore' \in [Replica -> Seq(Request)]
      BY <1>1, <3>2 DEF TypeInv, TypeOK
    <3>6. QED
      BY <3>3, <3>4, <3>5
  <2>3. CASE ~(bal[r][req.x] >= req.amt)
    BY <2>3 DEF Apply, TypeInv, TypeOK, storeVars
  <2>4. QED
    BY <2>2, <2>3
<1>8. TypeOK'
  BY <1>2, <1>6, <1>7 DEF Apply, TypeInv, TypeOK
<1>9. QED
  BY <1>6, <1>8 DEF TypeInv

LEMMA TypeInvReclaim ==
    ASSUME TypeInv, NEW s \in SeqNo, Reclaim(s)
    PROVE  TypeInv'
<1> DEFINE st  == log[Primary][s]
           new == Tombstone(st)
<1>1. Primary \in Replica
  BY FaultAssumption
<1>2. /\ log \in [Replica -> [SeqNo -> Slot]]
      /\ st \in Slot
      /\ st.req \in Request
  BY <1>1 DEF Reclaim, TypeInv, TypeOK, SlotsHoldRequests, InLog
<1>3. new \in Slot /\ new.req = st.req
  BY <1>2, SlotTypes DEF Tombstone, EmptySlot
<1>4. log' = [log EXCEPT ![Primary][s] = new]
  BY DEF Reclaim
<1> HIDE DEF new
<1>5. /\ log' \in [Replica -> [SeqNo -> Slot]]
      /\ log'[Primary][s] = new
      /\ \A q \in Replica : \A t \in SeqNo :
            q # Primary \/ t # s => log'[q][t] = log[q][t]
  BY <1>1, <1>2, <1>3, <1>4, SlotWritten
<1>6. lock' \in [Replica -> [Item -> SeqNo \cup {0}]]
  BY <1>1, <1>2, LockTypes DEF Reclaim, TypeInv, TypeOK
<1>7. /\ execSeq' \in [Replica -> 1 .. MaxSeq + 1]
      /\ nextSeq' \in 1 .. MaxSeq + 1
      /\ reclaims' \in 0 .. MaxReclaims
  <2>1. s \in 1 .. MaxSeq + 1 /\ s + 1 \in 1 .. MaxSeq + 1
    BY BoundAssumption DEF SeqNo
  <2>2. reclaims + 1 \in 0 .. MaxReclaims
    BY BoundAssumption DEF Reclaim, TypeInv, TypeOK
  <2>3. QED
    BY <1>1, <2>1, <2>2 DEF Reclaim, TypeInv, TypeOK
<1>8. net' \subseteq Message
  <2>1. {DiscardSeqMsg(r, s) : r \in Up} \subseteq Message
    BY BroadcastTypes, <1>2, Up \in SUBSET Replica DEF Up
  <2>2. QED
    BY <2>1 DEF Reclaim, TypeInv, TypeOK
<1>9. TypeOK'
  BY <1>5, <1>6, <1>7, <1>8 DEF Reclaim, TypeInv, TypeOK, storeVars
<1>10. SlotsHoldRequests'
  <2>1. applying' = applying
    BY DEF Reclaim
  <2>2. log'[Primary][s].req \in Request
    BY <1>2, <1>3, <1>5
  <2>3. QED
    BY <1>1, <1>5, <2>1, <2>2, RequestWritten DEF TypeInv
<1>11. QED
  BY <1>9, <1>10 DEF TypeInv

LEMMA TypeInvOnDiscardSeq ==
    ASSUME TypeInv, NEW m \in net, OnDiscardSeq(m)
    PROVE  TypeInv'
<1> DEFINE st    == log[m.to][m.seq]
           new   == Tombstone(st)
           slots == [log[m.to] EXCEPT ![m.seq] = new]
           from  == IF execSeq[m.to] = m.seq THEN m.seq + 1 ELSE execSeq[m.to]
<1>1. m.to \in Replica /\ m.seq \in SeqNo
  BY MessageFields DEF TypeInv, TypeOK
<1>2. /\ log \in [Replica -> [SeqNo -> Slot]]
      /\ st \in Slot
      /\ st.req \in Request
  <2>1. log \in [Replica -> [SeqNo -> Slot]]
    BY DEF TypeInv, TypeOK
  <2>2. InLog(st)
    BY DEF OnDiscardSeq, AcceptsDiscardSeq
  <2>3. st.req \in Request
    BY <1>1, <2>2 DEF TypeInv, SlotsHoldRequests
  <2>4. QED
    BY <1>1, <2>1, <2>3
<1>3. new \in Slot /\ new.req = st.req
  BY <1>2, SlotTypes DEF Tombstone, EmptySlot
<1>4. TryExecute(m.to, slots, from, applying[m.to])
  BY DEF OnDiscardSeq
<1>5. lock' \in [Replica -> [Item -> SeqNo \cup {0}]]
  BY <1>1, <1>2, LockTypes DEF OnDiscardSeq, TypeInv, TypeOK
<1>6. from \in 1 .. MaxSeq + 1 /\ applying[m.to] \in SUBSET SeqNo
  BY <1>1, BoundAssumption DEF SeqNo, TypeInv, TypeOK
<1> HIDE DEF new, from
<1>7. /\ slots \in [SeqNo -> Slot]
      /\ slots[m.seq] = new
      /\ \A t \in SeqNo : t # m.seq => slots[t] = log[m.to][t]
  BY <1>1, <1>2, <1>3, SlotPassed
<1>8. \A s \in SeqNo :
        InLog(slots[s]) \/ slots[s].commitCert # {} \/ s \in applying[m.to]
            => slots[s].req \in Request
  BY <1>1, <1>2, <1>3, <1>7 DEF TypeInv, SlotsHoldRequests, Committed
<1> HIDE DEF slots
<1>9. /\ log' \in [Replica -> [SeqNo -> Slot]]
      /\ execSeq' \in [Replica -> 1 .. MaxSeq + 1]
      /\ applying' \in [Replica -> SUBSET SeqNo]
      /\ SlotsHoldRequests'
  BY <1>1, <1>4, <1>6, <1>7, <1>8, TryExecuteTypes
<1>10. TypeOK'
  BY <1>5, <1>9 DEF OnDiscardSeq, TypeInv, TypeOK, storeVars
<1>11. QED
  BY <1>9, <1>10 DEF TypeInv

\* The remaining steps write no slot.
LEMMA TypeInvStartSelfTransfer ==
    ASSUME TypeInv, NEW req \in Request, StartSelfTransfer(req)
    PROVE  TypeInv'
<1>1. nextSeq' \in 1 .. MaxSeq + 1
  BY BoundAssumption DEF StartSelfTransfer, Startable, SeqNo
<1>2. QED
  BY <1>1
     DEF StartSelfTransfer, TypeInv, TypeOK, SlotsHoldRequests, InLog, Committed, storeVars

LEMMA TypeInvLockWaitExpires ==
    ASSUME TypeInv, NEW r \in Replica, NEW t \in tasks[r], LockWaitExpires(r, t)
    PROVE  TypeInv'
BY DEF LockWaitExpires, TypeInv, TypeOK, SlotsHoldRequests, InLog, Committed, storeVars

LEMMA TypeInvUnchanged ==
    ASSUME TypeInv, net' \subseteq net,
           UNCHANGED <<nextSeq, reclaims, execSeq, log, tasks, applying, lock, storeVars>>
    PROVE  TypeInv'
BY DEF TypeInv, TypeOK, SlotsHoldRequests, InLog, Committed, storeVars

LEMMA TypeInvNext ==
    ASSUME TypeInv, [Next]_vars
    PROVE  TypeInv'
<1>1. CASE \E req \in Request : StartConsensus(req) \/ StartSelfTransfer(req)
  BY <1>1, TypeInvStartConsensus, TypeInvStartSelfTransfer
<1>2. ASSUME NEW m \in net, Handle(m)
      PROVE  TypeInv'
  <2>1. CASE OnPrePrepare(m)
    BY <2>1, TypeInvOnPrePrepare
  <2>2. CASE OnPrepare(m)
    BY <2>2, TypeInvOnPrepare
  <2>3. CASE OnPrepareCert(m)
    BY <2>3, TypeInvOnPrepareCert
  <2>4. CASE OnCommit(m)
    BY <2>4, TypeInvOnCommit
  <2>5. CASE OnDecidingCommit(m)
    BY <2>5, TypeInvOnDecidingCommit
  <2>6. CASE OnCommitCert(m)
    BY <2>6, TypeInvOnCommitCert
  <2>7. CASE OnDiscardSeq(m)
    BY <2>7, TypeInvOnDiscardSeq
  <2>8. CASE Ignore(m)
    <3>1. net' \subseteq net
      BY <2>8 DEF Ignore
    <3>2. QED
      BY <2>8, <3>1, TypeInvUnchanged DEF Ignore
  <2>9. QED
    BY <1>2, <2>1, <2>2, <2>3, <2>4, <2>5, <2>6, <2>7, <2>8 DEF Handle
<1>3. CASE \E r \in Replica : \E t \in tasks[r] : LockAndPrepare(r, t)
  BY <1>3, TypeInvLockAndPrepare
<1>4. CASE \E r \in Replica : \E t \in tasks[r] : LockWaitExpires(r, t)
  BY <1>4, TypeInvLockWaitExpires
<1>5. CASE \E r \in Replica : \E s \in SeqNo : Apply(r, s)
  BY <1>5, TypeInvApply
<1>6. CASE \E s \in SeqNo : Reclaim(s)
  BY <1>6, TypeInvReclaim
<1>7. CASE UNCHANGED vars
  <2>1. net' \subseteq net
    BY <1>7 DEF vars
  <2>2. QED
    BY <1>7, <2>1, TypeInvUnchanged DEF vars, storeVars
<1>8. QED
  BY <1>1, <1>2, <1>3, <1>4, <1>5, <1>6, <1>7 DEF Next

LEMMA TypeInvInvariant == Spec => []TypeInv
<1>1. TypeInv /\ [Next]_vars => TypeInv'
  BY TypeInvNext
<1>2. QED
  BY <1>1, TypeInvInit, PTL DEF Spec

\* Every variable keeps its type in every behaviour: balances stay natural
\* numbers because executeIntra checks the balance again, whatever was
\* checked at proposal time, and cursor and locks stay inside the log.
THEOREM TypeCorrect == Spec => []TypeOK
<1>1. TypeInv => TypeOK
  BY DEF TypeInv
<1>2. QED
  BY <1>1, TypeInvInvariant, PTL

-----------------------------------------------------------------------------
(***************************************************************************)
(* Agreement of the PBFT engine, and the finality of a commitment, for     *)
(* every cluster, set of requests and bound, with any number of reclaimed  *)
(* and re-proposed sequence numbers.                                       *)
(*                                                                         *)
(* The argument does not count votes: the primary is the only collector,   *)
(* so a COMMIT_CERT names the request of a slot that the primary holds as  *)
(* committed (CertsComeFromPrimary), and such a slot is never reclaimed,   *)
(* discarded or proposed again (SlotShape, NextSlotsUnproposed).           *)
(***************************************************************************)

\* The counter of startConsensus never stands on a live proposal.
NextSlotsUnproposed ==
    \A s \in SeqNo : s >= nextSeq => ~log[Primary][s].prePrepare

\* Certificates are kept only by slots that are proposed and not discarded.
SlotShape ==
    \A r \in Replica : \A s \in SeqNo : LET st == log[r][s] IN
        /\ st.prepareCert # {} \/ st.commitCert # {} => st.prePrepare
        /\ st.discarded => ~st.prePrepare

\* broadcastPrePrepare leaves the primary out.
PrePreparesGoToBackups ==
    \A m \in net : m.type = "PRE_PREPARE" => m.to # Primary

\* Only the primary, once it is committed, sends commit certificates.
CertsComeFromPrimary ==
    \A m \in net : m.type = "COMMIT_CERT" =>
        Committed(Primary, m.seq) /\ log[Primary][m.seq].req = m.req

CommitsMatchPrimary ==
    \A r \in Replica : \A s \in SeqNo : Committed(r, s) =>
        Committed(Primary, s) /\ log[Primary][s].req = log[r][s].req

AgreementInv ==
    /\ NextSlotsUnproposed
    /\ SlotShape
    /\ PrePreparesGoToBackups
    /\ CertsComeFromPrimary
    /\ CommitsMatchPrimary

(***************************************************************************)
(* The five ways in which a step can treat a slot, and what it can do to   *)
(* the counter and the messages.  Each action is one of them (the lemmas   *)
(* below), and the invariant follows from them alone.                      *)
(***************************************************************************)
Keeps(old, new) ==
    /\ new.prePrepare = old.prePrepare
    /\ new.discarded = old.discarded
    /\ new.req = old.req
    /\ new.prepareCert = old.prepareCert
    /\ new.commitCert = old.commitCert

Proposes(r, s, old, new) ==
    /\ ~(old.prePrepare /\ ~old.discarded)
    /\ r = Primary => s = nextSeq /\ nextSeq' > s
    /\ new.prePrepare /\ ~new.discarded
    /\ new.prepareCert = {} /\ new.commitCert = {}

Certifies(old, new) ==
    /\ old.prePrepare /\ new.prePrepare
    /\ new.discarded = old.discarded
    /\ new.req = old.req
    /\ new.commitCert = old.commitCert

Commits(r, s, old, new) ==
    /\ old.prePrepare /\ new.prePrepare
    /\ new.discarded = old.discarded
    /\ new.req = old.req
    /\ new.commitCert # {}
    /\ \/ r = Primary
       \/ \E m \in net : m.type = "COMMIT_CERT" /\ m.seq = s /\ m.req = old.req

Discards(old, new) ==
    /\ old.commitCert = {}
    /\ ~new.prePrepare
    /\ new.prepareCert = {} /\ new.commitCert = {}

SlotStep(r, s, old, new) ==
    \/ Keeps(old, new)
    \/ Proposes(r, s, old, new)
    \/ Certifies(old, new)
    \/ Commits(r, s, old, new)
    \/ Discards(old, new)

LogStep == \A r \in Replica : \A s \in SeqNo : SlotStep(r, s, log[r][s], log'[r][s])

CounterStep ==
    \/ nextSeq' >= nextSeq
    \/ nextSeq' = nextSeq - 1 /\ (nextSeq' \in SeqNo => ~log'[Primary][nextSeq'].prePrepare)

NetStep == \A m \in net' \ net :
    /\ m.type = "PRE_PREPARE" => m.to # Primary
    /\ m.type = "COMMIT_CERT" =>
        Committed(Primary, m.seq)' /\ log'[Primary][m.seq].req = m.req

StepEffect == LogStep /\ CounterStep /\ NetStep

\* Finality, as a relation between a state and the next one.
CommitmentsKept ==
    \A r \in Replica : \A s \in SeqNo :
        Committed(r, s) => Committed(r, s)' /\ log'[r][s].req = log[r][s].req

-----------------------------------------------------------------------------
(***************************************************************************)
(* Frames: the actions that write no slot, one slot, or run tryExecute.    *)
(***************************************************************************)
LEMMA LogUnchanged ==
    ASSUME UNCHANGED log
    PROVE  LogStep
BY DEF LogStep, SlotStep, Keeps

LEMMA OneSlotStep ==
    ASSUME NEW r \in Replica, NEW s \in SeqNo,
           \A q \in Replica : \A t \in SeqNo :
               q # r \/ t # s => log'[q][t] = log[q][t],
           SlotStep(r, s, log[r][s], log'[r][s])
    PROVE  LogStep
BY DEF LogStep, SlotStep, Keeps

\* tryExecute after slot s of replica r has become new.
LEMMA ExecutingStep ==
    ASSUME TypeInv, NEW r \in Replica, NEW s \in SeqNo, NEW new \in Slot,
           NEW from \in 1 .. MaxSeq + 1, NEW claims \in SUBSET SeqNo,
           NEW slots \in [SeqNo -> Slot], slots[s] = new,
           \A t \in SeqNo : t # s => slots[t] = log[r][t],
           TryExecute(r, slots, from, claims),
           SlotStep(r, s, log[r][s], new)
    PROVE  /\ LogStep
           /\ log'[r][s].req = new.req
           /\ log'[r][s].commitCert = new.commitCert
<1>1. /\ log \in [Replica -> [SeqNo -> Slot]]
      /\ execSeq \in [Replica -> 1 .. MaxSeq + 1]
      /\ applying \in [Replica -> SUBSET SeqNo]
  BY DEF TypeInv, TypeOK
<1>2. /\ \A q \in Replica \ {r} : log'[q] = log[q]
      /\ \A t \in SeqNo : Keeps(slots[t], log'[r][t])
  <2>1. /\ \A q \in Replica \ {r} : log'[q] = log[q]
        /\ \A t \in SeqNo :
            /\ log'[r][t].prePrepare = slots[t].prePrepare
            /\ log'[r][t].discarded = slots[t].discarded
            /\ log'[r][t].req = slots[t].req
            /\ log'[r][t].prepareCert = slots[t].prepareCert
            /\ log'[r][t].commitCert = slots[t].commitCert
    BY <1>1, TryExecuteEffect DEF ExecutionEffect
  <2>2. QED
    BY <2>1 DEF Keeps
<1>3. SlotStep(r, s, log[r][s], log'[r][s])
  <2>1. Keeps(new, log'[r][s])
    BY <1>2
  <2>2. CASE Keeps(log[r][s], new)
    BY <2>1, <2>2 DEF SlotStep, Keeps
  <2>3. CASE Proposes(r, s, log[r][s], new)
    BY <2>1, <2>3 DEF SlotStep, Keeps, Proposes
  <2>4. CASE Certifies(log[r][s], new)
    BY <2>1, <2>4 DEF SlotStep, Keeps, Certifies
  <2>5. CASE Commits(r, s, log[r][s], new)
    BY <2>1, <2>5 DEF SlotStep, Keeps, Commits
  <2>6. CASE Discards(log[r][s], new)
    BY <2>1, <2>6 DEF SlotStep, Keeps, Discards
  <2>7. QED
    BY <2>2, <2>3, <2>4, <2>5, <2>6 DEF SlotStep
<1>4. \A q \in Replica : \A t \in SeqNo :
        q # r \/ t # s => Keeps(log[q][t], log'[q][t])
  BY <1>2 DEF Keeps
<1>5. LogStep
  BY <1>3, <1>4 DEF LogStep, SlotStep
<1>6. QED
  BY <1>2, <1>5 DEF Keeps

\* An action that leaves the counter alone.
LEMMA CounterKept ==
    ASSUME TypeInv, nextSeq' = nextSeq
    PROVE  CounterStep
<1>1. nextSeq \in Int
  BY BoundAssumption DEF TypeInv, TypeOK
<1>2. nextSeq' >= nextSeq
  BY <1>1
<1>3. QED
  BY <1>2 DEF CounterStep

\* An action that sends at most votes, prepare certificates and discards.
LEMMA OnlyOtherMessages ==
    ASSUME NEW sent, net' \subseteq net \cup sent,
           \A n \in sent : n.type # "PRE_PREPARE" /\ n.type # "COMMIT_CERT"
    PROVE  NetStep
BY DEF NetStep

\* What votes and certificates are.
LEMMA VotesAndCerts ==
    ASSUME NEW r, NEW s, NEW req, NEW sigs
    PROVE  /\ VoteMsg("COMMIT", r, s, req).type = "COMMIT"
           /\ CertMsg("PREPARE_CERT", r, s, req, sigs).type = "PREPARE_CERT"
           /\ CertMsg("COMMIT_CERT", r, s, req, sigs).type = "COMMIT_CERT"
           /\ CertMsg("COMMIT_CERT", r, s, req, sigs).seq = s
           /\ CertMsg("COMMIT_CERT", r, s, req, sigs).req = req
BY DEF VoteMsg, CertMsg

\* Quorums are not empty.
LEMMA QuorumNotEmpty ==
    ASSUME NEW sigs, Cardinality(sigs) >= Quorum
    PROVE  sigs # {}
<1> SUFFICES ASSUME sigs = {} PROVE FALSE
  OBVIOUS
<1>1. Cardinality(sigs) = 0
  BY FS_EmptySet
<1>2. Quorum \in Nat /\ Quorum >= 1
  BY FaultAssumption DEF Quorum
<1>3. QED
  BY <1>1, <1>2

-----------------------------------------------------------------------------
(***************************************************************************)
(* One lemma per action that writes the log.                               *)
(***************************************************************************)
LEMMA EffectStartConsensus ==
    ASSUME TypeInv, AgreementInv, NEW req \in Request, StartConsensus(req)
    PROVE  StepEffect
<1>1. /\ Primary \in Replica
      /\ nextSeq \in SeqNo
      /\ nextSeq \in Nat
      /\ nextSeq' = nextSeq + 1
  BY FaultAssumption, BoundAssumption DEF StartConsensus, Startable, SeqNo
<1>2. /\ log'[Primary][nextSeq] = Proposed(req)
      /\ \A q \in Replica : \A t \in SeqNo :
            q # Primary \/ t # nextSeq => log'[q][t] = log[q][t]
  BY <1>1 DEF StartConsensus, TypeInv, TypeOK
<1>3. Proposes(Primary, nextSeq, log[Primary][nextSeq], Proposed(req))
  BY <1>1 DEF Proposes, Proposed, EmptySlot, AgreementInv, NextSlotsUnproposed
<1>4. LogStep
  BY <1>1, <1>2, <1>3, OneSlotStep DEF SlotStep
<1>5. NetStep
  BY DEF StartConsensus, NetStep, PrePrepareMsg
<1>6. QED
  BY <1>1, <1>4, <1>5 DEF StepEffect, CounterStep

LEMMA EffectOnPrePrepare ==
    ASSUME TypeInv, AgreementInv, NEW m \in net, OnPrePrepare(m)
    PROVE  StepEffect
<1>1. m.to \in Replica /\ m.seq \in SeqNo
  BY MessageFields DEF TypeInv, TypeOK
<1>2. /\ log'[m.to][m.seq] = Proposed(m.req)
      /\ \A q \in Replica : \A t \in SeqNo :
            q # m.to \/ t # m.seq => log'[q][t] = log[q][t]
  BY <1>1 DEF OnPrePrepare, TypeInv, TypeOK
<1>3. m.to # Primary
  BY DEF OnPrePrepare, AgreementInv, PrePreparesGoToBackups
<1>4. Proposes(m.to, m.seq, log[m.to][m.seq], Proposed(m.req))
  BY <1>3 DEF Proposes, Proposed, EmptySlot, OnPrePrepare, AcceptsPrePrepare
<1>5. LogStep
  BY <1>1, <1>2, <1>4, OneSlotStep DEF SlotStep
<1>6. NetStep
  BY DEF NetStep, OnPrePrepare
<1>7. CounterStep
  BY CounterKept DEF OnPrePrepare
<1>8. QED
  BY <1>5, <1>6, <1>7 DEF StepEffect

LEMMA EffectOnPrepare ==
    ASSUME TypeInv, AgreementInv, NEW m \in net, OnPrepare(m)
    PROVE  StepEffect
<1> DEFINE st    == log[m.to][m.seq]
           votes == st.prepares \cup {m.from}
           cert  == Cardinality(votes) >= Quorum /\ st.prepareCert = {}
           new   == [st EXCEPT !.prepares = votes,
                               !.prepareCert = IF cert THEN votes ELSE @]
<1>1. m.to \in Replica /\ m.seq \in SeqNo
  BY MessageFields DEF TypeInv, TypeOK
<1>2. log \in [Replica -> [SeqNo -> Slot]] /\ st \in Slot
  BY <1>1 DEF TypeInv, TypeOK
<1>3. log' = [log EXCEPT ![m.to][m.seq] = new]
  BY <1>1, <1>2 DEF OnPrepare
<1>4. Certifies(st, new)
  BY <1>2 DEF Slot, Certifies, OnPrepare, AcceptsPrepare
<1> HIDE DEF new
<1>5. /\ log'[m.to][m.seq] = new
      /\ \A q \in Replica : \A t \in SeqNo :
            q # m.to \/ t # m.seq => log'[q][t] = log[q][t]
  BY <1>1, <1>2, <1>3
<1>6. LogStep
  BY <1>1, <1>4, <1>5, OneSlotStep DEF SlotStep
<1>7. NetStep
  <2> DEFINE sent == {VoteMsg("COMMIT", m.to, m.seq, m.req)} \cup
                     {CertMsg("PREPARE_CERT", r, m.seq, m.req, votes) : r \in Up \ {m.to}}
  <2>1. net' = (net \ {m}) \cup (IF cert THEN sent ELSE {})
    BY DEF OnPrepare
  <2>2. \A n \in sent : n.type \in {"COMMIT", "PREPARE_CERT"}
    BY VotesAndCerts
  <2> HIDE DEF sent, cert
  <2>3. net' \subseteq net \cup sent
    BY <2>1
  <2>4. QED
    BY <2>2, <2>3, OnlyOtherMessages
<1>8. CounterStep
  BY CounterKept DEF OnPrepare
<1>9. QED
  BY <1>6, <1>7, <1>8 DEF StepEffect

LEMMA EffectOnPrepareCert ==
    ASSUME TypeInv, AgreementInv, NEW m \in net, OnPrepareCert(m)
    PROVE  StepEffect
<1> DEFINE st  == log[m.to][m.seq]
           new == [st EXCEPT !.prepareCert = m.sigs]
<1>1. m.to \in Replica /\ m.seq \in SeqNo
  BY MessageFields DEF TypeInv, TypeOK
<1>2. log \in [Replica -> [SeqNo -> Slot]] /\ st \in Slot
  BY <1>1 DEF TypeInv, TypeOK
<1>3. log' = [log EXCEPT ![m.to][m.seq] = new]
  BY <1>1, <1>2 DEF OnPrepareCert
<1>4. Certifies(st, new)
  BY <1>2 DEF Slot, Certifies, OnPrepareCert, AcceptsCert
<1> HIDE DEF new
<1>5. /\ log'[m.to][m.seq] = new
      /\ \A q \in Replica : \A t \in SeqNo :
            q # m.to \/ t # m.seq => log'[q][t] = log[q][t]
  BY <1>1, <1>2, <1>3
<1>6. LogStep
  BY <1>1, <1>4, <1>5, OneSlotStep DEF SlotStep
<1>7. NetStep
  <2>1. net' = (net \ {m}) \cup {VoteMsg("COMMIT", m.to, m.seq, m.req)}
    BY DEF OnPrepareCert
  <2> DEFINE vote == VoteMsg("COMMIT", m.to, m.seq, m.req)
  <2>2. vote.type = "COMMIT"
    BY VotesAndCerts
  <2> HIDE DEF vote
  <2>3. net' = (net \ {m}) \cup {vote}
    BY <2>1 DEF vote
  <2>4. QED
    BY <2>2, <2>3 DEF NetStep
<1>8. CounterStep
  BY CounterKept DEF OnPrepareCert
<1>9. QED
  BY <1>6, <1>7, <1>8 DEF StepEffect

LEMMA EffectOnCommit ==
    ASSUME TypeInv, AgreementInv, NEW m \in net, OnCommit(m)
    PROVE  StepEffect
<1> DEFINE st    == log[m.to][m.seq]
           votes == st.commits \cup {m.from}
           new   == [st EXCEPT !.commits = votes]
<1>1. m.to \in Replica /\ m.seq \in SeqNo
  BY MessageFields DEF TypeInv, TypeOK
<1>2. log \in [Replica -> [SeqNo -> Slot]] /\ st \in Slot
  BY <1>1 DEF TypeInv, TypeOK
<1>3. log' = [log EXCEPT ![m.to][m.seq] = new]
  BY <1>1, <1>2 DEF OnCommit
<1>4. Keeps(st, new)
  BY <1>2 DEF Slot, Keeps
<1> HIDE DEF new
<1>5. /\ log'[m.to][m.seq] = new
      /\ \A q \in Replica : \A t \in SeqNo :
            q # m.to \/ t # m.seq => log'[q][t] = log[q][t]
  BY <1>1, <1>2, <1>3
<1>6. LogStep
  BY <1>1, <1>4, <1>5, OneSlotStep DEF SlotStep
<1>7. NetStep
  BY DEF NetStep, OnCommit
<1>8. CounterStep
  BY CounterKept DEF OnCommit
<1>9. QED
  BY <1>6, <1>7, <1>8 DEF StepEffect

LEMMA EffectOnDecidingCommit ==
    ASSUME TypeInv, AgreementInv, NEW m \in net, OnDecidingCommit(m)
    PROVE  StepEffect
<1> DEFINE st    == log[m.to][m.seq]
           votes == st.commits \cup {m.from}
           new   == [st EXCEPT !.commits = votes, !.commitCert = votes]
           slots == [log[m.to] EXCEPT ![m.seq] = new]
<1>1. m.to \in Replica /\ m.seq \in SeqNo /\ m.from \in Replica /\ m.to = Primary
  BY MessageFields DEF OnDecidingCommit, AcceptsCommit, TypeInv, TypeOK
<1>2. log \in [Replica -> [SeqNo -> Slot]] /\ st \in Slot
  BY <1>1 DEF TypeInv, TypeOK
<1>3. new \in Slot /\ new.req = m.req /\ new.commitCert # {}
  BY <1>1, <1>2 DEF Slot, OnDecidingCommit, AcceptsCommit
<1>4. Commits(m.to, m.seq, st, new)
  BY <1>1, <1>2, <1>3
     DEF Slot, Commits, OnDecidingCommit, AcceptsCommit, AgreementInv, SlotShape
<1>5. TryExecute(m.to, slots, execSeq[m.to], applying[m.to])
  BY <1>1, <1>2 DEF OnDecidingCommit
<1>6. execSeq[m.to] \in 1 .. MaxSeq + 1 /\ applying[m.to] \in SUBSET SeqNo
  BY <1>1 DEF TypeInv, TypeOK
<1> HIDE DEF new
<1>7. /\ slots \in [SeqNo -> Slot]
      /\ slots[m.seq] = new
      /\ \A t \in SeqNo : t # m.seq => slots[t] = log[m.to][t]
  BY <1>1, <1>2, <1>3, SlotPassed
<1> HIDE DEF slots
<1>8. /\ LogStep
      /\ log'[m.to][m.seq].req = new.req
      /\ log'[m.to][m.seq].commitCert = new.commitCert
  BY <1>1, <1>3, <1>4, <1>5, <1>6, <1>7, ExecutingStep DEF SlotStep
<1>9. NetStep
  <2> DEFINE sent == {CertMsg("COMMIT_CERT", r, m.seq, m.req, votes) : r \in Up \ {m.to}}
  <2>1. net' = (net \ {m}) \cup sent
    BY DEF OnDecidingCommit
  <2>2. \A n \in sent : n.type = "COMMIT_CERT" /\ n.seq = m.seq /\ n.req = m.req
    BY VotesAndCerts
  <2>3. Committed(Primary, m.seq)' /\ log'[Primary][m.seq].req = m.req
    BY <1>1, <1>3, <1>8 DEF Committed
  <2> HIDE DEF sent
  <2>4. QED
    BY <2>1, <2>2, <2>3 DEF NetStep, Committed
<1>10. CounterStep
  BY CounterKept DEF OnDecidingCommit
<1>11. QED
  BY <1>8, <1>9, <1>10 DEF StepEffect

LEMMA EffectOnCommitCert ==
    ASSUME TypeInv, AgreementInv, NEW m \in net, OnCommitCert(m)
    PROVE  StepEffect
<1> DEFINE st    == log[m.to][m.seq]
           new   == [st EXCEPT !.commitCert = m.sigs]
           slots == [log[m.to] EXCEPT ![m.seq] = new]
<1>1. m.to \in Replica /\ m.seq \in SeqNo /\ m.sigs \in SUBSET Replica
  BY MessageFields DEF OnCommitCert, TypeInv, TypeOK
<1>2. log \in [Replica -> [SeqNo -> Slot]] /\ st \in Slot
  BY <1>1 DEF TypeInv, TypeOK
<1>3. m.sigs # {}
  BY QuorumNotEmpty DEF OnCommitCert, AcceptsCert
<1>4. new \in Slot
  BY <1>1, <1>2 DEF Slot
<1>5. Commits(m.to, m.seq, st, new)
  BY <1>2, <1>3 DEF Slot, Commits, OnCommitCert, AcceptsCert
<1>6. TryExecute(m.to, slots, execSeq[m.to], applying[m.to])
  BY <1>1, <1>2 DEF OnCommitCert
<1>7. execSeq[m.to] \in 1 .. MaxSeq + 1 /\ applying[m.to] \in SUBSET SeqNo
  BY <1>1 DEF TypeInv, TypeOK
<1> HIDE DEF new
<1>8. /\ slots \in [SeqNo -> Slot]
      /\ slots[m.seq] = new
      /\ \A t \in SeqNo : t # m.seq => slots[t] = log[m.to][t]
  BY <1>1, <1>2, <1>4, SlotPassed
<1> HIDE DEF slots
<1>9. LogStep
  BY <1>1, <1>4, <1>5, <1>6, <1>7, <1>8, ExecutingStep DEF SlotStep
<1>10. NetStep
  BY DEF NetStep, OnCommitCert
<1>11. CounterStep
  BY CounterKept DEF OnCommitCert
<1>12. QED
  BY <1>9, <1>10, <1>11 DEF StepEffect

LEMMA EffectApply ==
    ASSUME TypeInv, NEW r \in Replica, NEW s \in SeqNo, Apply(r, s)
    PROVE  StepEffect
<1>1. /\ log[r] \in [SeqNo -> Slot]
      /\ execSeq[r] \in 1 .. MaxSeq + 1
      /\ applying[r] \ {s} \in SUBSET SeqNo
  BY DEF TypeInv, TypeOK
<1>2. log[r][s] \in Slot
  BY <1>1
<1>3. TryExecute(r, log[r], execSeq[r], applying[r] \ {s})
  BY DEF Apply
<1>4. LogStep
  BY <1>1, <1>2, <1>3, ExecutingStep, Keeps(log[r][s], log[r][s]) DEF SlotStep, Keeps
<1>5. NetStep
  BY DEF NetStep, Apply
<1>6. CounterStep
  BY CounterKept DEF Apply
<1>7. QED
  BY <1>4, <1>5, <1>6 DEF StepEffect

LEMMA EffectReclaim ==
    ASSUME TypeInv, NEW s \in SeqNo, Reclaim(s)
    PROVE  StepEffect
<1>1. Primary \in Replica /\ log \in [Replica -> [SeqNo -> Slot]]
  BY FaultAssumption DEF TypeInv, TypeOK
<1>2. /\ log'[Primary][s] = Tombstone(log[Primary][s])
      /\ \A q \in Replica : \A t \in SeqNo :
            q # Primary \/ t # s => log'[q][t] = log[q][t]
  BY <1>1 DEF Reclaim
<1>3. Discards(log[Primary][s], Tombstone(log[Primary][s]))
  BY DEF Discards, Tombstone, EmptySlot, Reclaim
<1>4. LogStep
  BY <1>1, <1>2, <1>3, OneSlotStep DEF SlotStep
<1>5. CounterStep
  <2>1. ~log'[Primary][s].prePrepare
    BY <1>2, <1>3 DEF Discards
  <2>2. nextSeq \in Int /\ s \in Int
    BY BoundAssumption DEF SeqNo, TypeInv, TypeOK
  <2>3. QED
    BY <2>1, <2>2 DEF CounterStep, Reclaim
<1>6. NetStep
  BY DEF NetStep, Reclaim, DiscardSeqMsg
<1>7. QED
  BY <1>4, <1>5, <1>6 DEF StepEffect

LEMMA EffectOnDiscardSeq ==
    ASSUME TypeInv, NEW m \in net, OnDiscardSeq(m)
    PROVE  StepEffect
<1> DEFINE st    == log[m.to][m.seq]
           new   == Tombstone(st)
           slots == [log[m.to] EXCEPT ![m.seq] = new]
           from  == IF execSeq[m.to] = m.seq THEN m.seq + 1 ELSE execSeq[m.to]
<1>1. m.to \in Replica /\ m.seq \in SeqNo
  BY MessageFields DEF TypeInv, TypeOK
<1>2. log \in [Replica -> [SeqNo -> Slot]] /\ st \in Slot
  BY <1>1 DEF TypeInv, TypeOK
<1>3. new \in Slot
  BY <1>2, SlotTypes
<1>4. Discards(st, new)
  BY DEF Discards, Tombstone, EmptySlot, OnDiscardSeq, AcceptsDiscardSeq
<1>5. TryExecute(m.to, slots, from, applying[m.to])
  BY DEF OnDiscardSeq
<1>6. from \in 1 .. MaxSeq + 1 /\ applying[m.to] \in SUBSET SeqNo
  BY <1>1, BoundAssumption DEF SeqNo, TypeInv, TypeOK
<1> HIDE DEF new, from
<1>7. /\ slots \in [SeqNo -> Slot]
      /\ slots[m.seq] = new
      /\ \A t \in SeqNo : t # m.seq => slots[t] = log[m.to][t]
  BY <1>1, <1>2, <1>3, SlotPassed
<1> HIDE DEF slots
<1>8. LogStep
  BY <1>1, <1>3, <1>4, <1>5, <1>6, <1>7, ExecutingStep DEF SlotStep
<1>9. QED
  BY <1>8 DEF StepEffect, CounterStep, NetStep, OnDiscardSeq, TypeInv, TypeOK

LEMMA EffectSlotsUnchanged ==
    ASSUME TypeInv, UNCHANGED log, nextSeq' >= nextSeq, NetStep
    PROVE  StepEffect
BY LogUnchanged DEF StepEffect, CounterStep

LEMMA EffectNext ==
    ASSUME TypeInv, AgreementInv, [Next]_vars
    PROVE  StepEffect
<1>0. nextSeq \in Nat
  BY BoundAssumption DEF TypeInv, TypeOK
<1>1. ASSUME NEW req \in Request, StartConsensus(req) \/ StartSelfTransfer(req)
      PROVE  StepEffect
  <2>1. CASE StartConsensus(req)
    BY <2>1, EffectStartConsensus
  <2>2. CASE StartSelfTransfer(req)
    <3>1. UNCHANGED log /\ nextSeq' >= nextSeq /\ NetStep
      BY <1>0, <2>2 DEF StartSelfTransfer, NetStep
    <3>2. QED
      BY <3>1, EffectSlotsUnchanged
  <2>3. QED
    BY <1>1, <2>1, <2>2
<1>2. ASSUME NEW m \in net, Handle(m)
      PROVE  StepEffect
  <2>1. CASE OnPrePrepare(m)
    BY <2>1, EffectOnPrePrepare
  <2>2. CASE OnPrepare(m)
    BY <2>2, EffectOnPrepare
  <2>3. CASE OnPrepareCert(m)
    BY <2>3, EffectOnPrepareCert
  <2>4. CASE OnCommit(m)
    BY <2>4, EffectOnCommit
  <2>5. CASE OnDecidingCommit(m)
    BY <2>5, EffectOnDecidingCommit
  <2>6. CASE OnCommitCert(m)
    BY <2>6, EffectOnCommitCert
  <2>7. CASE OnDiscardSeq(m)
    BY <2>7, EffectOnDiscardSeq
  <2>8. CASE Ignore(m)
    <3>1. UNCHANGED log /\ nextSeq' >= nextSeq /\ NetStep
      BY <1>0, <2>8 DEF Ignore, NetStep
    <3>2. QED
      BY <3>1, EffectSlotsUnchanged
  <2>9. QED
    BY <1>2, <2>1, <2>2, <2>3, <2>4, <2>5, <2>6, <2>7, <2>8 DEF Handle
<1>3. ASSUME NEW r \in Replica, NEW t \in tasks[r],
             LockAndPrepare(r, t) \/ LockWaitExpires(r, t)
      PROVE  StepEffect
  <2>1. UNCHANGED log /\ nextSeq' >= nextSeq /\ NetStep
    BY <1>0, <1>3 DEF LockAndPrepare, LockWaitExpires, NetStep, VoteMsg
  <2>2. QED
    BY <2>1, EffectSlotsUnchanged
<1>4. CASE \E r \in Replica : \E s \in SeqNo : Apply(r, s)
  BY <1>4, EffectApply
<1>5. CASE \E s \in SeqNo : Reclaim(s)
  BY <1>5, EffectReclaim
<1>6. CASE UNCHANGED vars
  <2>1. UNCHANGED log /\ nextSeq' >= nextSeq /\ NetStep
    BY <1>0, <1>6 DEF vars, NetStep
  <2>2. QED
    BY <2>1, EffectSlotsUnchanged
<1>7. QED
  BY <1>1, <1>2, <1>3, <1>4, <1>5, <1>6 DEF Next

-----------------------------------------------------------------------------
(***************************************************************************)
(* The invariant from the effects.                                         *)
(***************************************************************************)
LEMMA CommitmentsKeptByStep ==
    ASSUME TypeInv, AgreementInv, StepEffect
    PROVE  CommitmentsKept
<1> SUFFICES ASSUME NEW r \in Replica, NEW s \in SeqNo, Committed(r, s)
             PROVE  Committed(r, s)' /\ log'[r][s].req = log[r][s].req
  BY DEF CommitmentsKept
<1>1. log[r][s].prePrepare /\ ~log[r][s].discarded
  BY DEF AgreementInv, SlotShape, Committed
<1>2. SlotStep(r, s, log[r][s], log'[r][s])
  BY DEF StepEffect, LogStep
<1>3. QED
  BY <1>1, <1>2
     DEF SlotStep, Keeps, Proposes, Certifies, Commits, Discards, Committed

LEMMA AgreementInvStep ==
    ASSUME TypeInv, TypeInv', AgreementInv, StepEffect
    PROVE  AgreementInv'
<1>1. CommitmentsKept
  BY CommitmentsKeptByStep
<1>2. Primary \in Replica /\ nextSeq \in Int /\ nextSeq' \in Int
  BY FaultAssumption, BoundAssumption DEF TypeInv, TypeOK
<1>3. NextSlotsUnproposed'
  <2> SUFFICES ASSUME NEW s \in SeqNo, s >= nextSeq'
               PROVE  ~log'[Primary][s].prePrepare
    BY DEF NextSlotsUnproposed
  <2>1. SlotStep(Primary, s, log[Primary][s], log'[Primary][s])
    BY <1>2 DEF StepEffect, LogStep
  <2>2. CASE s >= nextSeq
    <3>1. ~log[Primary][s].prePrepare
      BY <2>2 DEF AgreementInv, NextSlotsUnproposed
    <3>2. ~Proposes(Primary, s, log[Primary][s], log'[Primary][s])
      <4> SUFFICES ASSUME Proposes(Primary, s, log[Primary][s], log'[Primary][s])
                   PROVE  FALSE
        OBVIOUS
      <4>1. s = nextSeq /\ nextSeq' > s
        BY DEF Proposes
      <4>2. QED
        BY <1>2, <4>1
    <3>3. QED
      BY <2>1, <3>1, <3>2 DEF SlotStep, Keeps, Certifies, Commits, Discards
  <2>3. CASE ~(s >= nextSeq)
    <3>1. s \in Int
      BY DEF SeqNo
    <3>2. nextSeq' = s
      BY <1>2, <2>3, <3>1 DEF StepEffect, CounterStep
    <3>3. QED
      BY <1>2, <2>3, <3>1, <3>2 DEF StepEffect, CounterStep
  <2>4. QED
    BY <2>2, <2>3
<1>4. SlotShape'
  <2> SUFFICES ASSUME NEW r \in Replica, NEW s \in SeqNo
               PROVE  /\ log'[r][s].prepareCert # {} \/ log'[r][s].commitCert # {}
                            => log'[r][s].prePrepare
                      /\ log'[r][s].discarded => ~log'[r][s].prePrepare
    BY DEF SlotShape
  <2>1. SlotStep(r, s, log[r][s], log'[r][s])
    BY DEF StepEffect, LogStep
  <2>2. QED
    BY <2>1
       DEF SlotStep, Keeps, Proposes, Certifies, Commits, Discards, AgreementInv, SlotShape
<1>5. PrePreparesGoToBackups'
  BY DEF PrePreparesGoToBackups, AgreementInv, StepEffect, NetStep
<1>6. CertsComeFromPrimary'
  <2> SUFFICES ASSUME NEW m \in net', m.type = "COMMIT_CERT"
               PROVE  Committed(Primary, m.seq)' /\ log'[Primary][m.seq].req = m.req
    BY DEF CertsComeFromPrimary
  <2>1. CASE m \in net
    <3>1. m.seq \in SeqNo
      BY <2>1, MessageFields DEF TypeInv, TypeOK
    <3>2. Committed(Primary, m.seq) /\ log[Primary][m.seq].req = m.req
      BY <2>1 DEF AgreementInv, CertsComeFromPrimary
    <3>3. QED
      BY <1>1, <1>2, <3>1, <3>2 DEF CommitmentsKept
  <2>2. CASE m \notin net
    BY <2>2 DEF StepEffect, NetStep
  <2>3. QED
    BY <2>1, <2>2
<1>7. CommitsMatchPrimary'
  <2> SUFFICES ASSUME NEW r \in Replica, NEW s \in SeqNo, Committed(r, s)'
               PROVE  Committed(Primary, s)' /\ log'[Primary][s].req = log'[r][s].req
    BY DEF CommitsMatchPrimary
  <2>1. CASE Committed(r, s)
    BY <1>1, <1>2, <2>1 DEF CommitmentsKept, AgreementInv, CommitsMatchPrimary
  <2>2. CASE ~Committed(r, s)
    <3>1. Commits(r, s, log[r][s], log'[r][s])
      BY <2>2 DEF StepEffect, LogStep, SlotStep, Keeps, Proposes, Certifies, Discards, Committed
    <3>2. CASE r = Primary
      BY <3>2
    <3>3. CASE \E m \in net : m.type = "COMMIT_CERT" /\ m.seq = s /\ m.req = log[r][s].req
      <4>1. Committed(Primary, s) /\ log[Primary][s].req = log[r][s].req
        BY <3>3 DEF AgreementInv, CertsComeFromPrimary
      <4>2. QED
        BY <1>1, <1>2, <3>1, <4>1 DEF CommitmentsKept, Commits
    <3>4. QED
      BY <3>1, <3>2, <3>3 DEF Commits
  <2>3. QED
    BY <2>1, <2>2
<1>8. QED
  BY <1>3, <1>4, <1>5, <1>6, <1>7 DEF AgreementInv

LEMMA AgreementInvInit == Init => AgreementInv
BY FaultAssumption
   DEF Init, AgreementInv, NextSlotsUnproposed, SlotShape, PrePreparesGoToBackups,
       CertsComeFromPrimary, CommitsMatchPrimary, Committed, EmptySlot

LEMMA AgreementInvariant == Spec => [](TypeInv /\ AgreementInv)
<1>1. TypeInv /\ AgreementInv /\ [Next]_vars => (TypeInv /\ AgreementInv)'
  BY TypeInvNext, EffectNext, AgreementInvStep
<1>2. Init => TypeInv /\ AgreementInv
  BY TypeInvInit, AgreementInvInit
<1>3. QED
  BY <1>1, <1>2, PTL DEF Spec

\* No two replicas commit different requests in one slot, whatever votes,
\* certificates and DISCARD_SEQs of an earlier, reclaimed use of the number
\* are still under way.
THEOREM Agreement == Spec => []CommittedAgreement
<1>1. AgreementInv => CommittedAgreement
  BY DEF AgreementInv, CommitsMatchPrimary, CommittedAgreement
<1>2. QED
  BY <1>1, AgreementInvariant, PTL

\* No step takes a commitment back or changes its request.
THEOREM Finality == Spec => CommitmentIsFinal
<1>1. TypeInv /\ AgreementInv /\ [Next]_vars => CommitmentsKept
  BY EffectNext, CommitmentsKeptByStep
<1>2. CommitmentsKept =>
        [\A r \in Replica : \A s \in SeqNo :
            Committed(r, s) => Committed(r, s)' /\ log'[r][s].req = log[r][s].req]_vars
  BY DEF CommitmentsKept
<1>3. QED
  BY <1>1, <1>2, AgreementInvariant, PTL DEF Spec, CommitmentIsFinal

-----------------------------------------------------------------------------
(***************************************************************************)
(* The PBFT engine implements a replicated log (ReplicatedLog), for every  *)
(* cluster, set of requests and bound.                                     *)
(*                                                                         *)
(* Agreement and finality (the previous section) say that what is learnt   *)
(* agrees and stays learnt.  What is left is the execution: each step      *)
(* claims at most one slot, at or after the cursor, and every slot claimed *)
(* before lies behind the cursor (ClaimsBehindCursor).                     *)
(***************************************************************************)

\* A claimed slot is committed, and the cursor of its replica is past it.
ClaimsBehindCursor ==
    \A r \in Replica : \A s \in SeqNo :
        log[r][s].executed => Committed(r, s) /\ s < execSeq[r]

RefinementInv == AgreementInv /\ ClaimsBehindCursor

(***************************************************************************)
(* What a step may do to claims and cursors: at one replica r, claim one   *)
(* committed slot that the cursor has not passed; and what it may do to    *)
(* commitments: give one slot s of r a certificate.                        *)
(***************************************************************************)
ClaimsNothing(r) == \A s \in SeqNo : log'[r][s].executed = log[r][s].executed

Claims(r, i) ==
    /\ log'[r][i].executed
    /\ Committed(r, i)'
    /\ execSeq[r] <= i /\ i < execSeq'[r]
    /\ \A s \in SeqNo \ {i} : log'[r][s].executed = log[r][s].executed

ClaimEffect(r) ==
    /\ \A q \in Replica \ {r} : ClaimsNothing(q) /\ execSeq'[q] = execSeq[q]
    /\ execSeq[r] <= execSeq'[r]
    /\ ClaimsNothing(r) \/ \E i \in SeqNo : Claims(r, i)

CommitEffect(r, s) ==
    \A q \in Replica : \A t \in SeqNo :
        q # r \/ t # s => log'[q][t].commitCert = log[q][t].commitCert

LearnAndStart ==
    \/ UNCHANGED <<log, execSeq>>
    \/ \E r \in Replica : \E s \in SeqNo : ClaimEffect(r) /\ CommitEffect(r, s)

-----------------------------------------------------------------------------
(***************************************************************************)
(* Frames.                                                                 *)
(***************************************************************************)
\* A step that writes one slot, claims nothing and moves no cursor back.
LEMMA WritingClaims ==
    ASSUME TypeInv, NEW r \in Replica, NEW s \in SeqNo,
           \A q \in Replica : \A t \in SeqNo :
               q # r \/ t # s => log'[q][t] = log[q][t],
           log'[r][s].executed = log[r][s].executed,
           \A q \in Replica \ {r} : execSeq'[q] = execSeq[q],
           execSeq[r] <= execSeq'[r]
    PROVE  LearnAndStart
<1>1. CommitEffect(r, s)
  BY DEF CommitEffect
<1>2. ClaimEffect(r)
  BY DEF ClaimEffect, ClaimsNothing
<1>3. QED
  BY <1>1, <1>2 DEF LearnAndStart

\* tryExecute after slot s of replica r has become new.
LEMMA ExecutingClaims ==
    ASSUME TypeInv, NEW r \in Replica, NEW s \in SeqNo, NEW new \in Slot,
           NEW from \in 1 .. MaxSeq + 1, NEW claims \in SUBSET SeqNo,
           NEW slots \in [SeqNo -> Slot], slots[s] = new,
           \A t \in SeqNo : t # s => slots[t] = log[r][t],
           TryExecute(r, slots, from, claims),
           execSeq[r] <= from,
           new.executed = log[r][s].executed
    PROVE  LearnAndStart
<1>1. /\ log \in [Replica -> [SeqNo -> Slot]]
      /\ execSeq \in [Replica -> 1 .. MaxSeq + 1]
      /\ applying \in [Replica -> SUBSET SeqNo]
      /\ MaxSeq \in Nat
  BY BoundAssumption DEF TypeInv, TypeOK
<1>2. ExecutionEffect(r, slots, claims)
  BY <1>1, TryExecuteEffect
<1>3. CommitEffect(r, s)
  BY <1>2 DEF ExecutionEffect, CommitEffect
<1>4. \A t \in SeqNo : slots[t].executed = log[r][t].executed
  OBVIOUS
<1>5. PICK i \in from .. MaxSeq + 1 :
        IF i \in SeqNo /\ slots[i].commitCert # {} /\ ~slots[i].executed
        THEN /\ log' = [log EXCEPT ![r] = [slots EXCEPT ![i].executed = TRUE]]
             /\ execSeq' = [execSeq EXCEPT ![r] = i + 1]
        ELSE /\ log' = [log EXCEPT ![r] = slots]
             /\ execSeq' = [execSeq EXCEPT ![r] = i]
  BY DEF TryExecute
<1>6. i \in Int /\ from \in Int /\ from <= i /\ execSeq[r] \in Int /\ execSeq[r] <= i
  BY <1>1
<1>7. \A q \in Replica \ {r} : ClaimsNothing(q) /\ execSeq'[q] = execSeq[q]
  BY <1>1, <1>5 DEF ClaimsNothing
<1>8. CASE i \in SeqNo /\ slots[i].commitCert # {} /\ ~slots[i].executed
  <2>1. /\ log'[r] = [slots EXCEPT ![i].executed = TRUE]
        /\ execSeq'[r] = i + 1
    BY <1>1, <1>5, <1>8
  <2>2. \A t \in SeqNo \ {i} : log'[r][t].executed = log[r][t].executed
    BY <1>4, <2>1
  <2>3. log'[r][i].executed
    <3>1. log'[r][i] = [slots[i] EXCEPT !.executed = TRUE]
      BY <1>8, <2>1
    <3>2. slots[i] \in Slot
      BY <1>8
    <3>3. QED
      BY <3>1, <3>2 DEF Slot
  <2>4. Committed(r, i)'
    BY <1>2, <1>8 DEF ExecutionEffect, Committed
  <2>5. Claims(r, i)
    BY <1>6, <2>1, <2>2, <2>3, <2>4 DEF Claims
  <2>6. ClaimEffect(r)
    BY <1>6, <1>7, <1>8, <2>1, <2>5 DEF ClaimEffect
  <2>7. QED
    BY <1>3, <2>6 DEF LearnAndStart
<1>9. CASE ~(i \in SeqNo /\ slots[i].commitCert # {} /\ ~slots[i].executed)
  <2>1. log'[r] = slots /\ execSeq'[r] = i
    BY <1>1, <1>5, <1>9
  <2>2. ClaimsNothing(r)
    BY <1>4, <2>1 DEF ClaimsNothing
  <2>3. ClaimEffect(r)
    BY <1>6, <1>7, <2>1, <2>2 DEF ClaimEffect
  <2>4. QED
    BY <1>3, <2>3 DEF LearnAndStart
<1>10. QED
  BY <1>8, <1>9

\* A handler that writes one slot of its replica and touches no cursor.
LEMMA HandlerClaims ==
    ASSUME TypeInv, NEW r \in Replica, NEW s \in SeqNo, NEW st \in Slot,
           log' = [log EXCEPT ![r][s] = st],
           st.executed = log[r][s].executed,
           UNCHANGED execSeq
    PROVE  LearnAndStart
<1>1. /\ log \in [Replica -> [SeqNo -> Slot]]
      /\ execSeq \in [Replica -> 1 .. MaxSeq + 1]
      /\ MaxSeq \in Nat
  BY BoundAssumption DEF TypeInv, TypeOK
<1>2. /\ log'[r][s] = st
      /\ \A q \in Replica : \A t \in SeqNo :
           q # r \/ t # s => log'[q][t] = log[q][t]
  BY <1>1, SlotWritten
<1>3. execSeq[r] <= execSeq'[r]
  BY <1>1
<1>4. QED
  BY <1>2, <1>3, WritingClaims

\* A slot that is not a live proposal has not been claimed.
LEMMA UnclaimedUnlessLive ==
    ASSUME RefinementInv, NEW r \in Replica, NEW s \in SeqNo,
           ~(log[r][s].prePrepare /\ ~log[r][s].discarded)
    PROVE  ~log[r][s].executed
BY DEF RefinementInv, ClaimsBehindCursor, AgreementInv, SlotShape, Committed

-----------------------------------------------------------------------------
(***************************************************************************)
(* One lemma per action that writes the log.                               *)
(***************************************************************************)
LEMMA ClaimsStartConsensus ==
    ASSUME TypeInv, RefinementInv, NEW req \in Request, StartConsensus(req)
    PROVE  LearnAndStart
<1>1. /\ Primary \in Replica
      /\ nextSeq \in SeqNo
      /\ nextSeq >= nextSeq
  BY FaultAssumption, BoundAssumption DEF StartConsensus, Startable, SeqNo
<1>2. log' = [log EXCEPT ![Primary][nextSeq] = Proposed(req)] /\ UNCHANGED execSeq
  BY DEF StartConsensus
<1>3. ~log[Primary][nextSeq].prePrepare
  BY <1>1 DEF RefinementInv, AgreementInv, NextSlotsUnproposed
<1>4. ~log[Primary][nextSeq].executed
  BY <1>1, <1>3, UnclaimedUnlessLive
<1>5. log[Primary][nextSeq] \in Slot
  BY <1>1 DEF TypeInv, TypeOK
<1>6. Proposed(req) \in Slot /\ Proposed(req).executed = log[Primary][nextSeq].executed
  BY <1>4, <1>5, SlotTypes DEF Proposed, EmptySlot, Slot
<1>7. QED
  BY <1>1, <1>2, <1>6, HandlerClaims

LEMMA ClaimsOnPrePrepare ==
    ASSUME TypeInv, RefinementInv, NEW m \in net, OnPrePrepare(m)
    PROVE  LearnAndStart
<1>1. m.to \in Replica /\ m.seq \in SeqNo /\ m.req \in Request
  BY MessageFields DEF OnPrePrepare, TypeInv, TypeOK
<1>2. log' = [log EXCEPT ![m.to][m.seq] = Proposed(m.req)] /\ UNCHANGED execSeq
  BY DEF OnPrePrepare
<1>3. ~log[m.to][m.seq].executed
  BY <1>1, UnclaimedUnlessLive DEF OnPrePrepare, AcceptsPrePrepare
<1>4. log[m.to][m.seq] \in Slot
  BY <1>1 DEF TypeInv, TypeOK
<1>5. Proposed(m.req) \in Slot /\ Proposed(m.req).executed = log[m.to][m.seq].executed
  BY <1>1, <1>3, <1>4, SlotTypes DEF Proposed, EmptySlot, Slot
<1>6. QED
  BY <1>1, <1>2, <1>5, HandlerClaims

LEMMA ClaimsOnPrepare ==
    ASSUME TypeInv, NEW m \in net, OnPrepare(m)
    PROVE  LearnAndStart
<1> DEFINE st    == log[m.to][m.seq]
           votes == st.prepares \cup {m.from}
           cert  == Cardinality(votes) >= Quorum /\ st.prepareCert = {}
           new   == [st EXCEPT !.prepares = votes,
                               !.prepareCert = IF cert THEN votes ELSE @]
<1>1. m.to \in Replica /\ m.seq \in SeqNo /\ m.from \in Replica
  BY MessageFields DEF OnPrepare, TypeInv, TypeOK
<1>2. log \in [Replica -> [SeqNo -> Slot]] /\ st \in Slot
  BY <1>1 DEF TypeInv, TypeOK
<1>3. log' = [log EXCEPT ![m.to][m.seq] = new] /\ UNCHANGED execSeq
  BY <1>1, <1>2 DEF OnPrepare
<1>4. new \in Slot /\ new.executed = st.executed
  BY <1>1, <1>2 DEF Slot
<1> HIDE DEF new
<1>5. QED
  BY <1>1, <1>3, <1>4, HandlerClaims

LEMMA ClaimsOnPrepareCert ==
    ASSUME TypeInv, NEW m \in net, OnPrepareCert(m)
    PROVE  LearnAndStart
<1> DEFINE st  == log[m.to][m.seq]
           new == [st EXCEPT !.prepareCert = m.sigs]
<1>1. m.to \in Replica /\ m.seq \in SeqNo /\ m.sigs \in SUBSET Replica
  BY MessageFields DEF OnPrepareCert, TypeInv, TypeOK
<1>2. log \in [Replica -> [SeqNo -> Slot]] /\ st \in Slot
  BY <1>1 DEF TypeInv, TypeOK
<1>3. log' = [log EXCEPT ![m.to][m.seq] = new] /\ UNCHANGED execSeq
  BY <1>1, <1>2 DEF OnPrepareCert
<1>4. new \in Slot /\ new.executed = st.executed
  BY <1>1, <1>2 DEF Slot
<1> HIDE DEF new
<1>5. QED
  BY <1>1, <1>3, <1>4, HandlerClaims

LEMMA ClaimsOnCommit ==
    ASSUME TypeInv, NEW m \in net, OnCommit(m)
    PROVE  LearnAndStart
<1> DEFINE st  == log[m.to][m.seq]
           new == [st EXCEPT !.commits = st.commits \cup {m.from}]
<1>1. m.to \in Replica /\ m.seq \in SeqNo /\ m.from \in Replica
  BY MessageFields DEF OnCommit, TypeInv, TypeOK
<1>2. log \in [Replica -> [SeqNo -> Slot]] /\ st \in Slot
  BY <1>1 DEF TypeInv, TypeOK
<1>3. log' = [log EXCEPT ![m.to][m.seq] = new] /\ UNCHANGED execSeq
  BY <1>1, <1>2 DEF OnCommit
<1>4. new \in Slot /\ new.executed = st.executed
  BY <1>1, <1>2 DEF Slot
<1> HIDE DEF new
<1>5. QED
  BY <1>1, <1>3, <1>4, HandlerClaims

LEMMA ClaimsOnDecidingCommit ==
    ASSUME TypeInv, NEW m \in net, OnDecidingCommit(m)
    PROVE  LearnAndStart
<1> DEFINE st    == log[m.to][m.seq]
           votes == st.commits \cup {m.from}
           new   == [st EXCEPT !.commits = votes, !.commitCert = votes]
           slots == [log[m.to] EXCEPT ![m.seq] = new]
<1>1. m.to \in Replica /\ m.seq \in SeqNo /\ m.from \in Replica
  BY MessageFields DEF OnDecidingCommit, TypeInv, TypeOK
<1>2. log \in [Replica -> [SeqNo -> Slot]] /\ st \in Slot
  BY <1>1 DEF TypeInv, TypeOK
<1>3. new \in Slot /\ new.executed = st.executed
  BY <1>1, <1>2 DEF Slot
<1>4. TryExecute(m.to, slots, execSeq[m.to], applying[m.to])
  BY <1>1, <1>2 DEF OnDecidingCommit
<1>5. /\ execSeq[m.to] \in 1 .. MaxSeq + 1
      /\ execSeq[m.to] <= execSeq[m.to]
      /\ applying[m.to] \in SUBSET SeqNo
  BY <1>1, BoundAssumption DEF TypeInv, TypeOK
<1> HIDE DEF new
<1>6. /\ slots \in [SeqNo -> Slot]
      /\ slots[m.seq] = new
      /\ \A t \in SeqNo : t # m.seq => slots[t] = log[m.to][t]
  BY <1>1, <1>2, <1>3, SlotPassed
<1> HIDE DEF slots
<1>7. QED
  BY <1>1, <1>3, <1>4, <1>5, <1>6, ExecutingClaims

LEMMA ClaimsOnCommitCert ==
    ASSUME TypeInv, NEW m \in net, OnCommitCert(m)
    PROVE  LearnAndStart
<1> DEFINE st    == log[m.to][m.seq]
           new   == [st EXCEPT !.commitCert = m.sigs]
           slots == [log[m.to] EXCEPT ![m.seq] = new]
<1>1. m.to \in Replica /\ m.seq \in SeqNo /\ m.sigs \in SUBSET Replica
  BY MessageFields DEF OnCommitCert, TypeInv, TypeOK
<1>2. log \in [Replica -> [SeqNo -> Slot]] /\ st \in Slot
  BY <1>1 DEF TypeInv, TypeOK
<1>3. new \in Slot /\ new.executed = st.executed
  BY <1>1, <1>2 DEF Slot
<1>4. TryExecute(m.to, slots, execSeq[m.to], applying[m.to])
  BY <1>1, <1>2 DEF OnCommitCert
<1>5. /\ execSeq[m.to] \in 1 .. MaxSeq + 1
      /\ execSeq[m.to] <= execSeq[m.to]
      /\ applying[m.to] \in SUBSET SeqNo
  BY <1>1, BoundAssumption DEF TypeInv, TypeOK
<1> HIDE DEF new
<1>6. /\ slots \in [SeqNo -> Slot]
      /\ slots[m.seq] = new
      /\ \A t \in SeqNo : t # m.seq => slots[t] = log[m.to][t]
  BY <1>1, <1>2, <1>3, SlotPassed
<1> HIDE DEF slots
<1>7. QED
  BY <1>1, <1>3, <1>4, <1>5, <1>6, ExecutingClaims

LEMMA ClaimsApply ==
    ASSUME TypeInv, NEW r \in Replica, NEW s \in SeqNo, Apply(r, s)
    PROVE  LearnAndStart
<1>1. /\ log[r] \in [SeqNo -> Slot]
      /\ execSeq[r] \in 1 .. MaxSeq + 1
      /\ execSeq[r] <= execSeq[r]
      /\ applying[r] \ {s} \in SUBSET SeqNo
  BY BoundAssumption DEF TypeInv, TypeOK
<1>2. log[r][s] \in Slot
  BY <1>1
<1>3. TryExecute(r, log[r], execSeq[r], applying[r] \ {s})
  BY DEF Apply
<1>4. QED
  BY <1>1, <1>2, <1>3, ExecutingClaims

LEMMA ClaimsReclaim ==
    ASSUME TypeInv, NEW s \in SeqNo, Reclaim(s)
    PROVE  LearnAndStart
<1>1. /\ Primary \in Replica
      /\ log \in [Replica -> [SeqNo -> Slot]]
      /\ execSeq \in [Replica -> 1 .. MaxSeq + 1]
      /\ MaxSeq \in Nat /\ s \in Int
  BY FaultAssumption, BoundAssumption DEF SeqNo, TypeInv, TypeOK
<1>2. /\ log'[Primary][s] = Tombstone(log[Primary][s])
      /\ \A q \in Replica : \A t \in SeqNo :
            q # Primary \/ t # s => log'[q][t] = log[q][t]
  BY <1>1 DEF Reclaim
<1>3. log'[Primary][s].executed = log[Primary][s].executed
  BY <1>2 DEF Tombstone, EmptySlot
<1>4. /\ \A q \in Replica \ {Primary} : execSeq'[q] = execSeq[q]
      /\ execSeq[Primary] <= execSeq'[Primary]
  BY <1>1 DEF Reclaim
<1>5. QED
  BY <1>1, <1>2, <1>3, <1>4, WritingClaims

LEMMA ClaimsOnDiscardSeq ==
    ASSUME TypeInv, NEW m \in net, OnDiscardSeq(m)
    PROVE  LearnAndStart
<1> DEFINE st    == log[m.to][m.seq]
           new   == Tombstone(st)
           slots == [log[m.to] EXCEPT ![m.seq] = new]
           from  == IF execSeq[m.to] = m.seq THEN m.seq + 1 ELSE execSeq[m.to]
<1>1. m.to \in Replica /\ m.seq \in SeqNo
  BY MessageFields DEF TypeInv, TypeOK
<1>2. log \in [Replica -> [SeqNo -> Slot]] /\ st \in Slot
  BY <1>1 DEF TypeInv, TypeOK
<1>3. new \in Slot /\ new.executed = st.executed
  BY <1>2, SlotTypes DEF Tombstone, EmptySlot
<1>4. TryExecute(m.to, slots, from, applying[m.to])
  BY DEF OnDiscardSeq
<1>5. /\ from \in 1 .. MaxSeq + 1
      /\ execSeq[m.to] <= from
      /\ applying[m.to] \in SUBSET SeqNo
  BY <1>1, BoundAssumption DEF SeqNo, TypeInv, TypeOK
<1> HIDE DEF new, from
<1>6. /\ slots \in [SeqNo -> Slot]
      /\ slots[m.seq] = new
      /\ \A t \in SeqNo : t # m.seq => slots[t] = log[m.to][t]
  BY <1>1, <1>2, <1>3, SlotPassed
<1> HIDE DEF slots
<1>7. QED
  BY <1>1, <1>3, <1>4, <1>5, <1>6, ExecutingClaims

LEMMA ClaimsNext ==
    ASSUME TypeInv, RefinementInv, [Next]_vars
    PROVE  LearnAndStart
<1>1. ASSUME NEW req \in Request, StartConsensus(req) \/ StartSelfTransfer(req)
      PROVE  LearnAndStart
  <2>1. CASE StartConsensus(req)
    BY <2>1, ClaimsStartConsensus
  <2>2. CASE StartSelfTransfer(req)
    BY <2>2 DEF StartSelfTransfer, LearnAndStart
  <2>3. QED
    BY <1>1, <2>1, <2>2
<1>2. ASSUME NEW m \in net, Handle(m)
      PROVE  LearnAndStart
  <2>1. CASE OnPrePrepare(m)
    BY <2>1, ClaimsOnPrePrepare
  <2>2. CASE OnPrepare(m)
    BY <2>2, ClaimsOnPrepare
  <2>3. CASE OnPrepareCert(m)
    BY <2>3, ClaimsOnPrepareCert
  <2>4. CASE OnCommit(m)
    BY <2>4, ClaimsOnCommit
  <2>5. CASE OnDecidingCommit(m)
    BY <2>5, ClaimsOnDecidingCommit
  <2>6. CASE OnCommitCert(m)
    BY <2>6, ClaimsOnCommitCert
  <2>7. CASE OnDiscardSeq(m)
    BY <2>7, ClaimsOnDiscardSeq
  <2>8. CASE Ignore(m)
    BY <2>8 DEF Ignore, LearnAndStart
  <2>9. QED
    BY <1>2, <2>1, <2>2, <2>3, <2>4, <2>5, <2>6, <2>7, <2>8 DEF Handle
<1>3. ASSUME NEW r \in Replica, NEW t \in tasks[r],
             LockAndPrepare(r, t) \/ LockWaitExpires(r, t)
      PROVE  LearnAndStart
  BY <1>3 DEF LockAndPrepare, LockWaitExpires, LearnAndStart
<1>4. CASE \E r \in Replica : \E s \in SeqNo : Apply(r, s)
  BY <1>4, ClaimsApply
<1>5. CASE \E s \in SeqNo : Reclaim(s)
  BY <1>5, ClaimsReclaim
<1>6. CASE UNCHANGED vars
  BY <1>6 DEF vars, LearnAndStart
<1>7. QED
  BY <1>1, <1>2, <1>3, <1>4, <1>5, <1>6 DEF Next

-----------------------------------------------------------------------------
(***************************************************************************)
(* The invariant.                                                          *)
(***************************************************************************)
LEMMA ClaimsBehindCursorStep ==
    ASSUME TypeInv, TypeInv', ClaimsBehindCursor, CommitmentsKept, LearnAndStart
    PROVE  ClaimsBehindCursor'
<1>1. CASE UNCHANGED <<log, execSeq>>
  BY <1>1 DEF ClaimsBehindCursor, Committed
<1>2. ASSUME NEW r \in Replica, ClaimEffect(r)
      PROVE  ClaimsBehindCursor'
  <2> SUFFICES ASSUME NEW q \in Replica, NEW s \in SeqNo, log'[q][s].executed
               PROVE  Committed(q, s)' /\ s < execSeq'[q]
    BY DEF ClaimsBehindCursor
  <2>0. s \in Int /\ execSeq[q] \in Int /\ execSeq'[q] \in Int
    BY BoundAssumption DEF SeqNo, TypeInv, TypeOK
  <2>1. execSeq[q] <= execSeq'[q]
    BY <1>2, <2>0 DEF ClaimEffect
  <2>2. CASE log[q][s].executed
    <3>1. Committed(q, s) /\ s < execSeq[q]
      BY <2>2 DEF ClaimsBehindCursor
    <3>2. QED
      BY <2>0, <2>1, <3>1 DEF CommitmentsKept
  <2>3. CASE ~log[q][s].executed
    <3>1. ~ClaimsNothing(q)
      BY <2>3 DEF ClaimsNothing
    <3>2. q = r
      BY <1>2, <3>1 DEF ClaimEffect
    <3>3. PICK i \in SeqNo : Claims(r, i)
      BY <1>2, <3>1, <3>2 DEF ClaimEffect
    <3>4. s = i
      BY <2>3, <3>2, <3>3 DEF Claims
    <3>5. QED
      BY <3>2, <3>3, <3>4 DEF Claims
  <2>4. QED
    BY <2>2, <2>3
<1>3. QED
  BY <1>1, <1>2 DEF LearnAndStart

LEMMA RefinementInvariant == Spec => [](TypeInv /\ RefinementInv)
<1>1. TypeInv /\ RefinementInv /\ [Next]_vars => (TypeInv /\ RefinementInv)'
  <2> SUFFICES ASSUME TypeInv, RefinementInv, [Next]_vars
               PROVE  TypeInv' /\ AgreementInv' /\ ClaimsBehindCursor'
    BY DEF RefinementInv
  <2>1. TypeInv' /\ AgreementInv' /\ CommitmentsKept
    BY TypeInvNext, EffectNext, AgreementInvStep, CommitmentsKeptByStep DEF RefinementInv
  <2>2. LearnAndStart
    BY ClaimsNext
  <2>3. QED
    BY <2>1, <2>2, ClaimsBehindCursorStep DEF RefinementInv
<1>2. Init => TypeInv /\ RefinementInv
  <2>1. Init => ClaimsBehindCursor
    BY DEF Init, ClaimsBehindCursor, EmptySlot
  <2>2. QED
    BY <2>1, TypeInvInit, AgreementInvInit DEF RefinementInv
<1>3. QED
  BY <1>1, <1>2, PTL DEF Spec

-----------------------------------------------------------------------------
(***************************************************************************)
(* The refinement mapping.                                                 *)
(***************************************************************************)
LEMMA MapsInit == Init => Shared!Init
<1> SUFFICES ASSUME Init PROVE Shared!Init
  OBVIOUS
<1>1. \A r \in Replica : \A s \in SeqNo : log[r][s] = EmptySlot
  BY DEF Init
<1>2. \A r \in Replica : \A s \in SeqNo : ~Committed(r, s) /\ ~log[r][s].executed
  BY <1>1 DEF Committed, EmptySlot
<1>3. Learned = [r \in Replica |-> [s \in SeqNo |-> NoRequest]]
  BY <1>2 DEF Learned
<1>4. Started = [r \in Replica |-> {}]
  BY <1>2 DEF Started
<1>5. QED
  BY <1>3, <1>4 DEF Shared!Init

\* What a replica has learnt, before and after the step.
LEMMA LearnedKept ==
    ASSUME CommitmentsKept, CommittedAgreement', NEW q \in Replica, NEW r \in Replica,
           NEW s \in SeqNo, Committed(r, s)'
    PROVE  Learned[q][s] \in {NoRequest, log'[r][s].req}
<1>1. CASE Committed(q, s)
  <2>1. Committed(q, s)' /\ log'[q][s].req = log[q][s].req
    BY <1>1 DEF CommitmentsKept
  <2>2. log'[q][s].req = log'[r][s].req
    BY <2>1 DEF CommittedAgreement
  <2>3. QED
    BY <1>1, <2>1, <2>2 DEF Learned
<1>2. CASE ~Committed(q, s)
  BY <1>2 DEF Learned
<1>3. QED
  BY <1>1, <1>2

LEMMA LearnedUnchangedAt ==
    ASSUME CommitmentsKept, NEW q \in Replica, NEW t \in SeqNo,
           Committed(q, t)' => Committed(q, t)
    PROVE  Learned'[q][t] = Learned[q][t]
BY DEF CommitmentsKept, Learned

LEMMA MapsLearning ==
    ASSUME TypeInv', CommitmentsKept, CommittedAgreement',
           NEW r \in Replica, NEW s \in SeqNo, CommitEffect(r, s)
    PROVE  \/ \E q \in Replica, t \in SeqNo, req \in Request : Shared!Learn(q, t, req)
           \/ UNCHANGED Learned
<1>1. /\ Learned = [q \in Replica |-> [t \in SeqNo |-> Learned[q][t]]]
      /\ Learned' = [q \in Replica |-> [t \in SeqNo |-> Learned'[q][t]]]
  BY DEF Learned
<1>2. \A q \in Replica : \A t \in SeqNo :
        q # r \/ t # s => Learned'[q][t] = Learned[q][t]
  <2> SUFFICES ASSUME NEW q \in Replica, NEW t \in SeqNo, q # r \/ t # s
               PROVE  Learned'[q][t] = Learned[q][t]
    OBVIOUS
  <2>1. Committed(q, t)' => Committed(q, t)
    BY DEF CommitEffect, Committed
  <2>2. QED
    BY <2>1, LearnedUnchangedAt
<1>3. CASE Committed(r, s)'
  <2> DEFINE req == log'[r][s].req
  <2>1. req \in Request
    BY <1>3 DEF TypeInv, SlotsHoldRequests
  <2>2. Learned'[r][s] = req
    BY <1>3 DEF Learned
  <2>3. \A q \in Replica : Learned[q][s] \in {NoRequest, req}
    BY <1>3, LearnedKept
  <2> HIDE DEF req
  <2>4. Learned' = [Learned EXCEPT ![r][s] = req]
    BY <1>1, <1>2, <2>2
  <2>5. QED
    BY <2>1, <2>3, <2>4 DEF Shared!Learn
<1>4. CASE ~Committed(r, s)'
  <2>1. Learned'[r][s] = Learned[r][s]
    BY <1>4, LearnedUnchangedAt
  <2>2. UNCHANGED Learned
    BY <1>1, <1>2, <2>1
  <2>3. QED
    BY <2>2
<1>5. QED
  BY <1>3, <1>4

LEMMA MapsStarting ==
    ASSUME TypeInv, TypeInv', ClaimsBehindCursor, NEW r \in Replica, ClaimEffect(r)
    PROVE  \/ \E q \in Replica, t \in SeqNo : Shared!Start(q, t)
           \/ UNCHANGED Started
<1>1. /\ Started = [q \in Replica |-> Started[q]]
      /\ Started' = [q \in Replica |-> Started'[q]]
      /\ \A q \in Replica : Started[q] = {s \in SeqNo : log[q][s].executed}
      /\ \A q \in Replica : Started'[q] = {s \in SeqNo : log'[q][s].executed}
  BY DEF Started
<1>2. \A q \in Replica : ClaimsNothing(q) => Started'[q] = Started[q]
  <2> SUFFICES ASSUME NEW q \in Replica, \A s \in SeqNo : log'[q][s].executed = log[q][s].executed
               PROVE  Started'[q] = Started[q]
    BY DEF ClaimsNothing
  <2>1. /\ Started[q] = {s \in SeqNo : log[q][s].executed}
        /\ Started'[q] = {s \in SeqNo : log'[q][s].executed}
    BY <1>1
  <2>2. QED
    BY <2>1
<1>3. \A q \in Replica \ {r} : Started'[q] = Started[q]
  BY <1>2 DEF ClaimEffect
<1>4. CASE ClaimsNothing(r)
  <2>1. UNCHANGED Started
    BY <1>1, <1>2, <1>3, <1>4
  <2>2. QED
    BY <2>1
<1>5. ASSUME NEW i \in SeqNo, Claims(r, i)
      PROVE  \E q \in Replica, t \in SeqNo : Shared!Start(q, t)
  <2>1. Started'[r] = Started[r] \cup {i}
    BY <1>1, <1>5 DEF Claims
  <2>2. Started' = [Started EXCEPT ![r] = @ \cup {i}]
    BY <1>1, <1>3, <2>1
  <2>3. \A t \in Started[r] : t < i
    <3> SUFFICES ASSUME NEW t \in Started[r] PROVE t < i
      OBVIOUS
    <3>1. t \in SeqNo /\ t < execSeq[r]
      BY <1>1 DEF ClaimsBehindCursor
    <3>2. t \in Int /\ i \in Int /\ execSeq[r] \in Int /\ execSeq[r] <= i
      BY <1>5, <3>1, BoundAssumption DEF SeqNo, Claims, TypeInv, TypeOK
    <3>3. QED
      BY <3>1, <3>2
  <2>4. Learned'[r][i] # NoRequest
    <3>1. log'[r][i].req \in Request
      BY <1>5 DEF Claims, TypeInv, SlotsHoldRequests
    <3>2. Learned'[r][i] = log'[r][i].req
      BY <1>5 DEF Claims, Learned
    <3>3. QED
      BY <3>1, <3>2, RequestAssumption
  <2>5. QED
    BY <2>2, <2>3, <2>4 DEF Shared!Start
<1>6. QED
  BY <1>4, <1>5 DEF ClaimEffect

LEMMA MapsStep ==
    ASSUME TypeInv, RefinementInv, [Next]_vars
    PROVE  [Shared!Next]_(Shared!vars)
<1>1. TypeInv' /\ AgreementInv' /\ CommitmentsKept
  BY TypeInvNext, EffectNext, AgreementInvStep, CommitmentsKeptByStep DEF RefinementInv
<1>2. CommittedAgreement'
  BY <1>1 DEF AgreementInv, CommitsMatchPrimary, CommittedAgreement
<1>3. LearnAndStart
  BY ClaimsNext
<1>4. CASE UNCHANGED <<log, execSeq>>
  BY <1>4 DEF Learned, Started, Committed, Shared!vars
<1>5. ASSUME NEW r \in Replica, NEW s \in SeqNo, ClaimEffect(r), CommitEffect(r, s)
      PROVE  Shared!Next
  BY <1>1, <1>2, <1>5, MapsLearning, MapsStarting DEF RefinementInv, Shared!Next
<1>6. QED
  BY <1>3, <1>4, <1>5 DEF LearnAndStart

\* The engine implements the replicated log: every step of the engine is a
\* step of ReplicatedLog or changes nothing that it speaks of.
THEOREM Refinement == Spec => ImplementsReplicatedLog
<1>1. Init => Shared!Init
  BY MapsInit
<1>2. TypeInv /\ RefinementInv /\ [Next]_vars => [Shared!Next]_(Shared!vars)
  BY MapsStep
<1>3. QED
  BY <1>1, <1>2, RefinementInvariant, PTL DEF Spec, Shared!Spec, ImplementsReplicatedLog
=============================================================================
