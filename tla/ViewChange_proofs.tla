-------------------------- MODULE ViewChange_proofs --------------------------
(***************************************************************************)
(* The engine across views, for every cluster, every set of requests and   *)
(* every bound: type correctness; agreement over one change of view; then  *)
(* that nothing is executed twice over it.                                 *)
(***************************************************************************)
EXTENDS ViewChange, SequenceTheorems, FiniteSetTheorems, WellFoundedInduction, TLAPS

-----------------------------------------------------------------------------
(***************************************************************************)
(* Largest numbers.                                                        *)
(***************************************************************************)
LEMMA LargestOf ==
    ASSUME NEW n \in Nat, NEW S, S \subseteq 0 .. n, S # {}
    PROVE  \E m \in S : \A k \in S : k <= m
<1> DEFINE Bounds == {u \in 0 .. n : \A k \in S : k <= u}
           T == {0 .. u : u \in Bounds}
<1>1. IsFiniteSet(0 .. n)
    BY FS_Interval
<1>2. IsWellFoundedOn(StrictSubsetOrdering(0 .. n), FiniteSubsetsOf(0 .. n))
    BY FS_StrictSubsetOrderingWellFounded
<1>3. T \subseteq FiniteSubsetsOf(0 .. n)
    <2>1. ASSUME NEW u \in Bounds PROVE 0 .. u \in SUBSET (0 .. n) /\ IsFiniteSet(0 .. u)
        BY FS_Interval
    <2>2. QED
        BY <2>1 DEF FiniteSubsetsOf
<1>4. n \in Bounds
    OBVIOUS
<1>5. T # {}
    BY <1>4
<1>6. PICK s \in T : \A t \in T : <<t, s>> \notin StrictSubsetOrdering(0 .. n)
    BY <1>2, <1>3, <1>5, WFMin
<1>7. PICK u \in Bounds : s = 0 .. u
    BY <1>6
<1>8. u \in S
    <2>1. SUFFICES ASSUME u \notin S PROVE FALSE
        OBVIOUS
    <2>2. \A k \in S : k <= u - 1
        BY <2>1
    <2>3. u - 1 \in Bounds
        <3>1. PICK k \in S : k \in 0 .. n /\ k <= u - 1
            BY <2>2
        <3>2. u - 1 \in 0 .. n
            BY <3>1
        <3>3. QED
            BY <2>2, <3>2
    <2>4. 0 .. u - 1 \in T
        BY <2>3
    <2>5. <<0 .. u - 1, 0 .. u>> \in StrictSubsetOrdering(0 .. n)
        <3>1. 0 .. u - 1 \subseteq 0 .. u /\ 0 .. u - 1 # 0 .. u /\ 0 .. u \subseteq 0 .. n
            <4>1. u \in 0 .. u /\ u \notin 0 .. u - 1
                OBVIOUS
            <4>2. QED
                BY <4>1
        <3>2. QED
            BY <3>1 DEF StrictSubsetOrdering
    <2>6. QED
        BY <1>6, <1>7, <2>4, <2>5
<1>9. QED
    BY <1>8

LEMMA HighestIs ==
    ASSUME NEW pps, \A p \in pps : p.seq \in SeqNo, NEW floor \in 0 .. MaxSeq
    PROVE  /\ HighestSeq(pps, floor) \in 0 .. MaxSeq
           /\ floor <= HighestSeq(pps, floor)
           /\ \A p \in pps : p.seq <= HighestSeq(pps, floor)
<1> DEFINE S == {floor} \cup {p.seq : p \in pps}
           Is(n) == /\ floor <= n
                    /\ \A p \in pps : p.seq <= n
                    /\ n = floor \/ \E p \in pps : p.seq = n
<1>0. MaxSeq \in Nat
    BY RequestAssumption
<1>1. S \subseteq 0 .. MaxSeq /\ S # {}
    BY <1>0 DEF SeqNo
<1>2. PICK m \in S : \A k \in S : k <= m
    BY <1>0, <1>1, LargestOf
<1>3. m \in 0 .. MaxSeq + 1 /\ Is(m)
    BY <1>0, <1>1, <1>2
<1>4. HighestSeq(pps, floor) \in 0 .. MaxSeq + 1 /\ Is(HighestSeq(pps, floor))
    BY <1>3 DEF HighestSeq
<1>5. QED
    BY <1>0, <1>4 DEF SeqNo

LEMMA StableIs ==
    ASSUME NEW order, NEW i \in Nat, \A j \in 1 .. i : order[j].stable \in 0 .. MaxSeq
    PROVE  /\ StableUpTo(order, i) \in 0 .. MaxSeq
           /\ \A j \in 1 .. i : order[j].stable <= StableUpTo(order, i)
           /\ \/ StableUpTo(order, i) = 0
              \/ \E j \in 1 .. i : order[j].stable = StableUpTo(order, i)
<1> DEFINE S == {0} \cup {order[j].stable : j \in 1 .. i}
           Is(n) == /\ \A j \in 1 .. i : order[j].stable <= n
                    /\ n = 0 \/ \E j \in 1 .. i : order[j].stable = n
<1>0. MaxSeq \in Nat
    BY RequestAssumption
<1>1. S \subseteq 0 .. MaxSeq /\ S # {}
    BY <1>0
<1>2. PICK m \in S : \A k \in S : k <= m
    BY <1>0, <1>1, LargestOf
<1>3. m \in 0 .. MaxSeq /\ Is(m)
    BY <1>0, <1>1, <1>2
<1>4. StableUpTo(order, i) \in 0 .. MaxSeq /\ Is(StableUpTo(order, i))
    BY <1>3 DEF StableUpTo
<1>5. QED
    BY <1>4

-----------------------------------------------------------------------------
(***************************************************************************)
(* Types.                                                                  *)
(***************************************************************************)
ViewChangeMessage ==
    [from     : Replica,
     newView  : View,
     stable   : 0 .. MaxSeq,
     prepared : SUBSET [seq : SeqNo, view : View, req : Request],
     pending  : SUBSET Request]

Task == [view : View, seq : SeqNo, req : Request, nv : View]

\* What is sent and built to change the view; a VIEW-CHANGE names a slot once.
ViewChangesTyped ==
    /\ IsFiniteSet(viewChanges)
    /\ \A m \in viewChanges :
        /\ m \in ViewChangeMessage
        /\ IsFiniteSet(m.pending)
        /\ \A d, e \in m.prepared : d.seq = e.seq => d = e

NewViewsTyped == \A nv \in newViews : nv \in [view : View, prePrepares : Seq(PrePrepare)]

\* A certificate is for a request, and who waits for a view can enter it.
LocalInv ==
    /\ \A r \in Replica : IsFiniteSet(pending[r])
    /\ \A r \in Replica : timer[r] = "armed" => view[r] < MaxView
    /\ \A r \in Replica : \A s \in SeqNo :
        log[r][s].prepareCert \/ log[r][s].commitCert => log[r][s].req # NoRequest

TypeInv == TypeOK /\ ViewChangesTyped /\ NewViewsTyped /\ LocalInv

LEMMA RequestFields ==
    ASSUME NEW req \in Request
    PROVE  /\ req.client \in Client /\ req.ts \in Nat
           /\ req.x \in Item /\ req.y \in Item
           /\ req # NoRequest
BY RequestAssumption

LEMMA MessageFields ==
    ASSUME NEW m \in Message
    PROVE  /\ m.to \in Replica /\ m.view \in View /\ m.seq \in SeqNo /\ m.req \in Request
           /\ m.type \in {"PRE_PREPARE", "PREPARE_CERT", "COMMIT_CERT", "PREPARE", "COMMIT"}
           /\ m.type \in {"PREPARE", "COMMIT"} => m.from \in Replica
BY DEF Message

LEMMA SlotType ==
    ASSUME TypeOK, NEW r \in Replica, NEW s \in SeqNo
    PROVE  /\ log[r][s] \in Slot
           /\ log[r][s].req \in Request \cup {NoRequest}
           /\ log[r][s].prepareCert \in BOOLEAN
           /\ log[r][s].commitCert \in BOOLEAN
           /\ log[r][s].executed \in BOOLEAN
BY DEF TypeOK, Slot

(***************************************************************************)
(* What a NEW-VIEW is built from.                                          *)
(***************************************************************************)
LEMMA SequencesOf ==
    ASSUME NEW S, IsFiniteSet(S), NEW order \in SetToSeqs(S)
    PROVE  /\ Cardinality(S) \in Nat
           /\ order \in Seq(S) /\ Len(order) = Cardinality(S)
           /\ DOMAIN order = 1 .. Len(order)
           /\ \A i \in DOMAIN order : order[i] \in S
           /\ \A i, j \in DOMAIN order : order[i] = order[j] => i = j
           /\ \A x \in S : \E i \in DOMAIN order : order[i] = x
<1>1. Cardinality(S) \in Nat
    BY FS_CardinalityType
<1>2. /\ order \in [1 .. Cardinality(S) -> S]
      /\ \A i, j \in 1 .. Cardinality(S) : i # j => order[i] # order[j]
    BY DEF SetToSeqs
<1>3. order \in Seq(S) /\ Len(order) = Cardinality(S) /\ DOMAIN order = 1 .. Len(order)
    BY <1>1, <1>2
<1>4. order \in Injection(1 .. Cardinality(S), S)
    BY <1>2 DEF Injection, IsInjective
<1>5. Cardinality(1 .. Cardinality(S)) = Cardinality(S)
    BY <1>1, FS_Interval
<1>6. order \in Surjection(1 .. Cardinality(S), S)
    BY <1>4, <1>5, FS_Injection
<1>7. QED
    BY <1>1, <1>2, <1>3, <1>6 DEF Surjection

\* A quorum of VIEW-CHANGEs as they are recorded.
Recordable(S) ==
    /\ IsFiniteSet(S)
    /\ \A m \in S :
        /\ m \in ViewChangeMessage
        /\ IsFiniteSet(m.pending)
        /\ \A d, e \in m.prepared : d.seq = e.seq => d = e

LEMMA RecordedFields ==
    ASSUME NEW m \in ViewChangeMessage
    PROVE  /\ m.from \in Replica /\ m.newView \in View /\ m.stable \in 0 .. MaxSeq
           /\ m.pending \subseteq Request
           /\ \A d \in m.prepared : d.seq \in SeqNo /\ d.view \in View /\ d.req \in Request
BY DEF ViewChangeMessage

\* An entry of the walk: the number of its message, and the slot.
LEMMA EntriesAre ==
    ASSUME NEW S, Recordable(S), NEW order \in SetToSeqs(S), NEW e \in Entries(order)
    PROVE  /\ e.at \in DOMAIN order /\ order[e.at] \in S
           /\ e.entry \in order[e.at].prepared
           /\ e.entry.seq > StableUpTo(order, e.at)
           /\ e = [at |-> e.at, entry |-> e.entry]
<1>1. PICK i \in DOMAIN order : \E p \in {q \in order[i].prepared : q.seq > StableUpTo(order, i)} :
            e = [at |-> i, entry |-> p]
    BY DEF Entries
<1>2. PICK p \in order[i].prepared : p.seq > StableUpTo(order, i) /\ e = [at |-> i, entry |-> p]
    BY <1>1
<1>3. order[i] \in S
    BY <1>1, SequencesOf DEF Recordable
<1>4. QED
    BY <1>1, <1>2, <1>3

\* The slots that buildNewViewLocked takes over are entries of VIEW-CHANGEs,
\* one for each number.
LEMMA ChosenAre ==
    ASSUME NEW S, Recordable(S), NEW order \in SetToSeqs(S)
    PROVE  /\ Chosen(order) \subseteq PrePrepare
           /\ IsFiniteSet(Chosen(order))
           /\ \A p, q \in Chosen(order) : p.seq = q.seq => p = q
           /\ \A p \in Chosen(order) : \E m \in S : \E d \in m.prepared :
                d.seq = p.seq /\ d.req = p.req
<1> DEFINE LatestOne(d) == \A c \in Entries(order) : c.entry.seq = d.entry.seq =>
                \/ c.entry.view < d.entry.view
                \/ c.entry.view = d.entry.view /\ c.at <= d.at
<1>1. ASSUME NEW p \in Chosen(order)
      PROVE  \E e \in Entries(order) : LatestOne(e) /\ p = [seq |-> e.entry.seq, req |-> e.entry.req]
    BY DEF Chosen
<1>2. ASSUME NEW e \in Entries(order)
      PROVE  /\ e.at \in Int /\ order[e.at] \in S /\ e.entry \in order[e.at].prepared
             /\ e.entry.seq \in SeqNo /\ e.entry.view \in Int /\ e.entry.req \in Request
             /\ e = [at |-> e.at, entry |-> e.entry]
    <2>1. /\ e.at \in DOMAIN order /\ order[e.at] \in S /\ e.entry \in order[e.at].prepared
          /\ e = [at |-> e.at, entry |-> e.entry]
        BY EntriesAre
    <2>2. e.at \in Int
        BY <2>1, SequencesOf DEF Recordable
    <2>3. order[e.at] \in ViewChangeMessage
        BY <2>1 DEF Recordable
    <2>4. QED
        BY <2>1, <2>2, <2>3, RecordedFields DEF View
<1>3. ASSUME NEW p \in Chosen(order), NEW q \in Chosen(order), p.seq = q.seq
      PROVE  p = q
    <2>1. PICK d \in Entries(order) : LatestOne(d) /\ p = [seq |-> d.entry.seq, req |-> d.entry.req]
        BY <1>1
    <2>2. PICK e \in Entries(order) : LatestOne(e) /\ q = [seq |-> e.entry.seq, req |-> e.entry.req]
        BY <1>1
    <2>3. d.entry.seq = e.entry.seq
        BY <1>3, <2>1, <2>2
    <2>4. /\ d.at \in Int /\ e.at \in Int
          /\ d.entry.view \in Int /\ e.entry.view \in Int
        BY <1>2
    <2>5. d.at = e.at
        BY <2>1, <2>2, <2>3, <2>4
    <2>6. d.entry \in order[d.at].prepared /\ e.entry \in order[d.at].prepared /\ order[d.at] \in S
        BY <1>2, <2>5
    <2>7. d.entry = e.entry
        BY <2>3, <2>6 DEF Recordable
    <2>8. QED
        BY <2>1, <2>2, <2>7
<1>4. ASSUME NEW p \in Chosen(order)
      PROVE  /\ p \in PrePrepare
             /\ \E m \in S : \E d \in m.prepared : d.seq = p.seq /\ d.req = p.req
    <2>1. PICK e \in Entries(order) : p = [seq |-> e.entry.seq, req |-> e.entry.req]
        BY <1>1
    <2>2. QED
        BY <1>2, <2>1 DEF PrePrepare
<1>5. IsFiniteSet(Chosen(order))
    <2> DEFINE f == [p \in Chosen(order) |-> p.seq]
    <2>1. f \in [Chosen(order) -> SeqNo]
        BY <1>4 DEF PrePrepare
    <2>2. f \in Injection(Chosen(order), SeqNo)
        BY <1>3, <2>1 DEF Injection, IsInjective
    <2>3. IsFiniteSet(SeqNo)
        BY RequestAssumption, FS_Interval DEF SeqNo
    <2>4. QED
        BY <2>2, <2>3, FS_Injection
<1>6. QED
    BY <1>3, <1>4, <1>5

LEMMA SequenceOver ==
    ASSUME NEW S, NEW s \in Seq(S)
    PROVE  /\ Len(s) \in Nat /\ DOMAIN s = 1 .. Len(s)
           /\ \A i \in 1 .. Len(s) : s[i] \in S
           /\ \A T : (\A i \in 1 .. Len(s) : s[i] \in T) => s \in Seq(T)
<1>1. Len(s) \in Nat /\ DOMAIN s = 1 .. Len(s) /\ \A i \in 1 .. Len(s) : s[i] \in S
    OBVIOUS
<1>2. s = [i \in 1 .. Len(s) |-> s[i]]
    OBVIOUS
<1>3. ASSUME NEW T, \A i \in 1 .. Len(s) : s[i] \in T PROVE s \in Seq(T)
    BY <1>1, <1>2, <1>3
<1>4. QED
    BY <1>1, <1>3

LEMMA SequenceFrom ==
    ASSUME NEW n \in Nat, NEW S, NEW f \in [1 .. n -> S]
    PROVE  f \in Seq(S)
OBVIOUS

LEMMA UnassignedAre ==
    ASSUME NEW S, Recordable(S), NEW r, IsFiniteSet(pending[r]), pending[r] \subseteq Request,
           NEW chosen
    PROVE  IsFiniteSet(Unassigned(r, S, chosen)) /\ Unassigned(r, S, chosen) \subseteq Request
<1> DEFINE T == {m.pending : m \in S}
           f == [m \in S |-> m.pending]
<1>1. f \in Surjection(S, T)
    BY DEF Surjection
<1>2. IsFiniteSet(T)
    BY <1>1, FS_Surjection DEF Recordable
<1>3. \A t \in T : IsFiniteSet(t) /\ t \subseteq Request
    BY RecordedFields DEF Recordable
<1>4. IsFiniteSet(UNION T) /\ UNION T \subseteq Request
    BY <1>2, <1>3, FS_UNION
<1>5. IsFiniteSet(pending[r] \cup UNION T)
    BY <1>4, FS_Union
<1>6. Unassigned(r, S, chosen) \subseteq pending[r] \cup UNION T
    BY DEF Unassigned
<1>7. QED
    BY <1>4, <1>5, <1>6, FS_Subset

LEMMA RecordableSubset ==
    ASSUME NEW S, Recordable(S), NEW T, T \subseteq S
    PROVE  Recordable(T)
BY FS_Subset DEF Recordable

\* A NEW-VIEW is the slots taken over, then requests under higher numbers.
LEMMA NewViewIs ==
    ASSUME NEW S, NEW r, NEW v, NEW nv \in NewViewsFor(r, v, S)
    PROVE  \E order \in SetToSeqs({m \in S : m.newView = v}) :
           \E old \in SetToSeqs(Chosen(order)) :
           \E new \in SetToSeqs(Unassigned(r, S, Chosen(order))) :
              nv = NewView(v, old, new, FirstNew(r, order))
<1>1. PICK order \in SetToSeqs({m \in S : m.newView = v}) :
        nv \in {NewView(v, old, new, FirstNew(r, order)) :
                  old \in SetToSeqs(Chosen(order)),
                  new \in SetToSeqs(Unassigned(r, S, Chosen(order)))}
    BY DEF NewViewsFor
<1>2. PICK old \in SetToSeqs(Chosen(order)), new \in SetToSeqs(Unassigned(r, S, Chosen(order))) :
        nv = NewView(v, old, new, FirstNew(r, order))
    BY <1>1
<1>3. QED
    BY <1>2

LEMMA FirstIs ==
    ASSUME NEW S, Recordable(S), NEW r, nextSeq[r] \in Nat, NEW order \in SetToSeqs(S)
    PROVE  /\ StableUpTo(order, Len(order)) \in 0 .. MaxSeq
           /\ FirstNew(r, order) \in Nat
           /\ FirstNew(r, order) > HighestSeq(Chosen(order), StableUpTo(order, Len(order)))
           /\ FirstNew(r, order) > StableUpTo(order, Len(order))
           /\ \A p \in Chosen(order) : FirstNew(r, order) > p.seq
           /\ FirstNew(r, order) >= nextSeq[r]
<1> DEFINE stable == StableUpTo(order, Len(order))
           highest == HighestSeq(Chosen(order), stable)
<1>0. MaxSeq \in Nat
    BY RequestAssumption
<1>1. /\ Len(order) \in Nat
      /\ \A j \in 1 .. Len(order) : order[j].stable \in 0 .. MaxSeq
    BY SequencesOf, RecordedFields DEF Recordable
<1>2. stable \in 0 .. MaxSeq
    BY <1>1, StableIs
<1>3. \A p \in Chosen(order) : p.seq \in SeqNo
    BY ChosenAre DEF PrePrepare
<1>4. /\ highest \in 0 .. MaxSeq /\ stable <= highest
      /\ \A p \in Chosen(order) : p.seq <= highest
    BY <1>2, <1>3, HighestIs
<1>5. FirstNew(r, order) = IF highest + 1 < nextSeq[r] THEN nextSeq[r] ELSE highest + 1
    BY DEF FirstNew
<1> HIDE DEF stable, highest
<1>6. FirstNew(r, order) \in Nat /\ FirstNew(r, order) > highest /\ FirstNew(r, order) >= nextSeq[r]
    BY <1>0, <1>4, <1>5
<1>7. QED
    BY <1>0, <1>2, <1>3, <1>4, <1>6 DEF stable, highest, SeqNo

LEMMA NewViewTypes ==
    ASSUME NEW S, Recordable(S), NEW r, IsFiniteSet(pending[r]), pending[r] \subseteq Request,
           nextSeq[r] \in Nat, NEW v \in View, NEW nv \in NewViewsFor(r, v, S),
           \A p \in ToSet(nv.prePrepares) : p.seq \in SeqNo
    PROVE  nv \in [view : View, prePrepares : Seq(PrePrepare)] /\ nv.view = v
<1>1. PICK order \in SetToSeqs({m \in S : m.newView = v}) :
           \E old \in SetToSeqs(Chosen(order)) :
           \E new \in SetToSeqs(Unassigned(r, S, Chosen(order))) :
              nv = NewView(v, old, new, FirstNew(r, order))
    BY NewViewIs
<1>2. PICK old \in SetToSeqs(Chosen(order)), new \in SetToSeqs(Unassigned(r, S, Chosen(order))) :
           nv = NewView(v, old, new, FirstNew(r, order))
    BY <1>1
<1> DEFINE first == FirstNew(r, order)
           more == [i \in DOMAIN new |-> [seq |-> first + i - 1, req |-> new[i]]]
           all == old \o more
<1>3. Recordable({m \in S : m.newView = v})
    BY RecordableSubset
<1>4. /\ old \in Seq(PrePrepare)
      /\ first \in Nat
    <2>1. Chosen(order) \subseteq PrePrepare /\ IsFiniteSet(Chosen(order))
        BY <1>3, ChosenAre
    <2>2. old \in Seq(Chosen(order))
        BY <2>1, SequencesOf
    <2>3. QED
        BY <1>3, <2>1, <2>2, FirstIs
<1>5. /\ new \in Seq(Request) /\ DOMAIN new = 1 .. Len(new) /\ Len(new) \in Nat
    <2>1. /\ IsFiniteSet(Unassigned(r, S, Chosen(order)))
          /\ Unassigned(r, S, Chosen(order)) \subseteq Request
        BY UnassignedAre
    <2>2. new \in Seq(Unassigned(r, S, Chosen(order))) /\ DOMAIN new = 1 .. Len(new)
        BY <2>1, SequencesOf
    <2>3. QED
        BY <2>1, <2>2
<1> HIDE DEF first
<1>6. more \in Seq([seq : Int, req : Request]) /\ Len(more) = Len(new)
    <2>1. ASSUME NEW i \in 1 .. Len(new)
          PROVE  [seq |-> first + i - 1, req |-> new[i]] \in [seq : Int, req : Request]
        BY <1>4, <1>5
    <2>2. more \in [1 .. Len(new) -> [seq : Int, req : Request]]
        BY <1>5, <2>1
    <2>3. QED
        BY <1>5, <2>2
<1>7. old \in Seq([seq : Int, req : Request])
    <2>1. PrePrepare \subseteq [seq : Int, req : Request]
        BY RequestAssumption DEF PrePrepare, SeqNo
    <2>2. \A i \in 1 .. Len(old) : old[i] \in [seq : Int, req : Request]
        BY <1>4, <2>1, SequenceOver
    <2>3. QED
        BY <1>4, <2>2, SequenceOver
<1>8. nv.prePrepares = all /\ nv = [view |-> v, prePrepares |-> all]
    BY <1>2 DEF NewView, first
<1>9. all \in Seq([seq : Int, req : Request])
    BY <1>6, <1>7
<1> HIDE DEF all
<1>10. \A i \in 1 .. Len(all) : all[i] \in PrePrepare
    <2> SUFFICES ASSUME NEW i \in 1 .. Len(all) PROVE all[i] \in PrePrepare
        OBVIOUS
    <2>1. all[i] \in [seq : Int, req : Request]
        BY <1>9, SequenceOver
    <2>2. all[i] \in ToSet(nv.prePrepares)
        <3>1. i \in DOMAIN all
            BY <1>9
        <3>2. QED
            BY <1>8, <3>1 DEF ToSet
    <2>3. QED
        BY <2>1, <2>2 DEF PrePrepare
<1>11. all \in Seq(PrePrepare)
    BY <1>9, <1>10, SequenceOver
<1>12. QED
    BY <1>8, <1>11

-----------------------------------------------------------------------------
(***************************************************************************)
(* The pieces that handlers are built from.                                *)
(***************************************************************************)
LEMMA SentMessages ==
    ASSUME TypeOK, NEW r \in Replica, NEW v \in View, NEW s \in SeqNo, NEW req \in Request
    PROVE  /\ Primary(r) \in Replica
           /\ Vote("PREPARE", r, v, s, req) \in Message
           /\ Vote("COMMIT", r, v, s, req) \in Message
           /\ \A type \in {"PRE_PREPARE", "PREPARE_CERT", "COMMIT_CERT"} :
                Broadcast(type, r, v, s, req) \subseteq Message
<1>1. Primary(r) \in Replica
    BY ViewAssumption DEF Primary, TypeOK
<1>2. QED
    BY <1>1 DEF Vote, Broadcast, Message, Up

LEMMA LockTypes ==
    ASSUME TypeOK, NEW r \in Replica, NEW s \in SeqNo, NEW req
    PROVE  [lock EXCEPT ![r] = SetLocks(r, req, s)] \in [Replica -> [Item -> SeqNo \cup {0}]]
<1>1. SetLocks(r, req, s) \in [Item -> SeqNo \cup {0}]
    BY DEF SetLocks, TypeOK
<1>2. QED
    BY <1>1 DEF TypeOK

LEMMA ProcessTypes ==
    ASSUME TypeOK, NEW r \in Replica, NEW v \in View, NEW s \in SeqNo, NEW req \in Request,
           NEW nv \in View, NEW msgs, msgs \subseteq Message,
           ProcessPrePrepare(r, v, s, req, nv, msgs)
    PROVE  /\ lock' \in [Replica -> [Item -> SeqNo \cup {0}]]
           /\ waiting' \in [Replica -> SUBSET Task]
           /\ net' \subseteq Message
<1>1. lock' \in [Replica -> [Item -> SeqNo \cup {0}]]
    BY LockTypes DEF ProcessPrePrepare, TypeOK
<1>2. waiting \in [Replica -> SUBSET Task]
    BY DEF TypeOK, Task
<1>3. waiting' \in [Replica -> SUBSET Task]
    <2>1. [view |-> v, seq |-> s, req |-> req, nv |-> nv] \in Task
        BY DEF Task
    <2>2. \/ waiting' = waiting
          \/ waiting' = [waiting EXCEPT ![r] = @ \cup
                           {[view |-> v, seq |-> s, req |-> req, nv |-> nv]}]
        BY DEF ProcessPrePrepare
    <2>3. QED
        BY <1>2, <2>1, <2>2
<1>4. net' \subseteq Message
    <2>1. Vote("PREPARE", r, v, s, req) \in Message
        BY SentMessages
    <2>2. net' \subseteq msgs \cup {Vote("PREPARE", r, v, s, req)}
        BY DEF ProcessPrePrepare
    <2>3. QED
        BY <2>1, <2>2
<1>5. QED
    BY <1>1, <1>3, <1>4

\* What tryExecute runs, and where it stops.
LEMMA ExecuteIs ==
    ASSUME TypeOK, NEW r \in Replica, NEW slots \in [SeqNo -> Slot],
           \A s \in SeqNo : slots[s].commitCert => slots[s].req \in Request,
           TryExecute(r, slots)
    PROVE  \E to \in execSeq[r] .. MaxSeq + 1 :
           /\ \A s \in execSeq[r] .. to - 1 : s \in SeqNo /\ slots[s].commitCert /\ ~slots[s].executed
           /\ to \in SeqNo => ~slots[to].commitCert \/ slots[to].executed
           /\ log' = [log EXCEPT ![r] =
                [s \in SeqNo |-> [slots[s] EXCEPT !.executed = @ \/ s \in execSeq[r] .. to - 1]]]
           /\ execSeq' = [execSeq EXCEPT ![r] = to]
           /\ datastore' = [datastore EXCEPT ![r] = @ \o
                [i \in 1 .. to - execSeq[r] |->
                   [seq |-> execSeq[r] + i - 1, req |-> slots[execSeq[r] + i - 1].req]]]
           /\ clientTS' \in [Replica -> [Client -> Nat]]
           /\ lock' \in [Replica -> [Item -> SeqNo \cup {0}]]
<1> DEFINE run(to) == execSeq[r] .. to - 1
           Latest(to, c) == {s \in run(to) : /\ slots[s].req.client = c
                                /\ \A t \in run(to) : t > s => slots[t].req.client # c}
<1>0. /\ MaxSeq \in Nat /\ execSeq[r] \in 1 .. MaxSeq + 1
    BY RequestAssumption DEF TypeOK
<1>1. PICK to \in execSeq[r] .. MaxSeq + 1 :
        /\ \A s \in run(to) : slots[s].commitCert /\ ~slots[s].executed
        /\ to \in SeqNo => ~slots[to].commitCert \/ slots[to].executed
        /\ log' = [log EXCEPT ![r] =
              [s \in SeqNo |-> [slots[s] EXCEPT !.executed = @ \/ s \in run(to)]]]
        /\ execSeq' = [execSeq EXCEPT ![r] = to]
        /\ clientTS' = [clientTS EXCEPT ![r] =
              [c \in Client |-> IF Latest(to, c) = {} THEN @[c]
                               ELSE slots[CHOOSE s \in Latest(to, c) : TRUE].req.ts]]
        /\ datastore' = [datastore EXCEPT ![r] =
              @ \o [i \in 1 .. to - execSeq[r] |->
                    [seq |-> execSeq[r] + i - 1, req |-> slots[execSeq[r] + i - 1].req]]]
        /\ lock' = [lock EXCEPT ![r] =
              [i \in Item |-> IF \E s \in run(to) : i \in {slots[s].req.x, slots[s].req.y}
                             THEN 0 ELSE @[i]]]
    BY Zenon DEF TryExecute
<1>2. run(to) \subseteq SeqNo
    BY <1>0, <1>1 DEF SeqNo
<1>3. \A s \in run(to) : slots[s].req \in Request /\ slots[s].req.ts \in Nat
    BY <1>1, <1>2, RequestFields
<1>4. \A c \in Client :
        Latest(to, c) # {} => slots[CHOOSE s \in Latest(to, c) : TRUE].req.ts \in Nat
    <2>1. SUFFICES ASSUME NEW c \in Client, Latest(to, c) # {}
                   PROVE  slots[CHOOSE s \in Latest(to, c) : TRUE].req.ts \in Nat
        OBVIOUS
    <2>2. (CHOOSE s \in Latest(to, c) : TRUE) \in Latest(to, c)
        BY <2>1
    <2>3. (CHOOSE s \in Latest(to, c) : TRUE) \in run(to)
        BY <2>2
    <2>4. QED
        BY <1>3, <2>3
<1>5. clientTS' \in [Replica -> [Client -> Nat]]
    <2> DEFINE G == [c \in Client |-> IF Latest(to, c) = {} THEN clientTS[r][c]
                               ELSE slots[CHOOSE s \in Latest(to, c) : TRUE].req.ts]
    <2>1. clientTS' = [clientTS EXCEPT ![r] =
              [c \in Client |-> IF Latest(to, c) = {} THEN @[c]
                               ELSE slots[CHOOSE s \in Latest(to, c) : TRUE].req.ts]]
        BY <1>1
    <2>2. G \in [Client -> Nat]
        <3> DEFINE g(c) == IF Latest(to, c) = {} THEN clientTS[r][c]
                           ELSE slots[CHOOSE s \in Latest(to, c) : TRUE].req.ts
        <3>1. \A c \in Client : clientTS[r][c] \in Nat
            BY DEF TypeOK
        <3>2. \A c \in Client : g(c) \in Nat
            BY <1>4, <3>1
        <3>3. G = [c \in Client |-> g(c)]
            OBVIOUS
        <3> HIDE DEF g, G
        <3>4. QED
            BY <3>2, <3>3
    <2>3. clientTS' = [clientTS EXCEPT ![r] = G]
        BY <2>1
    <2>4. clientTS \in [Replica -> [Client -> Nat]]
        BY DEF TypeOK
    <2> HIDE DEF G
    <2>5. QED
        BY <2>2, <2>3, <2>4
<1>6. lock' \in [Replica -> [Item -> SeqNo \cup {0}]]
    BY <1>1 DEF TypeOK
<1>7. \A s \in execSeq[r] .. to - 1 : s \in SeqNo /\ slots[s].commitCert /\ ~slots[s].executed
    BY <1>1, <1>2
<1>8. QED
    BY <1>1, <1>5, <1>6, <1>7

LEMMA ExecuteTypes ==
    ASSUME TypeOK, NEW r \in Replica, NEW slots \in [SeqNo -> Slot],
           \A s \in SeqNo : slots[s].commitCert => slots[s].req \in Request,
           TryExecute(r, slots)
    PROVE  /\ log' \in [Replica -> [SeqNo -> Slot]]
           /\ execSeq' \in [Replica -> 1 .. MaxSeq + 1]
           /\ datastore' \in [Replica -> Seq(PrePrepare)]
           /\ clientTS' \in [Replica -> [Client -> Nat]]
           /\ lock' \in [Replica -> [Item -> SeqNo \cup {0}]]
           /\ \A q \in Replica : q # r => log'[q] = log[q] /\ execSeq'[q] = execSeq[q]
           /\ \A s \in SeqNo : /\ log'[r][s].req = slots[s].req
                               /\ log'[r][s].prepareCert = slots[s].prepareCert
                               /\ log'[r][s].commitCert = slots[s].commitCert
<1>1. PICK to \in execSeq[r] .. MaxSeq + 1 :
           /\ \A s \in execSeq[r] .. to - 1 : s \in SeqNo /\ slots[s].commitCert /\ ~slots[s].executed
           /\ log' = [log EXCEPT ![r] =
                [s \in SeqNo |-> [slots[s] EXCEPT !.executed = @ \/ s \in execSeq[r] .. to - 1]]]
           /\ execSeq' = [execSeq EXCEPT ![r] = to]
           /\ datastore' = [datastore EXCEPT ![r] = @ \o
                [i \in 1 .. to - execSeq[r] |->
                   [seq |-> execSeq[r] + i - 1, req |-> slots[execSeq[r] + i - 1].req]]]
           /\ clientTS' \in [Replica -> [Client -> Nat]]
           /\ lock' \in [Replica -> [Item -> SeqNo \cup {0}]]
    BY ExecuteIs, ZenonT(60)
<1>2. /\ MaxSeq \in Nat /\ execSeq[r] \in 1 .. MaxSeq + 1
    BY RequestAssumption DEF TypeOK
<1> DEFINE more == [i \in 1 .. to - execSeq[r] |->
                      [seq |-> execSeq[r] + i - 1, req |-> slots[execSeq[r] + i - 1].req]]
<1>3. \A i \in 1 .. to - execSeq[r] :
        [seq |-> execSeq[r] + i - 1, req |-> slots[execSeq[r] + i - 1].req] \in PrePrepare
    <2>1. SUFFICES ASSUME NEW i \in 1 .. to - execSeq[r]
                   PROVE  /\ execSeq[r] + i - 1 \in SeqNo
                          /\ slots[execSeq[r] + i - 1].req \in Request
        BY DEF PrePrepare
    <2>2. execSeq[r] + i - 1 \in execSeq[r] .. to - 1
        BY <1>2
    <2>3. QED
        BY <1>1, <2>2
<1>4. more \in Seq(PrePrepare)
    <2>1. to - execSeq[r] \in Nat
        BY <1>2
    <2>2. more \in [1 .. to - execSeq[r] -> PrePrepare]
        BY <1>3
    <2>3. QED
        BY <2>1, <2>2, SequenceFrom
<1>5. datastore[r] \o more \in Seq(PrePrepare)
    BY <1>4 DEF TypeOK
<1>6. datastore' \in [Replica -> Seq(PrePrepare)]
    BY <1>1, <1>5 DEF TypeOK
<1>7. execSeq' \in [Replica -> 1 .. MaxSeq + 1]
    BY <1>1, <1>2 DEF TypeOK
<1>8. /\ [s \in SeqNo |-> [slots[s] EXCEPT !.executed = @ \/ s \in execSeq[r] .. to - 1]]
           \in [SeqNo -> Slot]
    BY DEF Slot
<1>9. log' \in [Replica -> [SeqNo -> Slot]]
    BY <1>1, <1>8 DEF TypeOK
<1>10. \A q \in Replica : q # r => log'[q] = log[q] /\ execSeq'[q] = execSeq[q]
    BY <1>1 DEF TypeOK
<1>11. ASSUME NEW s \in SeqNo
       PROVE  /\ log'[r][s].req = slots[s].req
              /\ log'[r][s].prepareCert = slots[s].prepareCert
              /\ log'[r][s].commitCert = slots[s].commitCert
    <2>1. log'[r][s] = [slots[s] EXCEPT !.executed = @ \/ s \in execSeq[r] .. to - 1]
        BY <1>1 DEF TypeOK
    <2>2. QED
        BY <2>1 DEF Slot
<1>12. QED
    BY <1>1, <1>6, <1>7, <1>9, <1>10, <1>11

\* Entering a view.
LEMMA EnterTypes ==
    ASSUME TypeOK, LocalInv, NEW r \in Replica,
           NEW nv \in [view : View, prePrepares : Seq(PrePrepare)], EnterView(r, nv)
    PROVE  /\ view' \in [Replica -> View]
           /\ nextSeq' \in [Replica -> 1 .. MaxSeq + 1]
           /\ pending' \in [Replica -> SUBSET Request]
           /\ timer' \in [Replica -> {"nil", "armed", "fired"}]
           /\ install' \in [Replica -> [View -> Seq(PrePrepare)]]
           /\ \A q \in Replica : IsFiniteSet(pending'[q])
           /\ \A q \in Replica : timer'[q] = "armed" => view'[q] < MaxView
<1> DEFINE highest == HighestSeq(ToSet(nv.prePrepares), 0)
<1>1. /\ MaxSeq \in Nat /\ nextSeq[r] \in 1 .. MaxSeq + 1 /\ 0 \in 0 .. MaxSeq
      /\ nv.view \in View /\ nv.prePrepares \in Seq(PrePrepare)
    BY RequestAssumption DEF TypeOK
<1>2. \A p \in ToSet(nv.prePrepares) : p.seq \in SeqNo
    <2>1. ToSet(nv.prePrepares) \subseteq PrePrepare
        BY <1>1, SequenceOver DEF ToSet
    <2>2. QED
        BY <2>1 DEF PrePrepare
<1>3. highest \in 0 .. MaxSeq
    BY <1>1, <1>2, HighestIs
<1>4. nextSeq' = [nextSeq EXCEPT ![r] = IF highest >= @ THEN highest + 1 ELSE @]
    BY DEF EnterView
<1> HIDE DEF highest
<1>5. nextSeq' \in [Replica -> 1 .. MaxSeq + 1]
    BY <1>1, <1>3, <1>4 DEF TypeOK
<1>6. /\ view' = [view EXCEPT ![r] = nv.view]
      /\ pending' = [pending EXCEPT ![r] = {}]
      /\ timer' = [timer EXCEPT ![r] = "nil"]
      /\ install' = [install EXCEPT ![r][nv.view] = nv.prePrepares]
    BY DEF EnterView
<1>7. /\ view' \in [Replica -> View]
      /\ pending' \in [Replica -> SUBSET Request]
      /\ timer' \in [Replica -> {"nil", "armed", "fired"}]
    BY <1>1, <1>6 DEF TypeOK
<1>8. install' \in [Replica -> [View -> Seq(PrePrepare)]]
    BY <1>1, <1>6 DEF TypeOK
<1>9. \A q \in Replica : IsFiniteSet(pending'[q])
    BY <1>6, FS_EmptySet DEF TypeOK, LocalInv
<1>10. \A q \in Replica : timer'[q] = "armed" => view'[q] < MaxView
    BY <1>6 DEF TypeOK, LocalInv
<1>11. QED
    BY <1>5, <1>7, <1>8, <1>9, <1>10

-----------------------------------------------------------------------------
(***************************************************************************)
(* Type correctness.                                                       *)
(***************************************************************************)
LEMMA TypeInit == Init => TypeInv
<1> SUFFICES ASSUME Init PROVE TypeInv
    OBVIOUS
<1>0. MaxSeq \in Nat /\ MaxView \in Nat /\ 0 \in View
    BY RequestAssumption, ViewAssumption DEF View
<1>1. EmptySlot \in Slot
    BY DEF EmptySlot, Slot
<1>2. <<>> \in Seq(PrePrepare)
    OBVIOUS
<1>3. TypeOK
    BY <1>0, <1>1, <1>2 DEF Init, TypeOK
<1>4. ViewChangesTyped /\ NewViewsTyped
    BY FS_EmptySet DEF Init, ViewChangesTyped, NewViewsTyped
<1>5. LocalInv
    BY FS_EmptySet DEF Init, LocalInv, EmptySlot
<1>6. QED
    BY <1>3, <1>4, <1>5 DEF TypeInv

\* Handlers of phase messages leave what is about views alone.
LEMMA TypePhase ==
    ASSUME TypeInv, UNCHANGED viewVars,
           log' \in [Replica -> [SeqNo -> Slot]],
           lock' \in [Replica -> [Item -> SeqNo \cup {0}]],
           waiting' \in [Replica -> SUBSET Task],
           net' \subseteq Message,
           execSeq' \in [Replica -> 1 .. MaxSeq + 1],
           clientTS' \in [Replica -> [Client -> Nat]],
           datastore' \in [Replica -> Seq(PrePrepare)],
           timer' \in [Replica -> {"nil", "armed", "fired"}],
           \A r \in Replica : timer'[r] = "armed" => timer[r] = "armed",
           \A r \in Replica : \A s \in SeqNo :
             log'[r][s].prepareCert \/ log'[r][s].commitCert => log'[r][s].req # NoRequest
    PROVE  TypeInv'
<1>1. TypeOK'
    BY DEF TypeInv, TypeOK, viewVars, Task
<1>2. LocalInv'
    BY DEF TypeInv, LocalInv, viewVars
<1>3. QED
    BY <1>1, <1>2 DEF TypeInv, ViewChangesTyped, NewViewsTyped, viewVars

\* A handler that sets a field of a slot and runs nothing.
LEMMA TypeSlot ==
    ASSUME TypeInv, NEW r \in Replica, NEW s \in SeqNo, NEW slot \in Slot,
           log' = [log EXCEPT ![r][s] = slot],
           slot.prepareCert \/ slot.commitCert => slot.req # NoRequest
    PROVE  /\ log' \in [Replica -> [SeqNo -> Slot]]
           /\ \A q \in Replica : \A i \in SeqNo :
                log'[q][i].prepareCert \/ log'[q][i].commitCert => log'[q][i].req # NoRequest
BY DEF TypeInv, TypeOK, LocalInv

LEMMA TypeSetRequest ==
    ASSUME TypeInv, NEW r \in Replica, NEW s \in SeqNo, NEW req \in Request,
           log' = [log EXCEPT ![r][s].req = req]
    PROVE  /\ log' \in [Replica -> [SeqNo -> Slot]]
           /\ \A q \in Replica : \A i \in SeqNo :
                log'[q][i].prepareCert \/ log'[q][i].commitCert => log'[q][i].req # NoRequest
<1>0. req # NoRequest /\ log \in [Replica -> [SeqNo -> Slot]]
    BY RequestAssumption DEF TypeInv, TypeOK
<1>1. log' \in [Replica -> [SeqNo -> Slot]]
    BY <1>0 DEF Slot
<1>2. ASSUME NEW q \in Replica, NEW i \in SeqNo
      PROVE  log'[q][i].prepareCert \/ log'[q][i].commitCert => log'[q][i].req # NoRequest
    <2>1. CASE q = r /\ i = s
        <3>1. log'[q][i].req = req
            BY <1>0, <2>1 DEF Slot
        <3>2. QED
            BY <1>0, <3>1
    <2>2. CASE ~(q = r /\ i = s)
        <3>1. log'[q][i] = log[q][i]
            BY <1>0, <2>2
        <3>2. QED
            BY <3>1 DEF TypeInv, LocalInv
    <2>3. QED
        BY <2>1, <2>2
<1>3. QED
    BY <1>1, <1>2

LEMMA TypeSetPrepared ==
    ASSUME TypeInv, NEW r \in Replica, NEW s \in SeqNo, log[r][s].req # NoRequest,
           log' = [log EXCEPT ![r][s].prepareCert = TRUE]
    PROVE  /\ log' \in [Replica -> [SeqNo -> Slot]]
           /\ \A q \in Replica : \A i \in SeqNo :
                log'[q][i].prepareCert \/ log'[q][i].commitCert => log'[q][i].req # NoRequest
<1>1. log[r][s] \in Slot
    BY SlotType DEF TypeInv
<1>2. \E slot \in Slot : slot = [log[r][s] EXCEPT !.prepareCert = TRUE] /\ slot.req = log[r][s].req
    <2> DEFINE slot == [log[r][s] EXCEPT !.prepareCert = TRUE]
    <2>1. slot \in Slot /\ slot.req = log[r][s].req
        BY <1>1 DEF Slot
    <2> HIDE DEF slot
    <2>2. QED
        BY <2>1 DEF slot
<1>3. PICK slot \in Slot : slot = [log[r][s] EXCEPT !.prepareCert = TRUE] /\ slot.req = log[r][s].req
    BY <1>2
<1>4. log' = [log EXCEPT ![r][s] = slot]
    BY <1>3
<1>5. slot.req # NoRequest
    BY <1>3
<1>6. QED
    BY <1>4, <1>5, TypeSlot, ZenonT(60)

LEMMA TypeStartConsensus ==
    ASSUME TypeInv, NEW r \in Replica, NEW req \in Request, StartConsensus(r, req)
    PROVE  TypeInv'
<1> DEFINE s == nextSeq[r]
<1>1. /\ s \in SeqNo
      /\ nextSeq' = [nextSeq EXCEPT ![r] = s + 1]
      /\ log' = [log EXCEPT ![r][s].req = req]
      /\ lock' = [lock EXCEPT ![r] = SetLocks(r, req, s)]
      /\ timer' = [timer EXCEPT ![r] = "nil"]
      /\ net' = net \cup Broadcast("PRE_PREPARE", r, view[r], s, req)
                  \cup {Vote("PREPARE", r, view[r], s, req)}
      /\ UNCHANGED <<execVars, view, pending, vcLog, viewChanges, newViews, install, waiting>>
    BY DEF StartConsensus
<1> HIDE DEF s
<1>2. TypeOK /\ MaxSeq \in Nat /\ view[r] \in View /\ req # NoRequest
    BY RequestAssumption DEF TypeInv, TypeOK
<1>3. /\ log' \in [Replica -> [SeqNo -> Slot]]
      /\ \A q \in Replica : \A i \in SeqNo :
           log'[q][i].prepareCert \/ log'[q][i].commitCert => log'[q][i].req # NoRequest
    BY <1>1, TypeSetRequest
<1>4. lock' \in [Replica -> [Item -> SeqNo \cup {0}]]
    BY <1>1, <1>2, LockTypes
<1>5. net' \subseteq Message
    <2>1. /\ Vote("PREPARE", r, view[r], s, req) \in Message
          /\ Broadcast("PRE_PREPARE", r, view[r], s, req) \subseteq Message
        BY <1>1, <1>2, SentMessages
    <2>2. QED
        BY <1>1, <1>2, <2>1 DEF TypeOK
<1>6. nextSeq' \in [Replica -> 1 .. MaxSeq + 1]
    BY <1>1, <1>2 DEF TypeOK, SeqNo
<1>7. timer' \in [Replica -> {"nil", "armed", "fired"}]
    BY <1>1, <1>2 DEF TypeOK
<1>8. TypeOK'
    BY <1>1, <1>2, <1>3, <1>4, <1>5, <1>6, <1>7 DEF TypeOK, execVars
<1>9. LocalInv'
    <2>1. \A q \in Replica : timer'[q] = "armed" => view'[q] < MaxView
        BY <1>1, <1>2 DEF TypeInv, LocalInv, TypeOK
    <2>2. \A q \in Replica : IsFiniteSet(pending'[q])
        BY <1>1 DEF TypeInv, LocalInv
    <2>3. QED
        BY <1>3, <2>1, <2>2 DEF LocalInv
<1>10. QED
    BY <1>1, <1>8, <1>9 DEF TypeInv, ViewChangesTyped, NewViewsTyped

LEMMA TypeOnPrePrepare ==
    ASSUME TypeInv, NEW m \in net, OnPrePrepare(m)
    PROVE  TypeInv'
<1>1. TypeOK /\ m \in Message
    BY DEF TypeInv, TypeOK
<1>2. /\ m.to \in Replica /\ m.view \in View /\ m.seq \in SeqNo /\ m.req \in Request
      /\ 0 \in View /\ m.req # NoRequest
    BY <1>1, MessageFields, RequestFields, ViewAssumption DEF View
<1>3. /\ log' = [log EXCEPT ![m.to][m.seq].req = m.req]
      /\ timer' = [timer EXCEPT ![m.to] = "nil"]
      /\ ProcessPrePrepare(m.to, m.view, m.seq, m.req, 0, net \ {m})
      /\ UNCHANGED execVars /\ UNCHANGED viewVars
    BY DEF OnPrePrepare
<1>4. net \ {m} \subseteq Message
    BY <1>1 DEF TypeOK
<1>5. /\ lock' \in [Replica -> [Item -> SeqNo \cup {0}]]
      /\ waiting' \in [Replica -> SUBSET Task]
      /\ net' \subseteq Message
    BY <1>1, <1>2, <1>3, <1>4, ProcessTypes
<1>6. /\ log' \in [Replica -> [SeqNo -> Slot]]
      /\ \A q \in Replica : \A i \in SeqNo :
           log'[q][i].prepareCert \/ log'[q][i].commitCert => log'[q][i].req # NoRequest
    BY <1>2, <1>3, TypeSetRequest
<1>7. timer' \in [Replica -> {"nil", "armed", "fired"}]
    BY <1>1, <1>2, <1>3 DEF TypeOK
<1>8. \A r \in Replica : timer'[r] = "armed" => timer[r] = "armed"
    BY <1>1, <1>2, <1>3 DEF TypeOK
<1>9. /\ execSeq' \in [Replica -> 1 .. MaxSeq + 1]
      /\ clientTS' \in [Replica -> [Client -> Nat]]
      /\ datastore' \in [Replica -> Seq(PrePrepare)]
    BY <1>1, <1>3 DEF TypeOK, execVars
<1>10. QED
    BY <1>3, <1>5, <1>6, <1>7, <1>8, <1>9, TypePhase

LEMMA TypeLockAndPrepare ==
    ASSUME TypeInv, NEW r \in Replica, NEW t \in waiting[r], LockAndPrepare(r, t)
    PROVE  TypeInv'
<1>1. TypeOK /\ t.view \in View /\ t.seq \in SeqNo /\ t.req \in Request
    BY DEF TypeInv, TypeOK
<1>2. /\ lock' = [lock EXCEPT ![r] = SetLocks(r, t.req, t.seq)]
      /\ waiting' = [waiting EXCEPT ![r] = @ \ {t}]
      /\ net' = net \cup {Vote("PREPARE", r, t.view, t.seq, t.req)}
      /\ UNCHANGED <<log, timer>> /\ UNCHANGED execVars /\ UNCHANGED viewVars
    BY DEF LockAndPrepare
<1>3. lock' \in [Replica -> [Item -> SeqNo \cup {0}]]
    BY <1>1, <1>2, LockTypes
<1>4. waiting' \in [Replica -> SUBSET Task]
    BY <1>1, <1>2 DEF TypeOK, Task
<1>5. net' \subseteq Message
    <2>1. Vote("PREPARE", r, t.view, t.seq, t.req) \in Message
        BY <1>1, SentMessages
    <2>2. QED
        BY <1>1, <1>2, <2>1 DEF TypeOK
<1>6. /\ log' \in [Replica -> [SeqNo -> Slot]]
      /\ execSeq' \in [Replica -> 1 .. MaxSeq + 1]
      /\ clientTS' \in [Replica -> [Client -> Nat]]
      /\ datastore' \in [Replica -> Seq(PrePrepare)]
      /\ timer' \in [Replica -> {"nil", "armed", "fired"}]
    BY <1>1, <1>2 DEF TypeOK, execVars
<1>7. \A q \in Replica : \A s \in SeqNo :
        log'[q][s].prepareCert \/ log'[q][s].commitCert => log'[q][s].req # NoRequest
    BY <1>2 DEF TypeInv, LocalInv
<1>8. \A q \in Replica : timer'[q] = "armed" => timer[q] = "armed"
    BY <1>2
<1>9. QED
    BY <1>2, <1>3, <1>4, <1>5, <1>6, <1>7, <1>8, TypePhase

\* The collector counts only votes for what its slot holds.
LEMMA VotedRequest ==
    ASSUME TypeOK, NEW r \in Replica, NEW phase, NEW s \in SeqNo,
           Cardinality(Votes(r, phase, s)) >= Quorum
    PROVE  \E m \in net : /\ m.type = phase /\ m.to = r /\ m.seq = s /\ CountsVote(m)
                          /\ m.view = view[r] /\ m.req = log[r][s].req /\ log[r][s].req \in Request
<1>1. Votes(r, phase, s) # {}
    BY FS_EmptySet, FaultAssumption DEF Quorum
<1>2. PICK m \in net : m.type = phase /\ m.to = r /\ m.seq = s /\ CountsVote(m)
    BY <1>1 DEF Votes
<1>3. m.req \in Request
    BY MessageFields DEF TypeOK
<1>4. QED
    BY <1>2, <1>3 DEF CountsVote

LEMMA TypeOnPrepare ==
    ASSUME TypeInv, NEW r \in Replica, NEW s \in SeqNo, OnPrepare(r, s)
    PROVE  TypeInv'
<1> DEFINE req == log[r][s].req
<1>1. /\ Cardinality(Votes(r, "PREPARE", s)) >= Quorum
      /\ log' = [log EXCEPT ![r][s].prepareCert = TRUE]
      /\ net' = net \cup Broadcast("PREPARE_CERT", r, view[r], s, log[r][s].req)
                  \cup {Vote("COMMIT", r, view[r], s, log[r][s].req)}
      /\ UNCHANGED <<lock, waiting, timer>> /\ UNCHANGED execVars /\ UNCHANGED viewVars
    BY DEF OnPrepare
<1>2. TypeOK /\ view[r] \in View
    BY DEF TypeInv, TypeOK
<1>3. req \in Request /\ req # NoRequest
    <2>1. PICK m \in net : log[r][s].req \in Request
        BY <1>1, <1>2, VotedRequest
    <2>2. QED
        BY <2>1, RequestAssumption
<1>4. net' \subseteq Message
    <2>1. /\ Vote("COMMIT", r, view[r], s, log[r][s].req) \in Message
          /\ Broadcast("PREPARE_CERT", r, view[r], s, log[r][s].req) \subseteq Message
        BY <1>2, <1>3, SentMessages DEF req
    <2>2. QED
        BY <1>1, <1>2, <2>1 DEF TypeOK
<1>5. /\ log' \in [Replica -> [SeqNo -> Slot]]
      /\ \A q \in Replica : \A i \in SeqNo :
           log'[q][i].prepareCert \/ log'[q][i].commitCert => log'[q][i].req # NoRequest
    BY <1>1, <1>3, TypeSetPrepared
<1>6. /\ lock' \in [Replica -> [Item -> SeqNo \cup {0}]]
      /\ waiting' \in [Replica -> SUBSET Task]
      /\ execSeq' \in [Replica -> 1 .. MaxSeq + 1]
      /\ clientTS' \in [Replica -> [Client -> Nat]]
      /\ datastore' \in [Replica -> Seq(PrePrepare)]
      /\ timer' \in [Replica -> {"nil", "armed", "fired"}]
      /\ \A q \in Replica : timer'[q] = "armed" => timer[q] = "armed"
    BY <1>1, <1>2 DEF TypeOK, Task, execVars
<1>7. QED
    BY <1>1, <1>4, <1>5, <1>6, TypePhase

LEMMA TypeOnPrepareCert ==
    ASSUME TypeInv, NEW m \in net, OnPrepareCert(m)
    PROVE  TypeInv'
<1>1. TypeOK /\ m \in Message
    BY DEF TypeInv, TypeOK
<1>2. /\ m.to \in Replica /\ m.view \in View /\ m.seq \in SeqNo /\ m.req \in Request
      /\ m.req # NoRequest
    BY <1>1, MessageFields, RequestFields
<1>3. /\ log[m.to][m.seq].req = m.req
      /\ log' = [log EXCEPT ![m.to][m.seq].prepareCert = TRUE]
      /\ net' = (net \ {m}) \cup {Vote("COMMIT", m.to, m.view, m.seq, m.req)}
      /\ UNCHANGED <<lock, waiting, timer>> /\ UNCHANGED execVars /\ UNCHANGED viewVars
    BY DEF OnPrepareCert, AcceptsCert
<1>5. net' \subseteq Message
    <2>1. Vote("COMMIT", m.to, m.view, m.seq, m.req) \in Message
        BY <1>1, <1>2, SentMessages
    <2>2. QED
        BY <1>1, <1>3, <2>1 DEF TypeOK
<1>6. /\ log' \in [Replica -> [SeqNo -> Slot]]
      /\ \A q \in Replica : \A i \in SeqNo :
           log'[q][i].prepareCert \/ log'[q][i].commitCert => log'[q][i].req # NoRequest
    BY <1>2, <1>3, TypeSetPrepared
<1>7. /\ lock' \in [Replica -> [Item -> SeqNo \cup {0}]]
      /\ waiting' \in [Replica -> SUBSET Task]
      /\ execSeq' \in [Replica -> 1 .. MaxSeq + 1]
      /\ clientTS' \in [Replica -> [Client -> Nat]]
      /\ datastore' \in [Replica -> Seq(PrePrepare)]
      /\ timer' \in [Replica -> {"nil", "armed", "fired"}]
      /\ \A q \in Replica : timer'[q] = "armed" => timer[q] = "armed"
    BY <1>1, <1>3 DEF TypeOK, Task, execVars
<1>8. QED
    BY <1>3, <1>5, <1>6, <1>7, TypePhase

\* The slots of r with a commit certificate in one more of them.
LEMMA CommittedSlots ==
    ASSUME TypeInv, NEW r \in Replica, NEW s \in SeqNo, log[r][s].req # NoRequest
    PROVE  \E slots \in [SeqNo -> Slot] :
           /\ slots = [log[r] EXCEPT ![s].commitCert = TRUE]
           /\ \A i \in SeqNo : /\ slots[i].req = log[r][i].req
                               /\ slots[i].prepareCert = log[r][i].prepareCert
                               /\ slots[i].executed = log[r][i].executed
           /\ \A i \in SeqNo : i # s => slots[i].commitCert = log[r][i].commitCert
           /\ slots[s].commitCert
           /\ \A i \in SeqNo : slots[i].commitCert => slots[i].req \in Request
           /\ \A i \in SeqNo :
                slots[i].prepareCert \/ slots[i].commitCert => slots[i].req # NoRequest
<1> DEFINE slots == [log[r] EXCEPT ![s].commitCert = TRUE]
<1>0. log[r] \in [SeqNo -> Slot]
    BY DEF TypeInv, TypeOK
<1>1. slots \in [SeqNo -> Slot]
    BY <1>0 DEF Slot
<1>2. /\ \A i \in SeqNo : /\ slots[i].req = log[r][i].req
                          /\ slots[i].prepareCert = log[r][i].prepareCert
                          /\ slots[i].executed = log[r][i].executed
      /\ \A i \in SeqNo : i # s => slots[i].commitCert = log[r][i].commitCert
      /\ slots[s].commitCert
    BY <1>0 DEF Slot
<1>3. \A i \in SeqNo : slots[i].req \in Request \cup {NoRequest}
    BY <1>1 DEF Slot
<1> HIDE DEF slots
<1>4. ASSUME NEW i \in SeqNo, slots[i].prepareCert \/ slots[i].commitCert
      PROVE  slots[i].req # NoRequest
    <2>1. CASE i = s
        BY <1>2, <2>1
    <2>2. CASE i # s
        <3>1. log[r][i].prepareCert \/ log[r][i].commitCert
            BY <1>2, <1>4, <2>2
        <3>2. log[r][i].req # NoRequest
            BY <3>1 DEF TypeInv, LocalInv
        <3>3. QED
            BY <1>2, <3>2
    <2>3. QED
        BY <2>1, <2>2
<1>5. \A i \in SeqNo : slots[i].commitCert => slots[i].req \in Request
    BY <1>3, <1>4
<1>6. QED
    BY <1>1, <1>2, <1>4, <1>5 DEF slots

\* Handlers that add a commit certificate and run tryExecute.
LEMMA TypeExecute ==
    ASSUME TypeInv, NEW r \in Replica, NEW s \in SeqNo, log[r][s].req # NoRequest,
           TryExecute(r, [log[r] EXCEPT ![s].commitCert = TRUE]),
           net' \subseteq Message, UNCHANGED <<waiting, timer>>, UNCHANGED viewVars
    PROVE  TypeInv'
<1>0. TypeOK
    BY DEF TypeInv
<1>1. PICK slots \in [SeqNo -> Slot] :
           /\ slots = [log[r] EXCEPT ![s].commitCert = TRUE]
           /\ \A i \in SeqNo : slots[i].commitCert => slots[i].req \in Request
           /\ \A i \in SeqNo :
                slots[i].prepareCert \/ slots[i].commitCert => slots[i].req # NoRequest
    BY CommittedSlots
<1>2. TryExecute(r, slots)
    BY <1>1
<1>3. /\ log' \in [Replica -> [SeqNo -> Slot]]
      /\ execSeq' \in [Replica -> 1 .. MaxSeq + 1]
      /\ datastore' \in [Replica -> Seq(PrePrepare)]
      /\ clientTS' \in [Replica -> [Client -> Nat]]
      /\ lock' \in [Replica -> [Item -> SeqNo \cup {0}]]
      /\ \A q \in Replica : q # r => log'[q] = log[q] /\ execSeq'[q] = execSeq[q]
      /\ \A i \in SeqNo : /\ log'[r][i].req = slots[i].req
                          /\ log'[r][i].prepareCert = slots[i].prepareCert
                          /\ log'[r][i].commitCert = slots[i].commitCert
    <2>1. \A i \in SeqNo : slots[i].commitCert => slots[i].req \in Request
        BY <1>1
    <2>2. QED
        BY <1>0, <1>2, <2>1, ExecuteTypes
<1>4. ASSUME NEW q \in Replica, NEW i \in SeqNo
      PROVE  log'[q][i].prepareCert \/ log'[q][i].commitCert => log'[q][i].req # NoRequest
    <2>1. CASE q = r
        <3>1. slots[i].prepareCert \/ slots[i].commitCert => slots[i].req # NoRequest
            BY <1>1
        <3>2. QED
            BY <1>3, <2>1, <3>1
    <2>2. CASE q # r
        <3>1. log'[q] = log[q]
            BY <1>3, <2>2
        <3>2. log[q][i].prepareCert \/ log[q][i].commitCert => log[q][i].req # NoRequest
            BY DEF TypeInv, LocalInv
        <3>3. QED
            BY <3>1, <3>2
    <2>3. QED
        BY <2>1, <2>2
<1>5. /\ waiting' \in [Replica -> SUBSET Task]
      /\ timer' \in [Replica -> {"nil", "armed", "fired"}]
      /\ \A q \in Replica : timer'[q] = "armed" => timer[q] = "armed"
    BY <1>0 DEF TypeOK, Task
<1>6. QED
    BY <1>3, <1>4, <1>5, TypePhase

LEMMA TypeOnCommit ==
    ASSUME TypeInv, NEW r \in Replica, NEW s \in SeqNo, OnCommit(r, s)
    PROVE  TypeInv'
<1>1. /\ Cardinality(Votes(r, "COMMIT", s)) >= Quorum
      /\ TryExecute(r, [log[r] EXCEPT ![s].commitCert = TRUE])
      /\ net' = net \cup Broadcast("COMMIT_CERT", r, view[r], s, log[r][s].req)
      /\ UNCHANGED <<waiting, timer>> /\ UNCHANGED viewVars
    BY DEF OnCommit
<1>2. TypeOK /\ view[r] \in View /\ net \subseteq Message
    BY DEF TypeInv, TypeOK
<1>3. log[r][s].req \in Request /\ log[r][s].req # NoRequest
    <2>1. PICK m \in net : log[r][s].req \in Request
        BY <1>1, <1>2, VotedRequest
    <2>2. QED
        BY <2>1, RequestAssumption
<1>4. Broadcast("COMMIT_CERT", r, view[r], s, log[r][s].req) \subseteq Message
    BY <1>2, <1>3, SentMessages
<1>5. net' \subseteq Message
    BY <1>1, <1>2, <1>4
<1>6. QED
    BY <1>1, <1>3, <1>5, TypeExecute

LEMMA TypeOnCommitCert ==
    ASSUME TypeInv, NEW m \in net, OnCommitCert(m)
    PROVE  TypeInv'
<1>1. net \subseteq Message
    BY DEF TypeInv, TypeOK
<1>2. m.to \in Replica /\ m.seq \in SeqNo /\ m.req # NoRequest
    BY <1>1, MessageFields, RequestFields
<1>3. /\ log[m.to][m.seq].req = m.req
      /\ TryExecute(m.to, [log[m.to] EXCEPT ![m.seq].commitCert = TRUE])
      /\ net' = net \ {m}
      /\ UNCHANGED <<waiting, timer>> /\ UNCHANGED viewVars
    BY DEF OnCommitCert, AcceptsCert
<1>4. net' \subseteq Message
    BY <1>1, <1>3
<1>5. QED
    BY <1>2, <1>3, <1>4, TypeExecute

LEMMA TypeDrop ==
    ASSUME TypeInv, NEW m \in net, Drop(m)
    PROVE  TypeInv'
<1>1. net' = net \ {m} /\ UNCHANGED <<log, lock, waiting, timer>> /\ UNCHANGED execVars /\ UNCHANGED viewVars
    BY DEF Drop
<1>2. TypeOK
    BY DEF TypeInv
<1>3. /\ log' \in [Replica -> [SeqNo -> Slot]]
      /\ lock' \in [Replica -> [Item -> SeqNo \cup {0}]]
      /\ waiting' \in [Replica -> SUBSET Task]
      /\ net' \subseteq Message
      /\ execSeq' \in [Replica -> 1 .. MaxSeq + 1]
      /\ clientTS' \in [Replica -> [Client -> Nat]]
      /\ datastore' \in [Replica -> Seq(PrePrepare)]
      /\ timer' \in [Replica -> {"nil", "armed", "fired"}]
      /\ \A q \in Replica : timer'[q] = "armed" => timer[q] = "armed"
    BY <1>1, <1>2 DEF TypeOK, Task, execVars
<1>4. \A q \in Replica : \A s \in SeqNo :
        log'[q][s].prepareCert \/ log'[q][s].commitCert => log'[q][s].req # NoRequest
    BY <1>1 DEF TypeInv, LocalInv
<1>5. QED
    BY <1>1, <1>3, <1>4, TypePhase

LEMMA TypeOnBackupClientRequest ==
    ASSUME TypeInv, NEW r \in Replica, NEW req \in Request, OnBackupClientRequest(r, req)
    PROVE  TypeInv'
<1>1. /\ view[r] < MaxView
      /\ pending' = [pending EXCEPT ![r] = @ \cup {req}]
      /\ timer' = [timer EXCEPT ![r] = IF @ = "nil" THEN "armed" ELSE @]
      /\ UNCHANGED slotVars /\ UNCHANGED execVars
      /\ UNCHANGED <<view, nextSeq, vcLog, viewChanges, newViews, install>>
    BY DEF OnBackupClientRequest
<1>2. TypeOK'
    BY <1>1 DEF TypeInv, TypeOK, slotVars, execVars
<1>3. \A q \in Replica : IsFiniteSet(pending'[q])
    <2>1. IsFiniteSet(pending[r] \cup {req})
        BY FS_AddElement DEF TypeInv, LocalInv
    <2>2. QED
        BY <1>1, <2>1 DEF TypeInv, LocalInv, TypeOK
<1>4. \A q \in Replica : timer'[q] = "armed" => view'[q] < MaxView
    BY <1>1 DEF TypeInv, LocalInv, TypeOK
<1>5. LocalInv'
    BY <1>1, <1>3, <1>4 DEF TypeInv, LocalInv, slotVars
<1>6. QED
    BY <1>1, <1>2, <1>5 DEF TypeInv, ViewChangesTyped, NewViewsTyped

\* The VIEW-CHANGE that r would send.
LEMMA OwnIs ==
    ASSUME TypeInv, NEW r \in Replica, view[r] + 1 \in View
    PROVE  /\ BuildViewChange(r) \in ViewChangeMessage
           /\ BuildViewChange(r).newView = view[r] + 1
           /\ IsFiniteSet(BuildViewChange(r).pending)
           /\ \A d, e \in BuildViewChange(r).prepared : d.seq = e.seq => d = e
<1> DEFINE live == {i \in SeqNo : log[r][i].req # NoRequest /\ ~log[r][i].executed}
           entry(s) == [seq |-> s, view |-> view[r], req |-> log[r][s].req]
           own == [from     |-> r,
                   newView  |-> view[r] + 1,
                   stable   |-> execSeq[r] - 1,
                   prepared |-> {entry(s) : s \in live},
                   pending  |-> pending[r]]
<1>1. BuildViewChange(r) = own
    BY DEF BuildViewChange
<1>2. /\ view[r] \in View /\ execSeq[r] - 1 \in 0 .. MaxSeq /\ pending[r] \subseteq Request
      /\ IsFiniteSet(pending[r])
    BY RequestAssumption DEF TypeInv, TypeOK, LocalInv
<1>3. \A s \in live : entry(s) \in [seq : SeqNo, view : View, req : Request]
    BY <1>2, SlotType DEF TypeInv
<1>4. \A d, e \in {entry(s) : s \in live} : d.seq = e.seq => d = e
    OBVIOUS
<1>5. {entry(s) : s \in live} \in SUBSET [seq : SeqNo, view : View, req : Request]
    BY <1>3
<1> HIDE DEF entry, live
<1>6. own \in ViewChangeMessage
    BY <1>2, <1>5 DEF ViewChangeMessage
<1>7. QED
    BY <1>1, <1>2, <1>4, <1>6

LEMMA TypeTryIssue ==
    ASSUME TypeInv, NEW r \in Replica, NEW v \in View, NEW recorded, Recordable(recorded),
           NEW fired \in [Replica -> {"nil", "armed", "fired"}],
           \A q \in Replica : fired[q] = "armed" => timer[q] = "armed",
           TryIssueNewView(r, v, recorded, fired)
    PROVE  /\ view' \in [Replica -> View]
           /\ nextSeq' \in [Replica -> 1 .. MaxSeq + 1]
           /\ pending' \in [Replica -> SUBSET Request]
           /\ timer' \in [Replica -> {"nil", "armed", "fired"}]
           /\ install' \in [Replica -> [View -> Seq(PrePrepare)]]
           /\ \A q \in Replica : IsFiniteSet(pending'[q])
           /\ \A q \in Replica : timer'[q] = "armed" => view'[q] < MaxView
           /\ NewViewsTyped'
<1>1. CASE IssuesNewView(r, v, recorded)
    <2>1. PICK nv \in NewViewsFor(r, v, recorded) :
            /\ \A p \in ToSet(nv.prePrepares) : p.seq \in SeqNo
            /\ newViews' = newViews \cup {nv}
            /\ EnterView(r, nv)
        BY <1>1 DEF TryIssueNewView
    <2>2. IsFiniteSet(pending[r]) /\ pending[r] \subseteq Request /\ nextSeq[r] \in Nat
        BY RequestAssumption DEF TypeInv, TypeOK, LocalInv
    <2>3. nv \in [view : View, prePrepares : Seq(PrePrepare)]
        BY <2>1, <2>2, NewViewTypes
    <2>4. NewViewsTyped'
        BY <2>1, <2>3 DEF TypeInv, NewViewsTyped
    <2>5. QED
        BY <2>1, <2>3, <2>4, EnterTypes DEF TypeInv
<1>2. CASE ~IssuesNewView(r, v, recorded)
    <2>1. timer' = fired /\ UNCHANGED <<newViews, view, pending, nextSeq, install>>
        BY <1>2 DEF TryIssueNewView
    <2>2. QED
        BY <2>1 DEF TypeInv, TypeOK, LocalInv, NewViewsTyped
<1>3. QED
    BY <1>1, <1>2

LEMMA TypeTrigger ==
    ASSUME TypeInv, NEW r \in Replica, view[r] + 1 \in View,
           NEW recorded, recorded \subseteq viewChanges,
           NEW fired \in [Replica -> {"nil", "armed", "fired"}],
           \A q \in Replica : fired[q] = "armed" => timer[q] = "armed",
           TriggerViewChange(r, recorded, fired), UNCHANGED slotVars, UNCHANGED execVars
    PROVE  TypeInv'
<1> DEFINE own == BuildViewChange(r)
<1>1. /\ own \in ViewChangeMessage /\ own.newView \in View
      /\ IsFiniteSet(own.pending)
      /\ \A d, e \in own.prepared : d.seq = e.seq => d = e
    BY OwnIs
<1> HIDE DEF own
<1>2. Recordable(recorded) /\ Recordable(recorded \cup {own})
    BY <1>1, FS_Subset, FS_AddElement DEF Recordable, TypeInv, ViewChangesTyped
<1>3. /\ view' \in [Replica -> View]
      /\ nextSeq' \in [Replica -> 1 .. MaxSeq + 1]
      /\ pending' \in [Replica -> SUBSET Request]
      /\ timer' \in [Replica -> {"nil", "armed", "fired"}]
      /\ install' \in [Replica -> [View -> Seq(PrePrepare)]]
      /\ \A q \in Replica : IsFiniteSet(pending'[q])
      /\ \A q \in Replica : timer'[q] = "armed" => view'[q] < MaxView
      /\ NewViewsTyped'
    <2>1. CASE Sent(r, own.newView)
        <3>1. timer' = fired /\ UNCHANGED <<newViews, view, pending, nextSeq, install>>
            BY <2>1 DEF TriggerViewChange, own
        <3>2. QED
            BY <3>1 DEF TypeInv, TypeOK, LocalInv, NewViewsTyped
    <2>2. CASE ~Sent(r, own.newView)
        <3>1. TryIssueNewView(r, own.newView, recorded \cup {own}, fired)
            BY <2>2 DEF TriggerViewChange, own
        <3>2. QED
            BY <1>1, <1>2, <3>1, TypeTryIssue
    <2>3. QED
        BY <2>1, <2>2
<1>4. /\ viewChanges' \in {viewChanges, viewChanges \cup {own}}
      /\ vcLog' \in [Replica -> SUBSET viewChanges']
    <2>1. \/ viewChanges' = viewChanges /\ vcLog' = [vcLog EXCEPT ![r] = recorded]
          \/ /\ viewChanges' = viewChanges \cup {own}
             /\ vcLog' = [vcLog EXCEPT ![r] = recorded \cup {own}]
        BY DEF TriggerViewChange, own
    <2>2. vcLog \in [Replica -> SUBSET viewChanges]
        BY DEF TypeInv, TypeOK
    <2>3. QED
        BY <2>1, <2>2
<1>5. ViewChangesTyped'
    BY <1>1, <1>4, FS_AddElement DEF TypeInv, ViewChangesTyped
<1>6. TypeOK'
    BY <1>3, <1>4 DEF TypeInv, TypeOK, slotVars, execVars
<1>7. LocalInv'
    BY <1>3 DEF TypeInv, LocalInv, slotVars
<1>8. QED
    BY <1>3, <1>5, <1>6, <1>7 DEF TypeInv

LEMMA TypeTimeout ==
    ASSUME TypeInv, NEW r \in Replica, Timeout(r)
    PROVE  TypeInv'
<1> DEFINE fired == [timer EXCEPT ![r] = "fired"]
<1>1. /\ timer[r] = "armed" /\ TriggerViewChange(r, vcLog[r], fired)
      /\ UNCHANGED slotVars /\ UNCHANGED execVars
    BY DEF Timeout
<1>2. view[r] + 1 \in View
    <2>1. view[r] \in View /\ view[r] < MaxView
        BY <1>1 DEF TypeInv, TypeOK, LocalInv
    <2>2. QED
        BY <2>1, ViewAssumption DEF View
<1>3. fired \in [Replica -> {"nil", "armed", "fired"}]
    BY DEF TypeInv, TypeOK
<1>4. \A q \in Replica : fired[q] = "armed" => timer[q] = "armed"
    BY <1>3 DEF TypeInv, TypeOK
<1>5. vcLog[r] \subseteq viewChanges
    BY DEF TypeInv, TypeOK
<1> HIDE DEF fired
<1>6. QED
    BY <1>1, <1>2, <1>3, <1>4, <1>5, TypeTrigger

LEMMA TypeOnViewChange ==
    ASSUME TypeInv, NEW r \in Replica, NEW m \in viewChanges, OnViewChange(r, m)
    PROVE  TypeInv'
<1> DEFINE recorded == vcLog[r] \cup {m}
<1>1. /\ m.newView > view[r]
      /\ UNCHANGED slotVars /\ UNCHANGED execVars
      /\ \/ TriggerViewChange(r, recorded, timer)
         \/ /\ vcLog' = [vcLog EXCEPT ![r] = recorded]
            /\ TryIssueNewView(r, m.newView, recorded, timer)
            /\ UNCHANGED viewChanges
    BY DEF OnViewChange
<1>2. m.newView \in View /\ view[r] + 1 \in View
    <2>1. m.newView \in View /\ view[r] \in View
        BY RecordedFields DEF TypeInv, TypeOK, ViewChangesTyped
    <2>2. QED
        BY <1>1, <2>1, ViewAssumption DEF View
<1>3. recorded \subseteq viewChanges
    BY DEF TypeInv, TypeOK
<1>4. timer \in [Replica -> {"nil", "armed", "fired"}]
    BY DEF TypeInv, TypeOK
<1> HIDE DEF recorded
<1>5. CASE TriggerViewChange(r, recorded, timer)
    BY <1>1, <1>2, <1>3, <1>4, <1>5, TypeTrigger
<1>6. CASE /\ vcLog' = [vcLog EXCEPT ![r] = recorded]
           /\ TryIssueNewView(r, m.newView, recorded, timer)
           /\ UNCHANGED viewChanges
    <2>1. Recordable(recorded)
        BY <1>3, FS_Subset DEF Recordable, TypeInv, ViewChangesTyped
    <2>2. /\ view' \in [Replica -> View]
          /\ nextSeq' \in [Replica -> 1 .. MaxSeq + 1]
          /\ pending' \in [Replica -> SUBSET Request]
          /\ timer' \in [Replica -> {"nil", "armed", "fired"}]
          /\ install' \in [Replica -> [View -> Seq(PrePrepare)]]
          /\ \A q \in Replica : IsFiniteSet(pending'[q])
          /\ \A q \in Replica : timer'[q] = "armed" => view'[q] < MaxView
          /\ NewViewsTyped'
        BY <1>2, <1>4, <1>6, <2>1, TypeTryIssue
    <2>3. vcLog' \in [Replica -> SUBSET viewChanges']
        BY <1>3, <1>6 DEF TypeInv, TypeOK
    <2>4. TypeOK'
        BY <1>1, <2>2, <2>3 DEF TypeInv, TypeOK, slotVars, execVars
    <2>5. LocalInv'
        BY <1>1, <2>2 DEF TypeInv, LocalInv, slotVars
    <2>6. QED
        BY <1>6, <2>2, <2>4, <2>5 DEF TypeInv, ViewChangesTyped
<1>7. QED
    BY <1>1, <1>5, <1>6

LEMMA TypeOnNewView ==
    ASSUME TypeInv, NEW r \in Replica, NEW nv \in newViews, OnNewView(r, nv)
    PROVE  TypeInv'
<1>1. /\ EnterView(r, nv)
      /\ UNCHANGED slotVars /\ UNCHANGED execVars
      /\ UNCHANGED <<vcLog, viewChanges, newViews>>
    BY DEF OnNewView
<1>2. nv \in [view : View, prePrepares : Seq(PrePrepare)]
    BY DEF TypeInv, NewViewsTyped
<1>3. /\ view' \in [Replica -> View]
      /\ nextSeq' \in [Replica -> 1 .. MaxSeq + 1]
      /\ pending' \in [Replica -> SUBSET Request]
      /\ timer' \in [Replica -> {"nil", "armed", "fired"}]
      /\ install' \in [Replica -> [View -> Seq(PrePrepare)]]
      /\ \A q \in Replica : IsFiniteSet(pending'[q])
      /\ \A q \in Replica : timer'[q] = "armed" => view'[q] < MaxView
    BY <1>1, <1>2, EnterTypes DEF TypeInv
<1>4. TypeOK'
    BY <1>1, <1>3 DEF TypeInv, TypeOK, slotVars, execVars
<1>5. LocalInv'
    BY <1>1, <1>3 DEF TypeInv, LocalInv, slotVars
<1>6. QED
    BY <1>1, <1>4, <1>5 DEF TypeInv, ViewChangesTyped, NewViewsTyped

LEMMA HeadAndTail ==
    ASSUME NEW S, NEW s \in Seq(S), s # <<>>
    PROVE  Head(s) \in S /\ Tail(s) \in Seq(S)
OBVIOUS

LEMMA TypeAcceptNewViewPrePrepare ==
    ASSUME TypeInv, NEW r \in Replica, NEW v \in View, AcceptNewViewPrePrepare(r, v)
    PROVE  TypeInv'
<1> DEFINE p == Head(install[r][v])
<1>1. /\ install[r][v] # <<>>
      /\ install' = [install EXCEPT ![r][v] = Tail(@)]
      /\ \/ UNCHANGED slotVars /\ UNCHANGED timer
         \/ /\ log' = [log EXCEPT ![r][p.seq].req = p.req]
            /\ timer' = [timer EXCEPT ![r] = "nil"]
            /\ \/ /\ lock' = [lock EXCEPT ![r] = SetLocks(r, p.req, p.seq)]
                  /\ net' \subseteq net \cup {Vote("PREPARE", r, v, p.seq, p.req)}
                  /\ UNCHANGED waiting
               \/ UNCHANGED <<lock, waiting, net>>
               \/ ProcessPrePrepare(r, v, p.seq, p.req, v, net)
      /\ UNCHANGED <<view, nextSeq, pending, vcLog, viewChanges, newViews>> /\ UNCHANGED execVars
    BY DEF AcceptNewViewPrePrepare
<1>2. TypeOK /\ install[r][v] \in Seq(PrePrepare) /\ net \subseteq Message
    BY DEF TypeInv, TypeOK
<1>3. p \in PrePrepare /\ Tail(install[r][v]) \in Seq(PrePrepare)
    BY <1>1, <1>2, HeadAndTail
<1>4. p.seq \in SeqNo /\ p.req \in Request
    BY <1>3 DEF PrePrepare
<1> HIDE DEF p
<1>5. install' \in [Replica -> [View -> Seq(PrePrepare)]]
    BY <1>1, <1>2, <1>3 DEF TypeOK
<1>6. /\ lock' \in [Replica -> [Item -> SeqNo \cup {0}]]
      /\ waiting' \in [Replica -> SUBSET Task]
      /\ net' \subseteq Message
    <2>1. Vote("PREPARE", r, v, p.seq, p.req) \in Message
        BY <1>2, <1>4, SentMessages
    <2>2. /\ lock \in [Replica -> [Item -> SeqNo \cup {0}]]
          /\ waiting \in [Replica -> SUBSET Task]
        BY <1>2 DEF TypeOK, Task
    <2>3. CASE UNCHANGED slotVars
        BY <1>2, <2>2, <2>3 DEF slotVars
    <2>4. CASE /\ lock' = [lock EXCEPT ![r] = SetLocks(r, p.req, p.seq)]
               /\ net' \subseteq net \cup {Vote("PREPARE", r, v, p.seq, p.req)}
               /\ UNCHANGED waiting
        <3>1. lock' \in [Replica -> [Item -> SeqNo \cup {0}]]
            BY <1>2, <1>4, <2>4, LockTypes
        <3>2. QED
            BY <1>2, <2>1, <2>2, <2>4, <3>1
    <2>5. CASE UNCHANGED <<lock, waiting, net>>
        BY <1>2, <2>2, <2>5
    <2>6. CASE ProcessPrePrepare(r, v, p.seq, p.req, v, net)
        BY <1>2, <1>4, <2>6, ProcessTypes
    <2>7. QED
        BY <1>1, <2>3, <2>4, <2>5, <2>6
<1>7. /\ log' \in [Replica -> [SeqNo -> Slot]]
      /\ \A q \in Replica : \A i \in SeqNo :
           log'[q][i].prepareCert \/ log'[q][i].commitCert => log'[q][i].req # NoRequest
    <2>1. CASE log' = log
        BY <1>2, <2>1 DEF TypeInv, TypeOK, LocalInv
    <2>2. CASE log' = [log EXCEPT ![r][p.seq].req = p.req]
        BY <1>4, <2>2, TypeSetRequest
    <2>3. QED
        BY <1>1, <2>1, <2>2 DEF slotVars
<1>8. /\ timer' \in [Replica -> {"nil", "armed", "fired"}]
      /\ \A q \in Replica : timer'[q] = "armed" => timer[q] = "armed"
    BY <1>1, <1>2 DEF TypeOK
<1>9. TypeOK'
    BY <1>1, <1>2, <1>5, <1>6, <1>7, <1>8 DEF TypeOK, Task, execVars
<1>10. LocalInv'
    BY <1>1, <1>7, <1>8 DEF TypeInv, LocalInv
<1>11. QED
    BY <1>1, <1>9, <1>10 DEF TypeInv, ViewChangesTyped, NewViewsTyped

LEMMA TypeStep == TypeInv /\ [Next]_vars => TypeInv'
<1> SUFFICES ASSUME TypeInv, [Next]_vars PROVE TypeInv'
    OBVIOUS
<1>1. ASSUME NEW m \in net, Handle(m) PROVE TypeInv'
    BY <1>1, TypeOnPrePrepare, TypeOnPrepareCert, TypeOnCommitCert, TypeDrop DEF Handle
<1>2. CASE UNCHANGED vars
    BY <1>2 DEF vars, slotVars, execVars, viewVars, TypeInv, TypeOK, ViewChangesTyped,
                NewViewsTyped, LocalInv
<1>3. CASE Next
    BY <1>1, <1>3, TypeStartConsensus, TypeOnBackupClientRequest, TypeOnPrepare, TypeOnCommit,
       TypeLockAndPrepare, TypeTimeout, TypeOnViewChange, TypeOnNewView,
       TypeAcceptNewViewPrePrepare DEF Next
<1>4. QED
    BY <1>2, <1>3

LEMMA TypeInvariant == Spec => []TypeInv
<1>1. QED
    BY TypeInit, TypeStep, PTL DEF Spec

\* Every variable of the engine across views keeps its type, for any number of
\* views; a NEW-VIEW, in whatever order buildNewViewLocked walks its maps, is a
\* sequence of pre-prepares for numbers in range.
THEOREM TypeCorrect == Spec => []TypeOK
<1>1. TypeInv => TypeOK
    BY DEF TypeInv
<1>2. QED
    BY <1>1, TypeInvariant, PTL

-----------------------------------------------------------------------------
(***************************************************************************)
(* Agreement over one change of view, in a cluster of 3F + 1.               *)
(***************************************************************************)
OneChange == Cardinality(Replica) = 3 * F + 1 /\ MaxView = 1

OldLeader == LeaderOf[0]
NewLeader == LeaderOf[1]

(***************************************************************************)
(* Request a is known in slot g of view 0: to a replica that is still in    *)
(* that view, by a message, to a waiting task, or by a VIEW-CHANGE.         *)
(***************************************************************************)
Early(g, a) ==
    \/ \E r \in Replica : view[r] = 0 /\ log[r][g].req = a
    \/ \E m \in net : m.view = 0 /\ m.seq = g /\ m.req = a
    \/ \E r \in Replica : \E t \in waiting[r] : t.view = 0 /\ t.seq = g /\ t.req = a
    \/ \E m \in viewChanges : \E d \in m.prepared : d.seq = g /\ d.req = a

\* The NEW-VIEW has request a in slot g.
Renewed(g, a) == \E nv \in newViews : \E p \in ToSet(nv.prePrepares) : p.seq = g /\ p.req = a

\* Request a is proposed for slot g in view 1.
Again(g, a) ==
    \/ \E m \in net : m.view = 1 /\ m.seq = g /\ m.req = a
    \/ \E r \in Replica : \E t \in waiting[r] : t.view = 1 /\ t.seq = g /\ t.req = a
    \/ Renewed(g, a)

\* There is one NEW-VIEW, its builder is the first in view 1, and nobody votes
\* or waits for a view that he is not in.
ViewsInv ==
    /\ \A nv \in newViews : nv.view = 1
    /\ \A nv, mv \in newViews : nv = mv
    /\ newViews # {} => view[NewLeader] = 1
    /\ \A r \in Replica : view[r] = 1 => newViews # {}
    /\ \A m \in net : m.view = 1 => newViews # {}
    /\ \A m \in net : m.type = "PREPARE" => m.view <= view[m.from]
    /\ \A r \in Replica : \A t \in waiting[r] : t.view <= view[r]
    /\ \A r \in Replica : \A v \in View : install[r][v] # <<>> => v = 1 /\ view[r] = 1
    /\ \A r \in Replica : \A p \in ToSet(install[r][1]) : Renewed(p.seq, p.req)

\* In each view a slot has one proposal, and the leader of the view numbers the
\* next ones above them.
ProposalsInv ==
    /\ \A g \in SeqNo : \A a, b \in Request : Early(g, a) /\ Early(g, b) => a = b
    /\ \A g \in SeqNo : \A a, b \in Request : Again(g, a) /\ Again(g, b) => a = b
    /\ view[OldLeader] = 0 =>
        /\ \A g \in SeqNo : \A a \in Request : Early(g, a) => g < nextSeq[OldLeader]
        /\ \A g \in SeqNo : g < nextSeq[OldLeader] => log[OldLeader][g].req # NoRequest
    /\ \A g \in SeqNo : \A a \in Request : Again(g, a) => g < nextSeq[NewLeader]

\* The log of a replica in view 0 has no gap, the cursor is behind the executed
\* slots, the slot at the cursor is not committed, and who waits has logged.
LogsInv ==
    /\ \A r \in Replica : \A s, g \in SeqNo :
        view[r] = 0 /\ log[r][s].req # NoRequest /\ g < s => log[r][g].req # NoRequest
    /\ \A r \in Replica : \A s \in SeqNo :
        /\ log[r][s].executed => s < execSeq[r]
        /\ s < execSeq[r] => log[r][s].executed
        /\ log[r][s].executed => log[r][s].req # NoRequest
        /\ s = execSeq[r] => ~log[r][s].commitCert
    /\ \A r \in Replica : \A t \in waiting[r] : log[r][t.seq].req # NoRequest

Covers(m, g) == g <= m.stable \/ \E d \in m.prepared : d.seq = g

\* A replica sends one VIEW-CHANGE, from view 0, and what it covers has no gap.
ViewChangesInv ==
    /\ \A m, n \in viewChanges : m.from = n.from => m = n
    /\ \A m \in viewChanges :
        /\ m.newView = 1
        /\ \A d \in m.prepared : d.view = 0
        /\ \A s, g \in SeqNo : Covers(m, s) /\ g < s => Covers(m, g)

InViewChanges(g, a) == \E m \in viewChanges : \E d \in m.prepared : d.seq = g /\ d.req = a

\* A quorum has sent VIEW-CHANGEs, and a slot that one of theirs covers has in
\* the NEW-VIEW only a request that a VIEW-CHANGE has there.
RenewalInv ==
    \A nv \in newViews : \E Q \in SUBSET Replica :
        /\ Cardinality(Q) >= Quorum
        /\ \A q \in Q : \E m \in viewChanges :
            /\ m.from = q
            /\ \A p \in ToSet(nv.prePrepares) : Covers(m, p.seq) => InViewChanges(p.seq, p.req)

Voted(p, v, s, a) ==
    \E m \in net : /\ m.type = "PREPARE" /\ m.from = p /\ m.to = LeaderOf[v]
                   /\ m.view = v /\ m.seq = s /\ m.req = a

\* A backup of view 1 that has voted in view 0 for slot g or a later one.
Kept(p, g) == p # NewLeader /\ \E s \in SeqNo : \E a \in Request : g <= s /\ Voted(p, 0, s, a)

VotesAgain(p, g, b) ==
    \/ \E m \in net : m.type = "PREPARE" /\ m.from = p /\ m.view = 1 /\ m.seq = g /\ m.req = b
    \/ \E t \in waiting[p] : t.view = 1 /\ t.seq = g /\ t.req = b

\* Who votes for a slot in view 0 has requests in all slots up to it, and will
\* vote there in view 1 only for something else that the NEW-VIEW brings.
KeptInv ==
    /\ \A p \in Replica : \A s, g \in SeqNo : \A a \in Request :
        Voted(p, 0, s, a) /\ g <= s => log[p][g].req # NoRequest
    /\ \A p \in Replica : \A g \in SeqNo : Kept(p, g) =>
        /\ \A a \in Request : Early(g, a) =>
            log[p][g].req = a \/ \E b \in Request : b # a /\ Renewed(g, b)
        /\ \A b \in Request : VotesAgain(p, g, b) => Renewed(g, b) /\ ~Early(g, b)

\* A quorum has voted for a in slot s of view v.
Prepared(v, s, a) ==
    /\ \E Q \in SUBSET Replica : Cardinality(Q) >= Quorum /\ \A p \in Q : Voted(p, v, s, a)
    /\ v = 1 => log[NewLeader][s].req = a

CertTypes == {"PREPARE_CERT", "COMMIT", "COMMIT_CERT"}

CertsInv == \A m \in net : m.type \in CertTypes => Prepared(m.view, m.seq, m.req)

\* Somebody voted in view 0 for slot s, which his VIEW-CHANGE does not cover.
LateAt(s) == \E p \in Replica : \E a \in Request :
    Voted(p, 0, s, a) /\ \E m \in viewChanges : m.from = p /\ ~Covers(m, s)

Sound(s, a) == Prepared(0, s, a) \/ Prepared(1, s, a) \/ LateAt(s)

\* The new leader may propose another request in a slot that it holds as
\* committed, when a slot before it keeps it from execution for good.
Blocked(r, s) ==
    r = NewLeader /\ view[r] = 1 /\ execSeq[r] < s /\ \E a \in Request : Prepared(0, s, a)

\* What is executed was prepared for that request.
ExecutionInv ==
    /\ \A r \in Replica : \A e \in ToSet(datastore[r]) : Sound(e.seq, e.req)
    /\ \A r \in Replica : \A s \in SeqNo : log[r][s].commitCert /\ ~log[r][s].executed =>
        Sound(s, log[r][s].req) \/ Blocked(r, s)

AgreeInv ==
    /\ TypeInv
    /\ ViewsInv
    /\ ProposalsInv
    /\ LogsInv
    /\ ViewChangesInv
    /\ RenewalInv
    /\ KeptInv
    /\ CertsInv
    /\ ExecutionInv

-----------------------------------------------------------------------------
(***************************************************************************)
(* Quorums and what they imply.                                            *)
(***************************************************************************)
LEMMA TwoViews ==
    ASSUME OneChange
    PROVE  /\ View = {0, 1} /\ MaxView = 1
           /\ OldLeader \in Replica /\ NewLeader \in Replica /\ OldLeader # NewLeader
           /\ \A v \in View : LeaderOf[v] \in Replica
           /\ \A v \in View : (LeaderOf[v] = OldLeader <=> v = 0) /\ (LeaderOf[v] = NewLeader <=> v = 1)
           /\ F \in Nat /\ F >= 1 /\ Quorum = 2 * F + 1
           /\ IsFiniteSet(Replica) /\ Cardinality(Replica) = 3 * F + 1
<1>1. MaxView = 1 /\ Cardinality(Replica) = 3 * F + 1
    BY DEF OneChange
<1>2. View = {0, 1}
    BY <1>1 DEF View
<1>3. LeaderOf \in [View -> Replica] /\ \A v, w \in View : LeaderOf[v] = LeaderOf[w] => v = w
    BY ViewAssumption
<1>4. QED
    BY <1>1, <1>2, <1>3, FaultAssumption DEF OldLeader, NewLeader, Quorum

LEMMA QuorumsMeet ==
    ASSUME OneChange, NEW P \in SUBSET Replica, NEW Q \in SUBSET Replica,
           Cardinality(P) >= Quorum, Cardinality(Q) >= Quorum
    PROVE  \E p \in P \cap Q : p # NewLeader
<1>1. /\ F \in Nat /\ F >= 1 /\ Quorum = 2 * F + 1
      /\ IsFiniteSet(Replica) /\ Cardinality(Replica) = 3 * F + 1
    BY TwoViews
<1>2. IsFiniteSet(P) /\ IsFiniteSet(Q)
    BY <1>1, FS_Subset
<1>3. /\ IsFiniteSet(P \cup Q)
      /\ Cardinality(P \cup Q) = Cardinality(P) + Cardinality(Q) - Cardinality(P \cap Q)
    BY <1>2, FS_Union
<1>4. Cardinality(P \cup Q) <= 3 * F + 1
    BY <1>1, FS_Subset
<1>5. /\ Cardinality(P) \in Nat /\ Cardinality(Q) \in Nat /\ Cardinality(P \cup Q) \in Nat
      /\ IsFiniteSet(P \cap Q) /\ Cardinality(P \cap Q) \in Nat
    BY <1>2, <1>3, FS_CardinalityType, FS_Subset
<1>6. Cardinality(P \cap Q) >= 2
    BY <1>1, <1>3, <1>4, <1>5
<1>7. SUFFICES ASSUME P \cap Q \subseteq {NewLeader} PROVE FALSE
    OBVIOUS
<1>8. IsFiniteSet({NewLeader}) /\ Cardinality({NewLeader}) = 1
    BY FS_Singleton
<1>9. Cardinality(P \cap Q) <= 1
    BY <1>7, <1>8, FS_Subset
<1>10. QED
    BY <1>5, <1>6, <1>9

LEMMA VoteFields ==
    ASSUME TypeInv, NEW p, NEW v, NEW s, NEW a, Voted(p, v, s, a)
    PROVE  /\ p \in Replica /\ v \in View /\ s \in SeqNo /\ a \in Request
           /\ v = 0 => Early(s, a)
           /\ v = 1 => Again(s, a) /\ VotesAgain(p, s, a)
<1>1. PICK m \in net : /\ m.type = "PREPARE" /\ m.from = p /\ m.to = LeaderOf[v]
                       /\ m.view = v /\ m.seq = s /\ m.req = a
    BY DEF Voted
<1>2. m \in Message
    BY DEF TypeInv, TypeOK
<1>3. p \in Replica /\ v \in View /\ s \in SeqNo /\ a \in Request
    BY <1>1, <1>2, MessageFields
<1>4. QED
    BY <1>1, <1>3 DEF Early, Again, VotesAgain

\* Two quorums have a voter in common who does not lead view 1.
LEMMA CommonVoter ==
    ASSUME OneChange, NEW v, NEW s, NEW a, Prepared(v, s, a),
           NEW w, NEW g, NEW b, Prepared(w, g, b)
    PROVE  \E p \in Replica : p # NewLeader /\ Voted(p, v, s, a) /\ Voted(p, w, g, b)
<1>1. PICK P \in SUBSET Replica : Cardinality(P) >= Quorum /\ \A p \in P : Voted(p, v, s, a)
    BY DEF Prepared
<1>2. PICK Q \in SUBSET Replica : Cardinality(Q) >= Quorum /\ \A p \in Q : Voted(p, w, g, b)
    BY DEF Prepared
<1>3. PICK p \in P \cap Q : p # NewLeader
    BY <1>1, <1>2, QuorumsMeet
<1>4. QED
    BY <1>1, <1>2, <1>3

LEMMA PreparedFields ==
    ASSUME OneChange, TypeInv, NEW v, NEW s, NEW a, Prepared(v, s, a)
    PROVE  /\ v \in View /\ s \in SeqNo /\ a \in Request
           /\ v = 0 => Early(s, a)
           /\ v = 1 => Again(s, a)
<1>1. PICK p \in Replica : Voted(p, v, s, a)
    BY CommonVoter
<1>2. QED
    BY <1>1, VoteFields

LEMMA PreparedOnce ==
    ASSUME OneChange, TypeInv, ProposalsInv, NEW v, NEW s, NEW a, NEW b,
           Prepared(v, s, a), Prepared(v, s, b)
    PROVE  a = b
BY PreparedFields, TwoViews DEF ProposalsInv

\* What the NEW-VIEW has at or below a slot that was prepared in view 0 was in
\* a VIEW-CHANGE, or somebody voted late.
LEMMA RenewedOrLate ==
    ASSUME OneChange, TypeInv, ViewChangesInv, RenewalInv, NEW s, NEW a, Prepared(0, s, a),
           NEW g \in SeqNo, NEW b, Renewed(g, b), g <= s
    PROVE  Early(g, b) \/ LateAt(s)
<1>1. PICK P \in SUBSET Replica : Cardinality(P) >= Quorum /\ \A p \in P : Voted(p, 0, s, a)
    BY DEF Prepared
<1>2. s \in SeqNo /\ a \in Request
    BY PreparedFields
<1>3. PICK nv \in newViews : \E p \in ToSet(nv.prePrepares) : p.seq = g /\ p.req = b
    BY DEF Renewed
<1>4. PICK Q \in SUBSET Replica :
        /\ Cardinality(Q) >= Quorum
        /\ \A q \in Q : \E m \in viewChanges :
            /\ m.from = q
            /\ \A p \in ToSet(nv.prePrepares) : Covers(m, p.seq) => InViewChanges(p.seq, p.req)
    BY DEF RenewalInv
<1>5. PICK q \in P \cap Q : q # NewLeader
    BY <1>1, <1>4, QuorumsMeet
<1>6. PICK m \in viewChanges :
        /\ m.from = q
        /\ \A p \in ToSet(nv.prePrepares) : Covers(m, p.seq) => InViewChanges(p.seq, p.req)
    BY <1>4, <1>5
<1>7. CASE Covers(m, s)
    <2>1. Covers(m, g)
        <3>1. CASE g = s
            BY <1>7, <3>1
        <3>2. CASE g < s
            BY <1>2, <1>7, <3>2 DEF ViewChangesInv
        <3>3. QED
            BY <1>2, <3>1, <3>2 DEF SeqNo
    <2>2. InViewChanges(g, b)
        BY <1>3, <1>6, <2>1
    <2>3. QED
        BY <2>2 DEF InViewChanges, Early
<1>8. CASE ~Covers(m, s)
    BY <1>1, <1>2, <1>5, <1>6, <1>8 DEF LateAt
<1>9. QED
    BY <1>7, <1>8

\* No slot is prepared in view 1 at or below one that was prepared in view 0,
\* unless somebody voted late.
LEMMA NotTwice ==
    ASSUME OneChange, TypeInv, ViewChangesInv, RenewalInv, KeptInv,
           NEW s, NEW a, Prepared(0, s, a), NEW g, NEW b, Prepared(1, g, b), g <= s
    PROVE  LateAt(s)
<1>1. PICK p \in Replica : p # NewLeader /\ Voted(p, 0, s, a) /\ Voted(p, 1, g, b)
    BY CommonVoter
<1>2. s \in SeqNo /\ a \in Request /\ g \in SeqNo /\ b \in Request /\ VotesAgain(p, g, b)
    BY <1>1, VoteFields
<1>3. Kept(p, g)
    BY <1>1, <1>2 DEF Kept
<1>4. Renewed(g, b) /\ ~Early(g, b)
    BY <1>2, <1>3 DEF KeptInv
<1>5. QED
    BY <1>2, <1>4, RenewedOrLate

\* Requests that were soundly executed in a slot are the same request, unless
\* somebody voted late there.
LEMMA SoundAgree ==
    ASSUME OneChange, AgreeInv, NEW s, NEW a, NEW b, Sound(s, a), Sound(s, b)
    PROVE  a = b \/ LateAt(s)
<1>1. SUFFICES ASSUME ~LateAt(s) PROVE a = b
    OBVIOUS
<1>2. PICK v \in {0, 1}, w \in {0, 1} : Prepared(v, s, a) /\ Prepared(w, s, b)
    BY <1>1 DEF Sound
<1>3. CASE v = w
    BY <1>2, <1>3, PreparedOnce DEF AgreeInv
<1>4. CASE v # w
    <2>1. s \in SeqNo
        BY <1>2, PreparedFields DEF AgreeInv
    <2>2. s <= s
        BY <2>1 DEF SeqNo
    <2>3. (v = 0 /\ w = 1) \/ (v = 1 /\ w = 0)
        BY <1>4
    <2>4. QED
        BY <1>1, <1>2, <2>2, <2>3, NotTwice DEF AgreeInv
<1>5. QED
    BY <1>3, <1>4

-----------------------------------------------------------------------------
(***************************************************************************)
(* Steps that stay in their views.  Replica r handles request a for slot s *)
(* of view v: it may log it, wait with it, vote for it, or say that it is   *)
(* certified.                                                              *)
(***************************************************************************)
\* What lets r log the request where its log does not have it.
MayLog(r, v, s, a) ==
    /\ v = view[r]
    /\ log[r][s].req = NoRequest \/ (v = 1 /\ (Renewed(s, a) \/ r = NewLeader))
    /\ v = 0 => \A g \in SeqNo : g < s => log[r][g].req # NoRequest

\* What lets r vote in view 1, or wait to do so.
MayVoteAgain(r, s, a) ==
    \/ VotesAgain(r, s, a)
    \/ log[r][s].req = NoRequest
    \/ Renewed(s, a) /\ log[r][s].req # a
    \/ r = NewLeader

Counted(n) ==
    /\ n.type = "PREPARE"
    /\ \/ n.view = 0 /\ n.to = OldLeader
       \/ n.view = 1 /\ n.to = NewLeader /\ log[NewLeader][n.seq].req = n.req

Handles(r, v, s, a) ==
    /\ r \in Replica /\ v \in View /\ s \in SeqNo /\ a \in Request
    /\ v <= view[r]
    /\ view' = view /\ viewChanges' = viewChanges /\ newViews' = newViews
    /\ \A n \in net' : n \in net \/
        /\ n.view = v /\ n.seq = s /\ n.req = a
        /\ n.type = "PREPARE" =>
            /\ n.from = r /\ n.to = LeaderOf[view[r]]
            /\ log'[r][s].req # NoRequest
            /\ v = 1 => MayVoteAgain(r, s, a)
        /\ n.type \in CertTypes => Prepared(v, s, a)
    /\ \A n \in net : Counted(n) => n \in net'
    /\ \A q \in Replica : \A t \in waiting'[q] : t \in waiting[q] \/
        /\ q = r /\ t.view = v /\ t.seq = s /\ t.req = a
        /\ log'[r][s].req # NoRequest
        /\ v = 1 => MayVoteAgain(r, s, a)
    /\ \A q \in Replica : \A g \in SeqNo : log'[q][g].req = log[q][g].req \/
        /\ q = r /\ g = s /\ log'[r][s].req = a /\ MayLog(r, v, s, a)

\* The request is proposed for that slot already.
Known(v, s, a) == (v = 0 => Early(s, a)) /\ (v = 1 => Again(s, a))

\* The leader of the view proposes it.
Proposes(r, v, s, a) ==
    /\ v = view[r] /\ r = LeaderOf[v]
    /\ log'[r][s].req = a
    /\ s = nextSeq[r] /\ nextSeq' = [nextSeq EXCEPT ![r] = s + 1]

Follows(v, s, a) == Known(v, s, a) /\ nextSeq' = nextSeq

InstallShrinks ==
    \A q \in Replica : \A w \in View :
        /\ install'[q][w] # <<>> => install[q][w] # <<>>
        /\ ToSet(install'[q][w]) \subseteq ToSet(install[q][w])

LEMMA RenewedStays == ASSUME newViews' = newViews, NEW g, NEW a
                      PROVE  Renewed(g, a)' <=> Renewed(g, a)
BY DEF Renewed

\* Only a proposal makes a request known.
LEMMA EarlyFrom ==
    ASSUME NEW r, NEW v, NEW s, NEW a, Handles(r, v, s, a), NEW g \in SeqNo, NEW b, Early(g, b)'
    PROVE  Early(g, b) \/ (v = 0 /\ g = s /\ b = a)
<1>1. CASE \E q \in Replica : view'[q] = 0 /\ log'[q][g].req = b
    <2>1. PICK q \in Replica : view'[q] = 0 /\ log'[q][g].req = b
        BY <1>1
    <2>2. view[q] = 0
        BY <2>1 DEF Handles
    <2>3. CASE log'[q][g].req = log[q][g].req
        BY <2>1, <2>2, <2>3 DEF Early
    <2>4. CASE q = r /\ g = s /\ log'[r][s].req = a /\ MayLog(r, v, s, a)
        BY <2>1, <2>2, <2>4 DEF MayLog
    <2>5. QED
        BY <2>3, <2>4 DEF Handles
<1>2. CASE \E m \in net' : m.view = 0 /\ m.seq = g /\ m.req = b
    BY <1>2 DEF Handles, Early
<1>3. CASE \E q \in Replica : \E t \in waiting'[q] : t.view = 0 /\ t.seq = g /\ t.req = b
    BY <1>3 DEF Handles, Early
<1>4. CASE \E m \in viewChanges' : \E d \in m.prepared : d.seq = g /\ d.req = b
    BY <1>4 DEF Handles, Early
<1>5. QED
    BY <1>1, <1>2, <1>3, <1>4 DEF Early

LEMMA AgainFrom ==
    ASSUME NEW r, NEW v, NEW s, NEW a, Handles(r, v, s, a), NEW g, NEW b, Again(g, b)'
    PROVE  Again(g, b) \/ (v = 1 /\ g = s /\ b = a)
<1>1. CASE \E m \in net' : m.view = 1 /\ m.seq = g /\ m.req = b
    BY <1>1 DEF Handles, Again
<1>2. CASE \E q \in Replica : \E t \in waiting'[q] : t.view = 1 /\ t.seq = g /\ t.req = b
    BY <1>2 DEF Handles, Again
<1>3. CASE Renewed(g, b)'
    BY <1>3 DEF Handles, Again, Renewed
<1>4. QED
    BY <1>1, <1>2, <1>3 DEF Again

LEMMA ViewsHandled ==
    ASSUME OneChange, TypeInv, TypeInv', ViewsInv,
           NEW r, NEW v, NEW s, NEW a, Handles(r, v, s, a), InstallShrinks
    PROVE  ViewsInv'
<1>1. /\ view' = view /\ newViews' = newViews /\ r \in Replica /\ v \in View
      /\ view[r] \in {0, 1} /\ View = {0, 1}
    BY TwoViews DEF Handles, TypeInv, TypeOK
<1>2. \A m \in net' : m.view = 1 => newViews' # {}
    BY <1>1 DEF Handles, ViewsInv
<1>3. \A m \in net' : m.type = "PREPARE" => m.view <= view'[m.from]
    BY <1>1 DEF Handles, ViewsInv
<1>4. \A q \in Replica : \A t \in waiting'[q] : t.view <= view'[q]
    BY <1>1 DEF Handles, ViewsInv
<1>5. \A q \in Replica : \A w \in View : install'[q][w] # <<>> => w = 1 /\ view'[q] = 1
    BY <1>1 DEF InstallShrinks, ViewsInv
<1>6. \A q \in Replica : \A p \in ToSet(install'[q][1]) : Renewed(p.seq, p.req)'
    BY <1>1, RenewedStays DEF InstallShrinks, ViewsInv
<1>7. QED
    BY <1>1, <1>2, <1>3, <1>4, <1>5, <1>6 DEF ViewsInv

LEMMA ProposalsFollowed ==
    ASSUME OneChange, TypeInv, ProposalsInv,
           NEW r, NEW v, NEW s, NEW a, Handles(r, v, s, a), Follows(v, s, a)
    PROVE  ProposalsInv'
<1>1. \A g \in SeqNo : \A b \in Request : Early(g, b)' => Early(g, b)
    BY EarlyFrom DEF Follows, Known
<1>2. \A g \in SeqNo : \A b \in Request : Again(g, b)' => Again(g, b)
    BY AgainFrom DEF Follows, Known
<1>3. \A g \in SeqNo : log[OldLeader][g].req # NoRequest => log'[OldLeader][g].req # NoRequest
    BY TwoViews, RequestFields DEF Handles
<1>4. nextSeq' = nextSeq /\ view' = view
    BY DEF Follows, Handles
<1> DEFINE E0(g, b) == Early(g, b)
<1>5. \A g \in SeqNo : \A b, c \in Request : Early(g, b)' /\ Early(g, c)' => b = c
    BY <1>1 DEF ProposalsInv
<1>6. \A g \in SeqNo : \A b, c \in Request : Again(g, b)' /\ Again(g, c)' => b = c
    BY <1>2 DEF ProposalsInv
<1>7. QED
    BY <1>1, <1>2, <1>3, <1>4, <1>5, <1>6 DEF ProposalsInv, OldLeader, NewLeader

LEMMA ProposalsMade ==
    ASSUME OneChange, TypeInv, ViewsInv, ProposalsInv,
           NEW r, NEW v, NEW s, NEW a, Handles(r, v, s, a), Proposes(r, v, s, a)
    PROVE  ProposalsInv'
<1>0. /\ r \in Replica /\ v \in {0, 1} /\ s \in SeqNo /\ s \in Int /\ a \in Request /\ a # NoRequest
      /\ view' = view /\ v = view[r] /\ r = LeaderOf[v]
      /\ log'[r][s].req = a
    BY TwoViews, RequestFields DEF Handles, Proposes, SeqNo
<1>1. /\ s = nextSeq[r] /\ nextSeq'[r] = s + 1
      /\ \A q \in Replica : q # r => nextSeq'[q] = nextSeq[q]
    BY <1>0 DEF Proposes, TypeInv, TypeOK
<1>2. \A q, w \in Replica : \A g \in SeqNo :
        log[q][g].req # NoRequest => log'[q][g].req # NoRequest
    BY <1>0 DEF Handles
<1>3. CASE v = 0
    <2>1. r = OldLeader /\ r # NewLeader /\ OldLeader \in Replica /\ NewLeader \in Replica
        BY <1>0, <1>3, TwoViews DEF OldLeader
    <2>2. \A g \in SeqNo : \A b \in Request : Early(g, b)' => Early(g, b) \/ (g = s /\ b = a)
        BY EarlyFrom
    <2>3. \A g \in SeqNo : \A b \in Request : Again(g, b)' => Again(g, b)
        BY <1>3, AgainFrom
    <2>4. \A g \in SeqNo : \A b \in Request : Early(g, b) => g < s
        BY <1>0, <1>1, <1>3, <2>1 DEF ProposalsInv
    <2>5. \A g \in SeqNo : \A b, c \in Request : Early(g, b)' /\ Early(g, c)' => b = c
        BY <1>0, <2>2, <2>4 DEF ProposalsInv
    <2>6. \A g \in SeqNo : \A b, c \in Request : Again(g, b)' /\ Again(g, c)' => b = c
        BY <2>3 DEF ProposalsInv
    <2>7. \A g \in SeqNo : \A b \in Request : Early(g, b)' => g < s + 1
        BY <1>0, <2>2, <2>4 DEF SeqNo
    <2>8. \A g \in SeqNo : g < s + 1 => log'[OldLeader][g].req # NoRequest
        <3>1. \A g \in SeqNo : g < s => log[OldLeader][g].req # NoRequest
            BY <1>0, <1>1, <1>3, <2>1 DEF ProposalsInv
        <3>2. \A g \in SeqNo : g < s + 1 => g < s \/ g = s
            BY <1>0 DEF SeqNo
        <3>3. QED
            BY <1>0, <1>2, <2>1, <3>1, <3>2
    <2>9. \A g \in SeqNo : \A b \in Request : Again(g, b)' => g < nextSeq'[NewLeader]
        BY <1>1, <2>1, <2>3 DEF ProposalsInv
    <2>10. QED
        BY <1>1, <2>1, <2>5, <2>6, <2>7, <2>8, <2>9 DEF ProposalsInv, OldLeader, NewLeader
<1>4. CASE v = 1
    <2>1. r = NewLeader /\ r # OldLeader /\ OldLeader \in Replica /\ NewLeader \in Replica
        BY <1>0, <1>4, TwoViews DEF NewLeader
    <2>2. \A g \in SeqNo : \A b \in Request : Early(g, b)' => Early(g, b)
        BY <1>4, EarlyFrom
    <2>3. \A g \in SeqNo : \A b \in Request : Again(g, b)' => Again(g, b) \/ (g = s /\ b = a)
        BY AgainFrom
    <2>4. \A g \in SeqNo : \A b \in Request : Again(g, b) => g < s
        BY <1>1, <2>1 DEF ProposalsInv
    <2>5. \A g \in SeqNo : \A b, c \in Request : Early(g, b)' /\ Early(g, c)' => b = c
        BY <2>2 DEF ProposalsInv
    <2>6. \A g \in SeqNo : \A b, c \in Request : Again(g, b)' /\ Again(g, c)' => b = c
        BY <1>0, <2>3, <2>4 DEF ProposalsInv
    <2>7. \A g \in SeqNo : \A b \in Request : Again(g, b)' => g < s + 1
        BY <1>0, <2>3, <2>4 DEF SeqNo
    <2>8. view'[OldLeader] = 0 =>
            /\ \A g \in SeqNo : \A b \in Request : Early(g, b)' => g < nextSeq'[OldLeader]
            /\ \A g \in SeqNo : g < nextSeq'[OldLeader] => log'[OldLeader][g].req # NoRequest
        BY <1>0, <1>1, <1>2, <2>1, <2>2 DEF ProposalsInv
    <2>9. QED
        BY <1>1, <2>1, <2>5, <2>6, <2>7, <2>8 DEF ProposalsInv, OldLeader, NewLeader
<1>5. QED
    BY <1>0, <1>3, <1>4

-----------------------------------------------------------------------------
\* Votes of view 0 stay, so do the quorums of view 1, and what follows from them.
LEMMA VotedStays ==
    ASSUME OneChange, NEW r, NEW v, NEW s, NEW a, Handles(r, v, s, a),
           NEW p, NEW g, NEW b, Voted(p, 0, g, b)
    PROVE  Voted(p, 0, g, b)'
<1>1. PICK n \in net : /\ n.type = "PREPARE" /\ n.from = p /\ n.to = LeaderOf[0]
                       /\ n.view = 0 /\ n.seq = g /\ n.req = b
    BY DEF Voted
<1>2. n \in net'
    BY <1>1 DEF Handles, Counted, OldLeader
<1>3. QED
    BY <1>1, <1>2 DEF Voted

LEMMA PreparedStays ==
    ASSUME OneChange, TypeInv, ProposalsInv, NEW r, NEW v, NEW s, NEW a, Handles(r, v, s, a),
           Follows(v, s, a) \/ Proposes(r, v, s, a),
           NEW w, NEW g, NEW b, Prepared(w, g, b)
    PROVE  Prepared(w, g, b)'
<1>1. w \in {0, 1} /\ g \in SeqNo /\ b \in Request /\ (w = 1 => Again(g, b)) /\ b # NoRequest
    BY PreparedFields, TwoViews, RequestFields
<1>2. PICK Q \in SUBSET Replica : Cardinality(Q) >= Quorum /\ \A p \in Q : Voted(p, w, g, b)
    BY DEF Prepared
<1>3. CASE w = 0
    BY <1>2, <1>3, VotedStays DEF Prepared
<1>4. CASE w = 1
    <2>1. log[NewLeader][g].req = b
        BY <1>4 DEF Prepared
    <2>2. \A p \in Q : Voted(p, 1, g, b)'
        <3>1. SUFFICES ASSUME NEW p \in Q PROVE Voted(p, 1, g, b)'
            OBVIOUS
        <3>2. PICK n \in net : /\ n.type = "PREPARE" /\ n.from = p /\ n.to = LeaderOf[1]
                               /\ n.view = 1 /\ n.seq = g /\ n.req = b
            BY <1>2, <1>4 DEF Voted
        <3>3. n \in net'
            BY <2>1, <3>2 DEF Handles, Counted, NewLeader
        <3>4. QED
            BY <3>2, <3>3 DEF Voted
    <2>3. log'[NewLeader][g].req = b
        <3>1. CASE log'[NewLeader][g].req = log[NewLeader][g].req
            BY <2>1, <3>1
        <3>2. CASE NewLeader = r /\ g = s /\ log'[r][s].req = a /\ MayLog(r, v, s, a)
            <4>1. v = 1
                BY <1>1, <2>1, <3>2 DEF MayLog
            <4>2. CASE Follows(v, s, a)
                <5>1. Again(s, a) /\ a \in Request
                    BY <4>1, <4>2 DEF Follows, Known, Handles
                <5>2. a = b
                    BY <1>1, <1>4, <3>2, <5>1 DEF ProposalsInv
                <5>3. QED
                    BY <3>2, <5>2
            <4>3. CASE Proposes(r, v, s, a)
                <5>1. s = nextSeq[NewLeader] /\ s < nextSeq[NewLeader] /\ s \in Int
                    BY <1>1, <1>4, <3>2, <4>3 DEF Proposes, ProposalsInv, SeqNo
                <5>2. QED
                    BY <5>1
            <4>4. QED
                BY <4>2, <4>3
        <3>3. QED
            BY <1>1, <3>1, <3>2, TwoViews DEF Handles
    <2>4. Quorum' = Quorum /\ NewLeader' = NewLeader
        BY DEF Quorum, NewLeader
    <2>5. QED
        BY <1>2, <1>4, <2>2, <2>3 DEF Prepared, Quorum, NewLeader
<1>5. QED
    BY <1>1, <1>3, <1>4

LEMMA LateStays ==
    ASSUME OneChange, NEW r, NEW v, NEW s, NEW a, Handles(r, v, s, a), NEW g, LateAt(g)
    PROVE  LateAt(g)'
<1>1. PICK p \in Replica, b \in Request :
        Voted(p, 0, g, b) /\ \E m \in viewChanges : m.from = p /\ ~Covers(m, g)
    BY DEF LateAt
<1>2. Voted(p, 0, g, b)'
    BY <1>1, VotedStays
<1>3. viewChanges' = viewChanges
    BY DEF Handles
<1>4. QED
    BY <1>1, <1>2, <1>3 DEF LateAt, Covers

LEMMA SoundStays ==
    ASSUME OneChange, TypeInv, ProposalsInv, NEW r, NEW v, NEW s, NEW a, Handles(r, v, s, a),
           Follows(v, s, a) \/ Proposes(r, v, s, a), NEW g, NEW b, Sound(g, b)
    PROVE  Sound(g, b)'
<1>1. CASE Prepared(0, g, b)
    BY <1>1, PreparedStays DEF Sound
<1>2. CASE Prepared(1, g, b)
    BY <1>2, PreparedStays DEF Sound
<1>3. CASE LateAt(g)
    BY <1>3, LateStays DEF Sound
<1>4. QED
    BY <1>1, <1>2, <1>3 DEF Sound

LEMMA ViewChangesStay ==
    ASSUME viewChanges' = viewChanges, newViews' = newViews, ViewChangesInv, RenewalInv
    PROVE  ViewChangesInv' /\ RenewalInv'
<1>1. ViewChangesInv'
    BY DEF ViewChangesInv, Covers
<1>2. RenewalInv'
    BY DEF RenewalInv, Covers, InViewChanges, Quorum
<1>3. QED
    BY <1>1, <1>2

LEMMA CertsHandled ==
    ASSUME OneChange, TypeInv, ProposalsInv, CertsInv,
           NEW r, NEW v, NEW s, NEW a, Handles(r, v, s, a), Follows(v, s, a) \/ Proposes(r, v, s, a)
    PROVE  CertsInv'
<1>1. SUFFICES ASSUME NEW m \in net', m.type \in CertTypes PROVE Prepared(m.view, m.seq, m.req)'
    BY DEF CertsInv, CertTypes
<1>2. Prepared(m.view, m.seq, m.req)
    BY <1>1 DEF Handles, CertsInv
<1>3. QED
    BY <1>2, PreparedStays

-----------------------------------------------------------------------------
\* Nothing is committed or executed.
Stays ==
    /\ \A q \in Replica : \A g \in SeqNo :
        log'[q][g].executed = log[q][g].executed /\ log'[q][g].commitCert = log[q][g].commitCert
    /\ execSeq' = execSeq /\ datastore' = datastore

\* Slot s of r is committed, and r executes from its cursor up to the next slot
\* that is not.
Runs(r, s, to) ==
    /\ to \in Int /\ execSeq[r] <= to
    /\ execSeq'[r] = to
    /\ \A q \in Replica : q # r => execSeq'[q] = execSeq[q]
    /\ \A q \in Replica : \A g \in SeqNo :
        /\ log'[q][g].req = log[q][g].req
        /\ q # r => /\ log'[q][g].executed = log[q][g].executed
                    /\ log'[q][g].commitCert = log[q][g].commitCert
    /\ \A g \in SeqNo :
        /\ log'[r][g].commitCert => log[r][g].commitCert \/ g = s
        /\ log[r][g].executed => log'[r][g].executed
        /\ log'[r][g].executed => log[r][g].executed \/ (execSeq[r] <= g /\ g < to)
        /\ execSeq[r] <= g /\ g < to => log'[r][g].executed /\ log'[r][g].commitCert
        /\ g = to => ~log'[r][g].commitCert \/ log'[r][g].executed
    /\ \A q \in Replica : \A e \in ToSet(datastore'[q]) : e \in ToSet(datastore[q]) \/
        (q = r /\ \E g \in SeqNo : /\ execSeq[r] <= g /\ g < to
                                   /\ e.seq = g /\ e.req = log[r][g].req)

CursorInv ==
    \A r \in Replica : \A s \in SeqNo :
        /\ log[r][s].executed => s < execSeq[r]
        /\ s < execSeq[r] => log[r][s].executed
        /\ log[r][s].executed => log[r][s].req # NoRequest
        /\ s = execSeq[r] => ~log[r][s].commitCert

LEMMA LogsHandled ==
    ASSUME OneChange, TypeInv, LogsInv, NEW r, NEW v, NEW s, NEW a, Handles(r, v, s, a), CursorInv'
    PROVE  LogsInv'
<1>1. /\ r \in Replica /\ v \in View /\ s \in SeqNo /\ a \in Request /\ a # NoRequest
      /\ view' = view
    BY RequestFields DEF Handles
<1>2. \A q \in Replica : \A g \in SeqNo : log[q][g].req # NoRequest => log'[q][g].req # NoRequest
    BY <1>1 DEF Handles
<1>3. ASSUME NEW q \in Replica, NEW t \in SeqNo, NEW g \in SeqNo,
             view'[q] = 0, log'[q][t].req # NoRequest, g < t
      PROVE  log'[q][g].req # NoRequest
    <2>1. CASE log'[q][t].req = log[q][t].req
        BY <1>1, <1>2, <1>3, <2>1 DEF LogsInv
    <2>2. CASE q = r /\ t = s /\ log'[r][s].req = a /\ MayLog(r, v, s, a)
        <3>1. v = 0
            BY <1>1, <1>3, <2>2 DEF MayLog
        <3>2. QED
            BY <1>2, <1>3, <2>2, <3>1 DEF MayLog
    <2>3. QED
        BY <2>1, <2>2 DEF Handles
<1>4. ASSUME NEW q \in Replica, NEW t \in waiting'[q] PROVE log'[q][t.seq].req # NoRequest
    <2>1. CASE t \in waiting[q]
        <3>1. t.seq \in SeqNo
            BY <2>1 DEF TypeInv, TypeOK
        <3>2. QED
            BY <1>2, <2>1, <3>1 DEF LogsInv
    <2>2. CASE t \notin waiting[q]
        BY <2>2 DEF Handles
    <2>3. QED
        BY <2>1, <2>2
<1>5. QED
    BY <1>3, <1>4 DEF LogsInv, CursorInv

LEMMA CursorStays ==
    ASSUME OneChange, TypeInv, LogsInv, NEW r, NEW v, NEW s, NEW a, Handles(r, v, s, a), Stays
    PROVE  CursorInv'
<1>1. \A q \in Replica : \A g \in SeqNo : log[q][g].req # NoRequest => log'[q][g].req # NoRequest
    BY RequestFields DEF Handles
<1>2. QED
    BY <1>1 DEF LogsInv, CursorInv, Stays

LEMMA CursorRuns ==
    ASSUME OneChange, TypeInv, TypeInv', LogsInv, NEW r \in Replica, NEW s, NEW to, Runs(r, s, to)
    PROVE  CursorInv'
<1>0. execSeq[r] \in Int /\ to \in Int /\ execSeq[r] <= to /\ execSeq'[r] = to
    BY DEF Runs, TypeInv, TypeOK
<1>1. SUFFICES ASSUME NEW q \in Replica, NEW g \in SeqNo
               PROVE  /\ log'[q][g].executed => g < execSeq'[q]
                      /\ g < execSeq'[q] => log'[q][g].executed
                      /\ log'[q][g].executed => log'[q][g].req # NoRequest
                      /\ g = execSeq'[q] => ~log'[q][g].commitCert
    BY DEF CursorInv
<1>2. g \in Int
    BY DEF SeqNo
<1>3. CASE q # r
    BY <1>3 DEF Runs, LogsInv
<1>4. CASE q = r
    <2>1. /\ log[r][g].executed => g < execSeq[r]
          /\ g < execSeq[r] => log[r][g].executed
          /\ log[r][g].executed => log[r][g].req # NoRequest
        BY DEF LogsInv
    <2>2. log'[r][g].executed => g < to
        BY <1>0, <1>2, <2>1 DEF Runs
    <2>3. g < to => log'[r][g].executed
        BY <1>0, <1>2, <2>1 DEF Runs
    <2>4. log'[r][g].executed => log'[r][g].req # NoRequest
        BY <1>0, <1>2, <2>1 DEF Runs, TypeInv, LocalInv
    <2>5. g = to => ~log'[r][g].commitCert
        BY <1>2, <2>2 DEF Runs
    <2>6. QED
        BY <1>0, <1>4, <2>2, <2>3, <2>4, <2>5
<1>5. QED
    BY <1>3, <1>4

\* A vote in view 0 is new, or r, still in that view, has just sent it.
LEMMA VotedFrom ==
    ASSUME OneChange, TypeInv, NEW r, NEW v, NEW s, NEW a, Handles(r, v, s, a),
           NEW p, NEW t, NEW b, Voted(p, 0, t, b)'
    PROVE  \/ Voted(p, 0, t, b)
           \/ /\ p = r /\ v = 0 /\ t = s /\ b = a /\ view[r] = 0
              /\ log'[r][s].req # NoRequest
<1>1. PICK n \in net' : /\ n.type = "PREPARE" /\ n.from = p /\ n.to = LeaderOf[0]
                        /\ n.view = 0 /\ n.seq = t /\ n.req = b
    BY DEF Voted
<1>2. CASE n \in net
    BY <1>1, <1>2 DEF Voted
<1>3. CASE n \notin net
    <2>1. /\ v = 0 /\ t = s /\ b = a /\ p = r /\ LeaderOf[view[r]] = LeaderOf[0]
          /\ log'[r][s].req # NoRequest
        BY <1>1, <1>3 DEF Handles
    <2>2. view[r] \in View
        BY DEF Handles, TypeInv, TypeOK
    <2>3. view[r] = 0
        BY <2>1, <2>2, TwoViews DEF OldLeader
    <2>4. QED
        BY <2>1, <2>3
<1>4. QED
    BY <1>2, <1>3

LEMMA VotesAgainFrom ==
    ASSUME NEW r, NEW v, NEW s, NEW a, Handles(r, v, s, a),
           NEW p \in Replica, NEW g, NEW b, VotesAgain(p, g, b)'
    PROVE  \/ VotesAgain(p, g, b)
           \/ p = r /\ v = 1 /\ g = s /\ b = a /\ MayVoteAgain(r, s, a)
<1>1. CASE \E m \in net' : /\ m.type = "PREPARE" /\ m.from = p /\ m.view = 1
                           /\ m.seq = g /\ m.req = b
    BY <1>1 DEF Handles, VotesAgain
<1>2. CASE \E t \in waiting'[p] : t.view = 1 /\ t.seq = g /\ t.req = b
    BY <1>2 DEF Handles, VotesAgain
<1>3. QED
    BY <1>1, <1>2 DEF VotesAgain

LEMMA KeptHandled ==
    ASSUME OneChange, TypeInv, TypeInv', ViewsInv, ViewsInv', ProposalsInv, ProposalsInv',
           LogsInv', KeptInv,
           NEW r, NEW v, NEW s, NEW a, Handles(r, v, s, a), Follows(v, s, a) \/ Proposes(r, v, s, a)
    PROVE  KeptInv'
<1>1. /\ r \in Replica /\ v \in {0, 1} /\ s \in SeqNo /\ s \in Int /\ a \in Request /\ a # NoRequest
      /\ view' = view /\ newViews' = newViews
    BY TwoViews, RequestFields DEF Handles, SeqNo
<1>2. \A q \in Replica : \A g \in SeqNo : log[q][g].req # NoRequest => log'[q][g].req # NoRequest
    BY <1>1 DEF Handles
<1>3. ASSUME NEW p \in Replica, NEW t \in SeqNo, NEW g \in SeqNo, NEW b \in Request,
             Voted(p, 0, t, b)', g <= t
      PROVE  log'[p][g].req # NoRequest
    <2>1. CASE Voted(p, 0, t, b)
        BY <1>2, <1>3, <2>1 DEF KeptInv
    <2>2. CASE p = r /\ t = s /\ view[r] = 0 /\ log'[r][s].req # NoRequest
        <3>1. g = s \/ g < s
            BY <1>3, <2>2 DEF SeqNo
        <3>2. QED
            BY <1>1, <2>2, <3>1 DEF LogsInv
    <2>3. QED
        BY <1>3, <2>1, <2>2, VotedFrom
\* A proposal is above everything that was voted for.
<1>4. ASSUME NEW p \in Replica, NEW g \in SeqNo, Kept(p, g), NEW b \in Request,
             Early(g, b)'
      PROVE  Early(g, b)
    <2>1. CASE Follows(v, s, a)
        BY <1>4, <2>1, EarlyFrom DEF Follows, Known
    <2>2. CASE Proposes(r, v, s, a) /\ v = 0 /\ g = s
        <3>1. PICK t \in SeqNo, c \in Request : g <= t /\ Voted(p, 0, t, c)
            BY <1>4 DEF Kept
        <3>2. Early(t, c)
            BY <3>1, VoteFields
        <3>3. r = OldLeader /\ view[OldLeader] = 0 /\ s = nextSeq[OldLeader]
            BY <2>2 DEF Proposes, OldLeader
        <3>4. t < s
            BY <3>2, <3>3 DEF ProposalsInv
        <3>5. QED
            BY <1>1, <2>2, <3>1, <3>4 DEF SeqNo
    <2>3. QED
        BY <1>4, <2>1, <2>2, EarlyFrom
\* Who has voted in view 0 just now is in that view.
<1>5. ASSUME NEW p \in Replica, NEW g \in SeqNo, Kept(p, g)', ~Kept(p, g)
      PROVE  p = r /\ view[r] = 0 /\ log'[r][g].req # NoRequest
    <2>1. PICK t \in SeqNo, b \in Request : g <= t /\ Voted(p, 0, t, b)' /\ p # NewLeader
        BY <1>5 DEF Kept, NewLeader
    <2>2. p = r /\ view[r] = 0
        BY <1>5, <2>1, VotedFrom DEF Kept
    <2>3. QED
        BY <1>3, <2>1, <2>2
<1>6. ASSUME NEW p \in Replica, NEW g \in SeqNo, Kept(p, g)', NEW b \in Request, Early(g, b)'
      PROVE  log'[p][g].req = b \/ \E c \in Request : c # b /\ Renewed(g, c)'
    <2>1. CASE ~Kept(p, g)
        <3>1. p = r /\ view'[r] = 0 /\ log'[r][g].req # NoRequest
            BY <1>1, <1>5, <1>6, <2>1
        <3>2. PICK c \in Request : c = log'[r][g].req
            <4>1. log'[r][g].req \in Request \cup {NoRequest}
                BY <1>1 DEF TypeInv, TypeOK, Slot
            <4>2. QED
                BY <3>1, <4>1
        <3>3. Early(g, c)'
            BY <1>1, <3>1, <3>2 DEF Early
        <3>4. QED
            BY <1>6, <3>1, <3>2, <3>3 DEF ProposalsInv
    <2>2. CASE Kept(p, g)
        <3>1. Early(g, b)
            BY <1>4, <1>6, <2>2
        <3>2. log[p][g].req = b \/ \E c \in Request : c # b /\ Renewed(g, c)
            BY <2>2, <3>1 DEF KeptInv
        <3>3. CASE \E c \in Request : c # b /\ Renewed(g, c)
            BY <1>1, <3>3, RenewedStays
        <3>4. CASE log[p][g].req = b /\ log'[p][g].req # b
            <4>1. p = r /\ g = s /\ log'[r][s].req = a /\ MayLog(r, v, s, a) /\ a # b
                BY <3>4 DEF Handles
            <4>2. p # NewLeader /\ b # NoRequest
                BY <2>2, RequestFields DEF Kept
            <4>3. Renewed(s, a)
                BY <3>4, <4>1, <4>2 DEF MayLog
            <4>4. QED
                BY <1>1, <4>1, <4>3, RenewedStays
        <3>5. QED
            BY <3>2, <3>3, <3>4
    <2>3. QED
        BY <2>1, <2>2
<1>7. ASSUME NEW p \in Replica, NEW g \in SeqNo, Kept(p, g)', NEW b \in Request,
             VotesAgain(p, g, b)'
      PROVE  Renewed(g, b)' /\ ~Early(g, b)'
    <2>1. CASE ~Kept(p, g)
        <3>1. view'[p] = 0
            BY <1>1, <1>5, <1>7, <2>1
        <3>2. QED
            BY <1>7, <3>1 DEF VotesAgain, ViewsInv
    <2>2. CASE Kept(p, g) /\ VotesAgain(p, g, b)
        <3>1. Renewed(g, b) /\ ~Early(g, b)
            BY <2>2 DEF KeptInv
        <3>2. QED
            BY <1>1, <1>4, <2>2, <3>1, RenewedStays
    <2>3. CASE Kept(p, g) /\ ~VotesAgain(p, g, b)
        <3>1. p = r /\ v = 1 /\ g = s /\ b = a /\ MayVoteAgain(r, s, a)
            BY <1>7, <2>3, VotesAgainFrom
        <3>2. p # NewLeader /\ log[p][g].req # NoRequest
            <4>1. PICK t \in SeqNo, c \in Request : g <= t /\ Voted(p, 0, t, c)
                BY <2>3 DEF Kept
            <4>2. QED
                BY <2>3, <4>1 DEF Kept, KeptInv
        <3>3. Renewed(g, b) /\ log[p][g].req # b
            BY <2>3, <3>1, <3>2 DEF MayVoteAgain
        <3>4. ~Early(g, b)
            <4>1. SUFFICES ASSUME Early(g, b) PROVE FALSE
                OBVIOUS
            <4>2. PICK c \in Request : c # b /\ Renewed(g, c)
                BY <2>3, <3>3, <4>1 DEF KeptInv
            <4>3. Again(g, b) /\ Again(g, c)
                BY <3>3, <4>2 DEF Again
            <4>4. QED
                BY <4>2, <4>3 DEF ProposalsInv
        <3>5. QED
            BY <1>1, <1>4, <2>3, <3>3, <3>4, RenewedStays
    <2>4. QED
        BY <2>1, <2>2, <2>3
<1>8. QED
    BY <1>3, <1>6, <1>7 DEF KeptInv

\* A log entry replaced in view 1, executed or not, was not soundly committed,
\* or it is blocked.
LEMMA ExecutionStays ==
    ASSUME OneChange, TypeInv, TypeInv', ViewsInv, ProposalsInv, LogsInv, ViewChangesInv,
           RenewalInv, ExecutionInv,
           NEW r, NEW v, NEW s, NEW a, Handles(r, v, s, a),
           Follows(v, s, a) \/ Proposes(r, v, s, a), Stays
    PROVE  ExecutionInv'
<1>1. /\ r \in Replica /\ v \in {0, 1} /\ s \in SeqNo /\ s \in Int /\ a \in Request /\ a # NoRequest
      /\ view' = view /\ newViews' = newViews /\ execSeq' = execSeq
    BY TwoViews, RequestFields DEF Handles, SeqNo, Stays
<1>2. ASSUME NEW q \in Replica, NEW e \in ToSet(datastore'[q]) PROVE Sound(e.seq, e.req)'
    <2>1. Sound(e.seq, e.req)
        BY <1>2 DEF Stays, ExecutionInv
    <2>2. QED
        BY <2>1, SoundStays
<1>3. ASSUME NEW q \in Replica, NEW g \in SeqNo, Blocked(q, g) PROVE Blocked(q, g)'
    <2>1. PICK b \in Request : Prepared(0, g, b)
        BY <1>3 DEF Blocked
    <2>2. Prepared(0, g, b)'
        BY <2>1, PreparedStays
    <2>3. QED
        BY <1>1, <1>3, <2>2 DEF Blocked, NewLeader
<1>4. ASSUME NEW q \in Replica, NEW g \in SeqNo, log'[q][g].commitCert, ~log'[q][g].executed,
             NEW c, c = log'[q][g].req
      PROVE  Sound(g, c)' \/ Blocked(q, g)'
    <2>1. log[q][g].commitCert /\ ~log[q][g].executed
        BY <1>4 DEF Stays
    <2>2. /\ Sound(g, log[q][g].req) \/ Blocked(q, g)
          /\ log[q][g].req # NoRequest
        BY <2>1 DEF ExecutionInv, TypeInv, LocalInv
    <2>3. CASE Blocked(q, g)
        BY <1>3, <2>3
    <2>4. CASE Sound(g, log[q][g].req) /\ log'[q][g].req = log[q][g].req
        BY <1>4, <2>4, SoundStays
    <2>5. CASE Sound(g, log[q][g].req) /\ log'[q][g].req # log[q][g].req
        <3> DEFINE b == log[q][g].req
        <3>1. q = r /\ g = s /\ log'[r][s].req = a /\ MayLog(r, v, s, a) /\ a # b
            BY <2>5 DEF Handles
        <3>2. v = 1 /\ view[r] = 1 /\ (Renewed(s, a) \/ r = NewLeader)
            BY <2>2, <3>1 DEF MayLog
        <3>3. CASE LateAt(g)
            BY <3>3, LateStays DEF Sound
        <3>4. CASE Prepared(1, g, b)
            <4>1. Again(s, b) /\ b \in Request
                BY <3>1, <3>4, PreparedFields
            <4>2. CASE Follows(v, s, a)
                <5>1. Again(s, a)
                    BY <3>2, <4>2 DEF Follows, Known
                <5>2. QED
                    BY <1>1, <3>1, <4>1, <5>1 DEF ProposalsInv
            <4>3. CASE Proposes(r, v, s, a)
                <5>1. r = NewLeader /\ s = nextSeq[r]
                    BY <3>2, <4>3 DEF Proposes, NewLeader
                <5>2. QED
                    BY <1>1, <4>1, <5>1 DEF ProposalsInv
            <4>4. QED
                BY <4>2, <4>3
        <3>5. CASE Prepared(0, g, b)
            <4>1. b \in Request /\ Early(g, b)
                BY <3>5, PreparedFields
            <4>2. CASE Renewed(s, a)
                <5>1. Early(s, a) \/ LateAt(s)
                    BY <1>1, <3>1, <3>5, <4>2, RenewedOrLate
                <5>2. ~Early(s, a)
                    BY <1>1, <3>1, <4>1 DEF ProposalsInv
                <5>3. QED
                    BY <3>1, <3>3, <5>1, <5>2
            <4>3. CASE r = NewLeader
                <5>1. execSeq[r] < s
                    <6>1. execSeq[r] \in Int
                        BY <1>1 DEF TypeInv, TypeOK
                    <6>2. ~(s < execSeq[r]) /\ s # execSeq[r]
                        BY <1>1, <2>1, <3>1 DEF LogsInv
                    <6>3. QED
                        BY <1>1, <6>1, <6>2
                <5>2. Blocked(q, g)
                    BY <3>1, <3>2, <3>5, <4>1, <4>3, <5>1 DEF Blocked
                <5>3. QED
                    BY <1>3, <5>2
            <4>4. QED
                BY <3>2, <4>2, <4>3
        <3>6. QED
            BY <2>5, <3>3, <3>4, <3>5 DEF Sound
    <2>6. QED
        BY <2>2, <2>3, <2>4, <2>5
<1>5. QED
    BY <1>2, <1>4 DEF ExecutionInv

\* What r executes after a commit was prepared: the slot now committed for the
\* request that is in it, the ones after it when they were committed.
LEMMA ExecutionRuns ==
    ASSUME OneChange, TypeInv, TypeInv', ViewsInv, ProposalsInv, LogsInv, CursorInv', ViewChangesInv,
           RenewalInv, KeptInv, ExecutionInv,
           NEW r, NEW v, NEW s, NEW a, Handles(r, v, s, a), Follows(v, s, a),
           v = view[r], log[r][s].req = a, Prepared(v, s, a), NEW to, Runs(r, s, to)
    PROVE  ExecutionInv'
<1>1. /\ r \in Replica /\ v \in {0, 1} /\ s \in SeqNo /\ s \in Int /\ a \in Request
      /\ view' = view
    BY TwoViews DEF Handles, SeqNo
<1>2. execSeq[r] \in Int /\ execSeq[r] >= 1 /\ to \in Int /\ execSeq[r] <= to /\ execSeq'[r] = to
      /\ to <= MaxSeq + 1 /\ MaxSeq \in Nat
    BY <1>1, RequestAssumption DEF Runs, TypeInv, TypeOK
<1>3. Sound(s, a)
    BY <1>1 DEF Sound
<1>4. ASSUME NEW g \in SeqNo, execSeq[r] <= g, g < to PROVE Sound(g, log[r][g].req)
    <2>1. CASE g = s
        BY <1>3, <2>1
    <2>2. CASE g # s
        <3>1. log[r][g].commitCert /\ ~log[r][g].executed
            BY <1>1, <1>2, <1>4, <2>2 DEF Runs, LogsInv, SeqNo
        <3>2. Sound(g, log[r][g].req) \/ Blocked(r, g)
            BY <1>1, <3>1 DEF ExecutionInv
        <3>3. CASE Blocked(r, g)
            <4>1. /\ view[r] = 1 /\ execSeq[r] < g
                  /\ \E b \in Request : Prepared(0, g, b)
                BY <3>3 DEF Blocked
            <4>2. PICK b \in Request : Prepared(0, g, b)
                BY <4>1
            <4>3. execSeq[r] = s
                <5>1. execSeq[r] \in SeqNo
                    BY <1>2, <1>4 DEF SeqNo
                <5>2. log'[r][execSeq[r]].commitCert
                    BY <1>2, <1>4, <5>1, <4>1 DEF Runs, SeqNo
                <5>3. ~log[r][execSeq[r]].commitCert
                    BY <1>1, <5>1 DEF LogsInv
                <5>4. QED
                    BY <5>1, <5>2, <5>3 DEF Runs
            <4>4. LateAt(g)
                <5>1. Prepared(1, s, a) /\ s <= g
                    BY <1>4, <4>1, <4>3
                <5>2. QED
                    BY <4>2, <5>1, NotTwice
            <4>5. QED
                BY <4>4 DEF Sound
        <3>4. QED
            BY <3>2, <3>3
    <2>3. QED
        BY <2>1, <2>2
<1>5. ASSUME NEW q \in Replica, NEW e \in ToSet(datastore'[q]) PROVE Sound(e.seq, e.req)'
    <2>1. Sound(e.seq, e.req)
        <3>1. CASE e \in ToSet(datastore[q])
            BY <3>1 DEF ExecutionInv
        <3>2. CASE q = r /\ \E g \in SeqNo : /\ execSeq[r] <= g /\ g < to
                                  /\ e.seq = g /\ e.req = log[r][g].req
            BY <1>4, <3>2
        <3>3. QED
            BY <1>5, <3>1, <3>2 DEF Runs
    <2>2. QED
        BY <2>1, SoundStays
<1>6. ASSUME NEW q \in Replica, NEW g \in SeqNo, log'[q][g].commitCert, ~log'[q][g].executed,
             NEW c, c = log'[q][g].req
      PROVE  Sound(g, c)' \/ Blocked(q, g)'
    <2>1. c = log[q][g].req
        BY <1>6 DEF Runs
    <2>2. CASE q = r /\ g = s
        BY <1>3, <2>1, <2>2, SoundStays
    <2>3. CASE ~(q = r /\ g = s)
        <3>1. log[q][g].commitCert /\ ~log[q][g].executed
            BY <1>1, <1>6, <2>3 DEF Runs
        <3>2. CASE Sound(g, c)
            BY <3>2, SoundStays
        <3>3. CASE Blocked(q, g)
            <4>1. PICK b \in Request : Prepared(0, g, b)
                BY <3>3 DEF Blocked
            <4>2. Prepared(0, g, b)'
                BY <4>1, PreparedStays
            <4>3. execSeq'[q] < g
                <5>1. CASE q = r
                    <6>1. ~(g < to) /\ g # to
                        BY <1>1, <1>2, <1>6, <5>1 DEF CursorInv
                    <6>2. QED
                        BY <1>2, <5>1, <6>1 DEF SeqNo
                <5>2. CASE q # r
                    BY <3>3, <5>2 DEF Runs, Blocked
                <5>3. QED
                    BY <5>1, <5>2
            <4>4. QED
                BY <1>1, <3>3, <4>2, <4>3 DEF Blocked, NewLeader
        <3>4. QED
            BY <2>1, <3>1, <3>2, <3>3 DEF ExecutionInv
    <2>4. QED
        BY <2>2, <2>3
<1>7. QED
    BY <1>5, <1>6 DEF ExecutionInv

\* The invariant over every step that stays in its view.
LEMMA Handled ==
    ASSUME OneChange, AgreeInv, TypeInv', NEW r, NEW v, NEW s, NEW a, Handles(r, v, s, a),
           Follows(v, s, a) \/ Proposes(r, v, s, a), Stays, InstallShrinks
    PROVE  AgreeInv'
<1>1. ViewsInv'
    BY ViewsHandled DEF AgreeInv
<1>2. ProposalsInv'
    BY ProposalsFollowed, ProposalsMade DEF AgreeInv
<1>3. LogsInv'
    BY CursorStays, LogsHandled DEF AgreeInv
<1>4. ViewChangesInv' /\ RenewalInv'
    BY ViewChangesStay DEF AgreeInv, Handles
<1>5. KeptInv'
    BY <1>1, <1>2, <1>3, KeptHandled DEF AgreeInv
<1>6. CertsInv'
    BY CertsHandled DEF AgreeInv
<1>7. ExecutionInv'
    BY ExecutionStays DEF AgreeInv
<1>8. QED
    BY <1>1, <1>2, <1>3, <1>4, <1>5, <1>6, <1>7 DEF AgreeInv

LEMMA Committed ==
    ASSUME OneChange, AgreeInv, TypeInv', NEW r, NEW v, NEW s, NEW a, Handles(r, v, s, a),
           Follows(v, s, a), v = view[r], log[r][s].req = a, Prepared(v, s, a),
           NEW to, Runs(r, s, to), InstallShrinks
    PROVE  AgreeInv'
<1>1. ViewsInv'
    BY ViewsHandled DEF AgreeInv
<1>2. ProposalsInv'
    BY ProposalsFollowed DEF AgreeInv
<1>3. CursorInv'
    BY CursorRuns DEF AgreeInv, Handles
<1>4. LogsInv'
    BY <1>3, LogsHandled DEF AgreeInv
<1>5. ViewChangesInv' /\ RenewalInv'
    BY ViewChangesStay DEF AgreeInv, Handles
<1>6. KeptInv'
    BY <1>1, <1>2, <1>4, KeptHandled DEF AgreeInv
<1>7. CertsInv'
    BY CertsHandled DEF AgreeInv
<1>8. ExecutionInv'
    BY <1>3, ExecutionRuns DEF AgreeInv
<1>9. QED
    BY <1>1, <1>2, <1>4, <1>5, <1>6, <1>7, <1>8 DEF AgreeInv

-----------------------------------------------------------------------------
(***************************************************************************)
(* What a handler of the three phases does: handle a known request and     *)
(* execute nothing, or commit its slot and execute.                        *)
(***************************************************************************)
Quiet(r, v, s, a) ==
    /\ Handles(r, v, s, a) /\ Follows(v, s, a)
    /\ Stays /\ clientTS' = clientTS /\ InstallShrinks

Commits(r, v, s, a) ==
    /\ Handles(r, v, s, a) /\ Follows(v, s, a)
    /\ v = view[r] /\ log[r][s].req = a /\ Prepared(v, s, a)
    /\ TryExecute(r, [log[r] EXCEPT ![s].commitCert = TRUE])
    /\ \E to : Runs(r, s, to)
    /\ InstallShrinks

Phase == \E r, v, s, a : Quiet(r, v, s, a) \/ Commits(r, v, s, a)

\* The leader of a view proposes a request.
Leads(r, s, a) ==
    /\ Handles(r, view[r], s, a) /\ Proposes(r, view[r], s, a) /\ MayLog(r, view[r], s, a)
    /\ Stays /\ clientTS' = clientTS /\ InstallShrinks

\* A step that touches nothing that was proposed.
Idle ==
    /\ UNCHANGED <<view, nextSeq, execVars, log, waiting, viewChanges, newViews, net>>
    /\ InstallShrinks

LEMMA AgreePhase ==
    ASSUME OneChange, AgreeInv, TypeInv', Phase
    PROVE  AgreeInv'
<1>1. PICK r, v, s, a : Quiet(r, v, s, a) \/ Commits(r, v, s, a)
    BY DEF Phase
<1>2. CASE Quiet(r, v, s, a)
    BY <1>2, Handled DEF Quiet
<1>3. CASE Commits(r, v, s, a)
    BY <1>3, Committed DEF Commits
<1>4. QED
    BY <1>1, <1>2, <1>3

-----------------------------------------------------------------------------
(***************************************************************************)
(* The handlers of phase messages are such steps.                          *)
(***************************************************************************)
LEMMA VoteIs ==
    ASSUME NEW phase, NEW r, NEW v, NEW s, NEW a
    PROVE  /\ Vote(phase, r, v, s, a).type = phase
           /\ Vote(phase, r, v, s, a).to = LeaderOf[view[r]]
           /\ Vote(phase, r, v, s, a).from = r
           /\ Vote(phase, r, v, s, a).view = v
           /\ Vote(phase, r, v, s, a).seq = s
           /\ Vote(phase, r, v, s, a).req = a
BY DEF Vote, Primary

LEMMA BroadcastIs ==
    ASSUME NEW type, NEW r, NEW v, NEW s, NEW a, NEW n \in Broadcast(type, r, v, s, a)
    PROVE  n.type = type /\ n.view = v /\ n.seq = s /\ n.req = a
BY DEF Broadcast

SetsRequest(r, s, a) == log' = [log EXCEPT ![r][s].req = a]

LEMMA SetRequestIs ==
    ASSUME TypeInv, NEW r \in Replica, NEW s \in SeqNo, NEW a, SetsRequest(r, s, a)
    PROVE  /\ log'[r][s].req = a
           /\ \A q \in Replica : \A g \in SeqNo :
                /\ ~(q = r /\ g = s) => log'[q][g].req = log[q][g].req
                /\ log'[q][g].executed = log[q][g].executed
                /\ log'[q][g].commitCert = log[q][g].commitCert
<1>0. log \in [Replica -> [SeqNo -> Slot]] /\ log' = [log EXCEPT ![r][s].req = a]
    BY DEF TypeInv, TypeOK, SetsRequest
<1>1. log'[r][s].req = a /\ log'[r][s].executed = log[r][s].executed
      /\ log'[r][s].commitCert = log[r][s].commitCert
    BY <1>0 DEF Slot
<1>2. \A q \in Replica : \A g \in SeqNo : ~(q = r /\ g = s) => log'[q][g] = log[q][g]
    BY <1>0
<1>3. QED
    BY <1>1, <1>2

LEMMA SetPreparedIs ==
    ASSUME TypeInv, NEW r \in Replica, NEW s \in SeqNo,
           log' = [log EXCEPT ![r][s].prepareCert = TRUE]
    PROVE  \A q \in Replica : \A g \in SeqNo :
                /\ log'[q][g].req = log[q][g].req
                /\ log'[q][g].executed = log[q][g].executed
                /\ log'[q][g].commitCert = log[q][g].commitCert
<1>0. log \in [Replica -> [SeqNo -> Slot]]
    BY DEF TypeInv, TypeOK
<1>1. /\ log'[r][s].req = log[r][s].req /\ log'[r][s].executed = log[r][s].executed
      /\ log'[r][s].commitCert = log[r][s].commitCert
    BY <1>0 DEF Slot
<1>2. \A q \in Replica : \A g \in SeqNo : ~(q = r /\ g = s) => log'[q][g] = log[q][g]
    BY <1>0
<1>3. QED
    BY <1>1, <1>2

LEMMA ProcessIs ==
    ASSUME TypeInv, NEW r \in Replica, NEW v, NEW s, NEW a, NEW nv, NEW msgs,
           ProcessPrePrepare(r, v, s, a, nv, msgs)
    PROVE  /\ \A n \in net' : n \in msgs \/ n = Vote("PREPARE", r, v, s, a)
           /\ msgs \subseteq net'
           /\ \A q \in Replica : \A t \in waiting'[q] :
                t \in waiting[q] \/ (q = r /\ t.view = v /\ t.seq = s /\ t.req = a)
<1>1. /\ \A n \in net' : n \in msgs \/ n = Vote("PREPARE", r, v, s, a)
      /\ msgs \subseteq net'
    BY DEF ProcessPrePrepare
<1>2. \/ waiting' = waiting
      \/ waiting' = [waiting EXCEPT ![r] = @ \cup
                       {[view |-> v, seq |-> s, req |-> a, nv |-> nv]}]
    BY DEF ProcessPrePrepare
<1>3. waiting \in [Replica -> SUBSET Task]
    BY DEF TypeInv, TypeOK, Task
<1>4. \A q \in Replica : \A t \in waiting'[q] :
        t \in waiting[q] \/ (q = r /\ t.view = v /\ t.seq = s /\ t.req = a)
    BY <1>2, <1>3
<1>5. QED
    BY <1>1, <1>4

LEMMA SameInstall == ASSUME install' = install PROVE InstallShrinks
BY DEF InstallShrinks

\* What a replica that accepts a pre-prepare of view 0 has before it.
LEMMA GapFilled ==
    ASSUME TypeInv, LogsInv, NEW r \in Replica, NEW s \in SeqNo, GapClear(r, s)
    PROVE  \A g \in SeqNo : g < s => log[r][g].req # NoRequest
<1>1. execSeq[r] \in Int
    BY DEF TypeInv, TypeOK
<1>2. ASSUME NEW g \in SeqNo, g < s PROVE log[r][g].req # NoRequest
    <2>1. CASE execSeq[r] <= g
        BY <1>2, <2>1 DEF GapClear
    <2>2. CASE ~(execSeq[r] <= g)
        BY <1>1, <2>2 DEF LogsInv, SeqNo
    <2>3. QED
        BY <2>1, <2>2
<1>3. QED
    BY <1>2

LEMMA PhaseOnPrePrepare ==
    ASSUME OneChange, AgreeInv, NEW m \in net, OnPrePrepare(m)
    PROVE  Phase
<1> DEFINE r == m.to
           v == m.view
           s == m.seq
           a == m.req
<1>0. TypeInv /\ LogsInv /\ TypeInv'
    BY TypeOnPrePrepare DEF AgreeInv
<1>1. /\ r \in Replica /\ v \in View /\ s \in SeqNo /\ a \in Request /\ a # NoRequest
      /\ v = view[r] /\ view[r] \in Int
    <2>1. m \in Message /\ view \in [Replica -> View]
        BY <1>0 DEF TypeInv, TypeOK
    <2>2. r \in Replica /\ v \in View /\ s \in SeqNo /\ a \in Request
        BY <2>1, MessageFields
    <2>3. a # NoRequest
        BY <2>2, RequestFields
    <2>4. v = view[r]
        BY DEF OnPrePrepare, AcceptsPrePrepare
    <2>5. QED
        BY <2>2, <2>3, <2>4, TwoViews
<1>2. /\ m.type = "PRE_PREPARE"
      /\ log[r][s].req = NoRequest /\ GapClear(r, s)
      /\ log' = [log EXCEPT ![r][s].req = a]
      /\ ProcessPrePrepare(r, v, s, a, 0, net \ {m})
      /\ UNCHANGED execVars /\ UNCHANGED viewVars
    BY DEF OnPrePrepare, AcceptsPrePrepare
<1>3. /\ view' = view /\ viewChanges' = viewChanges /\ newViews' = newViews /\ nextSeq' = nextSeq
      /\ install' = install /\ execSeq' = execSeq /\ datastore' = datastore
    BY <1>2 DEF execVars, viewVars
<1>4. Known(v, s, a)
    BY <1>1 DEF Known, Early, Again
<1> HIDE DEF r, v, s, a
<1>5. /\ log'[r][s].req = a
      /\ \A q \in Replica : \A g \in SeqNo :
            /\ ~(q = r /\ g = s) => log'[q][g].req = log[q][g].req
            /\ log'[q][g].executed = log[q][g].executed
            /\ log'[q][g].commitCert = log[q][g].commitCert
    <2>1. SetsRequest(r, s, a)
        BY <1>2 DEF SetsRequest
    <2>2. QED
        BY <1>0, <1>1, <2>1, SetRequestIs
<1>6. /\ \A n \in net' : n \in net \ {m} \/ n = Vote("PREPARE", r, v, s, a)
      /\ net \ {m} \subseteq net'
      /\ \A q \in Replica : \A t \in waiting'[q] :
            t \in waiting[q] \/ (q = r /\ t.view = v /\ t.seq = s /\ t.req = a)
    BY <1>0, <1>1, <1>2, ProcessIs
<1>7. MayLog(r, v, s, a)
    BY <1>0, <1>1, <1>2, GapFilled DEF MayLog
<1>8. MayVoteAgain(r, s, a)
    BY <1>2 DEF MayVoteAgain
<1>9. \A n \in net : Counted(n) => n \in net'
    BY <1>2, <1>6 DEF Counted
<1>10. ASSUME NEW n \in net', n \notin net
       PROVE  /\ n.view = v /\ n.seq = s /\ n.req = a
              /\ n.type = "PREPARE" /\ n.from = r /\ n.to = LeaderOf[view[r]]
    BY <1>6, <1>10, VoteIs
<1>11. Handles(r, v, s, a)
    BY <1>1, <1>3, <1>5, <1>6, <1>7, <1>8, <1>9, <1>10 DEF Handles, CertTypes
<1>12. Follows(v, s, a) /\ Stays /\ clientTS' = clientTS /\ InstallShrinks
    BY <1>2, <1>3, <1>4, <1>5, SameInstall DEF Follows, Stays, execVars
<1>13. QED
    BY <1>11, <1>12 DEF Phase, Quiet

LEMMA PhaseLockAndPrepare ==
    ASSUME OneChange, AgreeInv, NEW r \in Replica, NEW t \in waiting[r], LockAndPrepare(r, t)
    PROVE  Phase
<1> DEFINE v == t.view
           s == t.seq
           a == t.req
<1>0. TypeInv /\ LogsInv /\ ViewsInv /\ TypeInv'
    BY TypeLockAndPrepare DEF AgreeInv
<1>1. v \in View /\ s \in SeqNo /\ a \in Request /\ v <= view[r] /\ log[r][s].req # NoRequest
    BY <1>0 DEF TypeInv, TypeOK, LogsInv, ViewsInv
<1>2. /\ waiting' = [waiting EXCEPT ![r] = @ \ {t}]
      /\ net' = net \cup {Vote("PREPARE", r, v, s, a)}
      /\ log' = log /\ UNCHANGED execVars /\ UNCHANGED viewVars
    BY DEF LockAndPrepare
<1>3. /\ view' = view /\ viewChanges' = viewChanges /\ newViews' = newViews /\ nextSeq' = nextSeq
      /\ install' = install /\ execSeq' = execSeq /\ datastore' = datastore
    BY <1>2 DEF execVars, viewVars
<1>4. Known(v, s, a)
    BY <1>1 DEF Known, Early, Again
<1>5. v = 1 => MayVoteAgain(r, s, a)
    BY <1>1 DEF MayVoteAgain, VotesAgain
<1> HIDE DEF v, s, a
<1>6. \A q \in Replica : waiting'[q] \subseteq waiting[q]
    BY <1>0, <1>2 DEF TypeInv, TypeOK
<1>7. ASSUME NEW n \in net', n \notin net
      PROVE  /\ n.view = v /\ n.seq = s /\ n.req = a
             /\ n.type = "PREPARE" /\ n.from = r /\ n.to = LeaderOf[view[r]]
    BY <1>2, <1>7, VoteIs
<1>8. Handles(r, v, s, a)
    BY <1>1, <1>2, <1>3, <1>5, <1>6, <1>7 DEF Handles, CertTypes
<1>9. Follows(v, s, a) /\ Stays /\ clientTS' = clientTS /\ InstallShrinks
    BY <1>2, <1>3, <1>4, SameInstall DEF Follows, Stays, execVars
<1>10. QED
    BY <1>8, <1>9 DEF Phase, Quiet

LEMMA QuorumPrepares ==
    ASSUME OneChange, TypeInv, NEW r \in Replica, NEW s \in SeqNo, IsPrimary(r),
           Cardinality(Votes(r, "PREPARE", s)) >= Quorum
    PROVE  /\ Prepared(view[r], s, log[r][s].req)
           /\ Known(view[r], s, log[r][s].req)
           /\ log[r][s].req \in Request
<1> DEFINE Q == Votes(r, "PREPARE", s)
<1>1. ASSUME NEW p \in Q
      PROVE  p \in Replica /\ Voted(p, view[r], s, log[r][s].req)
    <2>1. PICK n \in net : n.type = "PREPARE" /\ n.to = r /\ n.seq = s /\ CountsVote(n) /\ p = n.from
        BY DEF Votes
    <2>2. n \in Message
        BY DEF TypeInv, TypeOK
    <2>3. QED
        BY <2>1, <2>2, MessageFields DEF Voted, CountsVote, IsPrimary, Primary
<1>2. Q \in SUBSET Replica /\ Cardinality(Q) >= Quorum
    BY <1>1
<1>3. view[r] = 1 => r = NewLeader
    BY DEF IsPrimary, Primary, NewLeader
<1>4. Prepared(view[r], s, log[r][s].req)
    BY <1>1, <1>2, <1>3 DEF Prepared
<1>5. QED
    BY <1>4, PreparedFields DEF Known

LEMMA PhaseOnPrepare ==
    ASSUME OneChange, AgreeInv, NEW r \in Replica, NEW s \in SeqNo, OnPrepare(r, s)
    PROVE  Phase
<1> DEFINE v == view[r]
           a == log[r][s].req
<1>0. TypeInv /\ LogsInv /\ TypeInv'
    BY TypeOnPrepare DEF AgreeInv
<1>1. /\ IsPrimary(r)
      /\ Cardinality(Votes(r, "PREPARE", s)) >= Quorum
      /\ log' = [log EXCEPT ![r][s].prepareCert = TRUE]
      /\ net' = net \cup Broadcast("PREPARE_CERT", r, v, s, a) \cup {Vote("COMMIT", r, v, s, a)}
      /\ waiting' = waiting /\ UNCHANGED execVars /\ UNCHANGED viewVars
    BY DEF OnPrepare
<1>2. v \in View /\ v <= view[r] /\ a \in Request /\ Prepared(v, s, a) /\ Known(v, s, a)
    <2>1. v \in View /\ v <= view[r]
        <3>1. view[r] \in View
            BY <1>0 DEF TypeInv, TypeOK
        <3>2. QED
            BY <3>1, TwoViews
    <2>2. QED
        BY <1>0, <1>1, <2>1, QuorumPrepares
<1>3. /\ view' = view /\ viewChanges' = viewChanges /\ newViews' = newViews /\ nextSeq' = nextSeq
      /\ install' = install /\ execSeq' = execSeq /\ datastore' = datastore
    BY <1>1 DEF execVars, viewVars
<1> HIDE DEF v, a
<1>4. \A q \in Replica : \A g \in SeqNo :
            /\ log'[q][g].req = log[q][g].req
            /\ log'[q][g].executed = log[q][g].executed
            /\ log'[q][g].commitCert = log[q][g].commitCert
    BY <1>0, <1>1, SetPreparedIs
<1>5. ASSUME NEW n \in net', n \notin net
      PROVE  n.view = v /\ n.seq = s /\ n.req = a /\ n.type # "PREPARE"
    BY <1>1, <1>5, VoteIs, BroadcastIs
<1>6. Handles(r, v, s, a)
    BY <1>1, <1>2, <1>3, <1>4, <1>5 DEF Handles
<1>7. Follows(v, s, a) /\ Stays /\ clientTS' = clientTS /\ InstallShrinks
    BY <1>1, <1>2, <1>3, <1>4, SameInstall DEF Follows, Stays, execVars
<1>8. QED
    BY <1>6, <1>7 DEF Phase, Quiet

LEMMA PhaseOnPrepareCert ==
    ASSUME OneChange, AgreeInv, NEW m \in net, OnPrepareCert(m)
    PROVE  Phase
<1> DEFINE r == m.to
           v == m.view
           s == m.seq
           a == m.req
<1>0. TypeInv /\ LogsInv /\ TypeInv' /\ CertsInv
    BY TypeOnPrepareCert DEF AgreeInv
<1>1. /\ m.type = "PREPARE_CERT" /\ v = view[r]
      /\ log' = [log EXCEPT ![r][s].prepareCert = TRUE]
      /\ net' = (net \ {m}) \cup {Vote("COMMIT", r, v, s, a)}
      /\ waiting' = waiting /\ UNCHANGED execVars /\ UNCHANGED viewVars
    BY DEF OnPrepareCert, AcceptsCert
<1>2. r \in Replica /\ v \in View /\ v <= view[r] /\ s \in SeqNo /\ a \in Request
    <2>1. m \in Message
        BY <1>0 DEF TypeInv, TypeOK
    <2>2. r \in Replica /\ v \in View /\ s \in SeqNo /\ a \in Request
        BY <2>1, MessageFields
    <2>3. QED
        BY <1>1, <2>2, TwoViews
<1>3. Known(v, s, a) /\ Prepared(v, s, a)
    BY <1>0, <1>1, <1>2 DEF Known, Early, Again, CertsInv, CertTypes
<1>4. /\ view' = view /\ viewChanges' = viewChanges /\ newViews' = newViews /\ nextSeq' = nextSeq
      /\ install' = install /\ execSeq' = execSeq /\ datastore' = datastore
    BY <1>1 DEF execVars, viewVars
<1> HIDE DEF r, v, s, a
<1>5. \A q \in Replica : \A g \in SeqNo :
            /\ log'[q][g].req = log[q][g].req
            /\ log'[q][g].executed = log[q][g].executed
            /\ log'[q][g].commitCert = log[q][g].commitCert
    BY <1>0, <1>1, <1>2, SetPreparedIs
<1>6. ASSUME NEW n \in net', n \notin net
      PROVE  n.view = v /\ n.seq = s /\ n.req = a /\ n.type # "PREPARE"
    BY <1>1, <1>6, VoteIs
<1>7. \A n \in net : Counted(n) => n \in net'
    BY <1>1 DEF Counted
<1>8. Handles(r, v, s, a)
    BY <1>1, <1>2, <1>3, <1>4, <1>5, <1>6, <1>7 DEF Handles
<1>9. Follows(v, s, a) /\ Stays /\ clientTS' = clientTS /\ InstallShrinks
    BY <1>1, <1>3, <1>4, <1>5, SameInstall DEF Follows, Stays, execVars
<1>10. QED
    BY <1>8, <1>9 DEF Phase, Quiet

\* tryExecute after slot s got its commit certificate.
LEMMA ExecuteRuns ==
    ASSUME TypeInv, NEW r \in Replica, NEW s \in SeqNo, log[r][s].req # NoRequest,
           TryExecute(r, [log[r] EXCEPT ![s].commitCert = TRUE])
    PROVE  \E to : Runs(r, s, to)
<1>0. /\ TypeOK /\ MaxSeq \in Nat /\ execSeq[r] \in 1 .. MaxSeq + 1
      /\ log \in [Replica -> [SeqNo -> Slot]]
      /\ execSeq \in [Replica -> 1 .. MaxSeq + 1]
      /\ datastore \in [Replica -> Seq(PrePrepare)]
    BY RequestAssumption DEF TypeInv, TypeOK
<1>1. PICK slots \in [SeqNo -> Slot] :
           /\ slots = [log[r] EXCEPT ![s].commitCert = TRUE]
           /\ \A i \in SeqNo : /\ slots[i].req = log[r][i].req
                               /\ slots[i].prepareCert = log[r][i].prepareCert
                               /\ slots[i].executed = log[r][i].executed
           /\ \A i \in SeqNo : i # s => slots[i].commitCert = log[r][i].commitCert
           /\ slots[s].commitCert
           /\ \A i \in SeqNo : slots[i].commitCert => slots[i].req \in Request
    BY CommittedSlots
<1>2. TryExecute(r, slots) /\ \A i \in SeqNo : slots[i].commitCert => slots[i].req \in Request
    BY <1>1
<1>3. PICK to \in execSeq[r] .. MaxSeq + 1 :
           /\ \A i \in execSeq[r] .. to - 1 : i \in SeqNo /\ slots[i].commitCert /\ ~slots[i].executed
           /\ to \in SeqNo => ~slots[to].commitCert \/ slots[to].executed
           /\ log' = [log EXCEPT ![r] =
                [i \in SeqNo |-> [slots[i] EXCEPT !.executed = @ \/ i \in execSeq[r] .. to - 1]]]
           /\ execSeq' = [execSeq EXCEPT ![r] = to]
           /\ datastore' = [datastore EXCEPT ![r] = @ \o
                [i \in 1 .. to - execSeq[r] |->
                   [seq |-> execSeq[r] + i - 1, req |-> slots[execSeq[r] + i - 1].req]]]
    <2>1. \E to \in execSeq[r] .. MaxSeq + 1 :
           /\ \A i \in execSeq[r] .. to - 1 : i \in SeqNo /\ slots[i].commitCert /\ ~slots[i].executed
           /\ to \in SeqNo => ~slots[to].commitCert \/ slots[to].executed
           /\ log' = [log EXCEPT ![r] =
                [i \in SeqNo |-> [slots[i] EXCEPT !.executed = @ \/ i \in execSeq[r] .. to - 1]]]
           /\ execSeq' = [execSeq EXCEPT ![r] = to]
           /\ datastore' = [datastore EXCEPT ![r] = @ \o
                [i \in 1 .. to - execSeq[r] |->
                   [seq |-> execSeq[r] + i - 1, req |-> slots[execSeq[r] + i - 1].req]]]
           /\ clientTS' \in [Replica -> [Client -> Nat]]
           /\ lock' \in [Replica -> [Item -> SeqNo \cup {0}]]
        BY <1>0, <1>2, ExecuteIs
    <2>2. QED
        BY <2>1
<1>4. to \in Int /\ execSeq[r] \in Int /\ execSeq[r] <= to /\ execSeq'[r] = to
      /\ \A q \in Replica : q # r => execSeq'[q] = execSeq[q]
    BY <1>0, <1>3
<1>5. \A q \in Replica : q # r => log'[q] = log[q]
    BY <1>0, <1>3
<1>6. ASSUME NEW g \in SeqNo
      PROVE  /\ log'[r][g].req = log[r][g].req
             /\ log'[r][g].commitCert = slots[g].commitCert
             /\ log'[r][g].executed = (slots[g].executed \/ g \in execSeq[r] .. to - 1)
    <2>1. log'[r][g] = [slots[g] EXCEPT !.executed = @ \/ g \in execSeq[r] .. to - 1]
        BY <1>0, <1>3
    <2>2. slots[g] \in Slot /\ slots[g].req = log[r][g].req
        BY <1>1
    <2>3. QED
        BY <2>1, <2>2 DEF Slot
<1>7. ASSUME NEW g \in SeqNo
      PROVE  /\ log'[r][g].commitCert => log[r][g].commitCert \/ g = s
             /\ log[r][g].executed => log'[r][g].executed
             /\ log'[r][g].executed => log[r][g].executed \/ (execSeq[r] <= g /\ g < to)
             /\ execSeq[r] <= g /\ g < to => log'[r][g].executed /\ log'[r][g].commitCert
             /\ g = to => ~log'[r][g].commitCert \/ log'[r][g].executed
    <2>1. g \in execSeq[r] .. to - 1 <=> execSeq[r] <= g /\ g < to
        BY <1>4 DEF SeqNo
    <2>2. /\ slots[g].executed = log[r][g].executed
          /\ g # s => slots[g].commitCert = log[r][g].commitCert
        BY <1>1
    <2>3. g \in execSeq[r] .. to - 1 => slots[g].commitCert
        BY <1>3
    <2>4. g = to => ~slots[g].commitCert \/ slots[g].executed
        BY <1>3
    <2>5. QED
        BY <1>6, <2>1, <2>2, <2>3, <2>4
<1>8. ASSUME NEW q \in Replica, NEW e \in ToSet(datastore'[q]), e \notin ToSet(datastore[q])
      PROVE  q = r /\ \E g \in SeqNo : /\ execSeq[r] <= g /\ g < to
                                       /\ e.seq = g /\ e.req = log[r][g].req
    <2> DEFINE more == [i \in 1 .. to - execSeq[r] |->
                   [seq |-> execSeq[r] + i - 1, req |-> slots[execSeq[r] + i - 1].req]]
    <2>1. q = r
        BY <1>0, <1>3, <1>8
    <2>2. datastore'[r] = datastore[r] \o more
        BY <1>0, <1>3
    <2>3. more \in Seq([seq : Int, req : Request])
        <3>1. ASSUME NEW i \in 1 .. to - execSeq[r]
              PROVE  [seq |-> execSeq[r] + i - 1, req |-> slots[execSeq[r] + i - 1].req]
                        \in [seq : Int, req : Request]
            <4>1. execSeq[r] + i - 1 \in execSeq[r] .. to - 1
                BY <1>4
            <4>2. slots[execSeq[r] + i - 1].req \in Request
                BY <1>1, <1>3, <4>1
            <4>3. QED
                BY <1>4, <4>2
        <3>2. to - execSeq[r] \in Nat
            BY <1>4
        <3>3. more \in [1 .. to - execSeq[r] -> [seq : Int, req : Request]]
            BY <3>1
        <3>4. QED
            BY <3>2, <3>3, SequenceFrom
    <2>4. DOMAIN more = 1 .. to - execSeq[r]
        OBVIOUS
    <2>5. \A i \in DOMAIN more : /\ more[i].seq = execSeq[r] + i - 1
                                 /\ more[i].req = slots[execSeq[r] + i - 1].req
        OBVIOUS
    <2> HIDE DEF more
    <2>6. PICK k \in DOMAIN (datastore[r] \o more) : e = (datastore[r] \o more)[k]
        BY <1>8, <2>1, <2>2 DEF ToSet
    <2>7. /\ datastore[r] \in Seq(PrePrepare) /\ Len(datastore[r]) \in Nat /\ Len(more) \in Nat
          /\ DOMAIN datastore[r] = 1 .. Len(datastore[r]) /\ DOMAIN more = 1 .. Len(more)
          /\ DOMAIN (datastore[r] \o more) = 1 .. Len(datastore[r]) + Len(more)
          /\ k <= Len(datastore[r]) => e = datastore[r][k]
          /\ k > Len(datastore[r]) => e = more[k - Len(datastore[r])]
        BY <1>0, <2>3, <2>6, SequenceOver
    <2>8. k > Len(datastore[r])
        BY <1>8, <2>1, <2>6, <2>7 DEF ToSet
    <2>9. PICK i \in DOMAIN more : e = more[i]
        BY <2>6, <2>7, <2>8
    <2>10. /\ e.seq = execSeq[r] + i - 1 /\ execSeq[r] + i - 1 \in execSeq[r] .. to - 1
           /\ e.req = slots[execSeq[r] + i - 1].req
        BY <1>4, <2>4, <2>5, <2>9
    <2>11. execSeq[r] + i - 1 \in SeqNo
        BY <1>3, <2>10
    <2>12. QED
        BY <1>1, <1>4, <2>1, <2>10, <2>11
<1>9. Runs(r, s, to)
    <2>1. \A q \in Replica : \A g \in SeqNo :
        /\ log'[q][g].req = log[q][g].req
        /\ q # r => /\ log'[q][g].executed = log[q][g].executed
                    /\ log'[q][g].commitCert = log[q][g].commitCert
        BY <1>5, <1>6
    <2>2. \A q \in Replica : \A e \in ToSet(datastore'[q]) : e \in ToSet(datastore[q]) \/
            (q = r /\ \E g \in SeqNo : /\ execSeq[r] <= g /\ g < to
                                       /\ e.seq = g /\ e.req = log[r][g].req)
        BY <1>8
    <2>3. QED
        BY <1>4, <1>7, <2>1, <2>2 DEF Runs
<1>10. QED
    BY <1>9

LEMMA PhaseOnCommit ==
    ASSUME OneChange, AgreeInv, NEW r \in Replica, NEW s \in SeqNo, OnCommit(r, s)
    PROVE  Phase
<1> DEFINE v == view[r]
           a == log[r][s].req
<1>0. TypeInv /\ LogsInv /\ CertsInv /\ TypeInv'
    BY TypeOnCommit DEF AgreeInv
<1>1. /\ Cardinality(Votes(r, "COMMIT", s)) >= Quorum
      /\ TryExecute(r, [log[r] EXCEPT ![s].commitCert = TRUE])
      /\ net' = net \cup Broadcast("COMMIT_CERT", r, v, s, a)
      /\ waiting' = waiting /\ UNCHANGED viewVars
    BY DEF OnCommit
<1>2. PICK m \in net : /\ m.type = "COMMIT" /\ m.to = r /\ m.seq = s
                       /\ m.view = v /\ m.req = a /\ a \in Request
    BY <1>0, <1>1, VotedRequest DEF TypeInv
<1>3. Prepared(v, s, a) /\ Known(v, s, a) /\ a # NoRequest
    <2>1. Prepared(v, s, a)
        BY <1>0, <1>2 DEF CertsInv, CertTypes
    <2>2. Known(v, s, a)
        BY <1>2 DEF Known, Early, Again
    <2>3. QED
        BY <1>2, <2>1, <2>2, RequestFields
<1>4. v \in View /\ v <= view[r]
    <2>1. view[r] \in View
        BY <1>0 DEF TypeInv, TypeOK
    <2>2. QED
        BY <2>1, TwoViews
<1>5. /\ view' = view /\ viewChanges' = viewChanges /\ newViews' = newViews /\ nextSeq' = nextSeq
      /\ install' = install
    BY <1>1 DEF viewVars
<1>6. PICK to : Runs(r, s, to)
    BY <1>0, <1>1, <1>3, ExecuteRuns
<1>7. v = view[r] /\ log[r][s].req = a
    OBVIOUS
<1> HIDE DEF v, a
<1>8. ASSUME NEW n \in net', n \notin net
      PROVE  n.view = v /\ n.seq = s /\ n.req = a /\ n.type # "PREPARE"
    BY <1>1, <1>8, BroadcastIs
<1>9. \A q \in Replica : \A g \in SeqNo : log'[q][g].req = log[q][g].req
    BY <1>6 DEF Runs
<1>10. Handles(r, v, s, a)
    BY <1>1, <1>2, <1>3, <1>4, <1>5, <1>8, <1>9 DEF Handles
<1>11. Follows(v, s, a) /\ InstallShrinks
    BY <1>3, <1>5, SameInstall DEF Follows
<1>12. QED
    BY <1>1, <1>3, <1>6, <1>7, <1>10, <1>11 DEF Phase, Commits

LEMMA PhaseOnCommitCert ==
    ASSUME OneChange, AgreeInv, NEW m \in net, OnCommitCert(m)
    PROVE  Phase
<1> DEFINE r == m.to
           v == m.view
           s == m.seq
           a == m.req
<1>0. TypeInv /\ LogsInv /\ TypeInv' /\ CertsInv
    BY TypeOnCommitCert DEF AgreeInv
<1>1. /\ m.type = "COMMIT_CERT" /\ v = view[r] /\ log[r][s].req = a
      /\ TryExecute(r, [log[r] EXCEPT ![s].commitCert = TRUE])
      /\ net' = net \ {m}
      /\ waiting' = waiting /\ UNCHANGED viewVars
    BY DEF OnCommitCert, AcceptsCert
<1>2. r \in Replica /\ v \in View /\ v <= view[r] /\ s \in SeqNo /\ a \in Request /\ a # NoRequest
    <2>1. m \in Message
        BY <1>0 DEF TypeInv, TypeOK
    <2>2. r \in Replica /\ v \in View /\ s \in SeqNo /\ a \in Request
        BY <2>1, MessageFields
    <2>3. QED
        BY <1>1, <2>2, TwoViews, RequestFields
<1>3. Known(v, s, a) /\ Prepared(v, s, a)
    BY <1>0, <1>1, <1>2 DEF Known, Early, Again, CertsInv, CertTypes
<1>4. /\ view' = view /\ viewChanges' = viewChanges /\ newViews' = newViews /\ nextSeq' = nextSeq
      /\ install' = install
    BY <1>1 DEF viewVars
<1> HIDE DEF r, v, s, a
<1>5. PICK to : Runs(r, s, to)
    BY <1>0, <1>1, <1>2, ExecuteRuns
<1>6. \A q \in Replica : \A g \in SeqNo : log'[q][g].req = log[q][g].req
    BY <1>5 DEF Runs
<1>7. \A n \in net : Counted(n) => n \in net'
    BY <1>1 DEF Counted
<1>8. Handles(r, v, s, a)
    BY <1>1, <1>2, <1>3, <1>4, <1>6, <1>7 DEF Handles
<1>9. Follows(v, s, a) /\ InstallShrinks
    BY <1>3, <1>4, SameInstall DEF Follows
<1>10. QED
    BY <1>1, <1>3, <1>5, <1>8, <1>9 DEF Phase, Commits

LEMMA PhaseDrop ==
    ASSUME OneChange, AgreeInv, NEW m \in net, Drop(m)
    PROVE  Phase
<1> DEFINE v == m.view
           s == m.seq
           a == m.req
<1>0. TypeInv /\ ViewsInv /\ ProposalsInv /\ TypeInv' /\ net \subseteq Message /\ view \in [Replica -> View]
    BY TypeDrop DEF AgreeInv, TypeInv, TypeOK
<1>1. TooEarly(m) /\ net' = net \ {m} /\ log' = log /\ waiting' = waiting
      /\ UNCHANGED execVars /\ UNCHANGED viewVars
    BY DEF Drop
<1>2. /\ m.to \in Replica /\ v \in {0, 1} /\ v \in View /\ s \in SeqNo /\ a \in Request /\ a # NoRequest
      /\ view[m.to] \in {0, 1} /\ OldLeader \in Replica /\ NewLeader \in Replica
    <2>1. m.to \in Replica /\ v \in View /\ s \in SeqNo /\ a \in Request
        BY <1>0, MessageFields
    <2>2. QED
        BY <1>0, <2>1, RequestFields, TwoViews
<1>3. Known(v, s, a)
    BY <1>2 DEF Known, Early, Again
<1>4. PICK r \in Replica : v <= view[r]
    <2>1. CASE v = 0
        BY <1>2, <2>1
    <2>2. CASE v = 1
        BY <1>0, <1>2, <2>2 DEF ViewsInv
    <2>3. QED
        BY <1>2, <2>1, <2>2
<1>5. ~Counted(m)
    <2>1. SUFFICES ASSUME Counted(m) PROVE FALSE
        OBVIOUS
    <2>2. m.type = "PREPARE" /\ v >= view[m.to] /\ ~CountsVote(m)
        BY <1>1, <2>1 DEF TooEarly, Counted
    <2>3. CASE v = 0 /\ m.to = OldLeader
        <3>1. view[OldLeader] = 0 /\ IsPrimary(OldLeader)
            BY <1>2, <2>2, <2>3 DEF IsPrimary, Primary, OldLeader
        <3>2. Early(s, a)
            BY <1>3, <2>3 DEF Known
        <3>3. s < nextSeq[OldLeader]
            BY <1>0, <1>2, <3>1, <3>2 DEF ProposalsInv
        <3>4. log[OldLeader][s].req # NoRequest
            BY <1>0, <1>2, <3>1, <3>3 DEF ProposalsInv
        <3>5. log[OldLeader][s].req \in Request
            BY <1>0, <1>2, <3>4, SlotType DEF TypeInv
        <3>6. Early(s, log[OldLeader][s].req)
            BY <1>2, <3>1 DEF Early
        <3>7. log[OldLeader][s].req = a
            BY <1>0, <1>2, <3>2, <3>5, <3>6 DEF ProposalsInv
        <3>8. QED
            BY <2>2, <2>3, <3>1, <3>7 DEF CountsVote
    <2>4. CASE v = 1 /\ m.to = NewLeader /\ log[NewLeader][s].req = a
        <3>1. view[NewLeader] = 1
            BY <1>0, <2>4 DEF ViewsInv
        <3>2. IsPrimary(NewLeader)
            BY <3>1 DEF IsPrimary, Primary, NewLeader
        <3>3. QED
            BY <2>2, <2>4, <3>1, <3>2 DEF CountsVote
    <2>5. QED
        BY <2>1, <2>3, <2>4 DEF Counted
<1>6. /\ view' = view /\ viewChanges' = viewChanges /\ newViews' = newViews /\ nextSeq' = nextSeq
      /\ install' = install /\ execSeq' = execSeq /\ datastore' = datastore
    BY <1>1 DEF execVars, viewVars
<1> HIDE DEF v, s, a
<1>7. \A n \in net : Counted(n) => n \in net'
    BY <1>1, <1>5
<1>8. Handles(r, v, s, a)
    BY <1>1, <1>2, <1>4, <1>6, <1>7 DEF Handles
<1>9. Follows(v, s, a) /\ Stays /\ clientTS' = clientTS /\ InstallShrinks
    BY <1>1, <1>3, <1>6, SameInstall DEF Follows, Stays, execVars
<1>10. QED
    BY <1>8, <1>9 DEF Phase, Quiet

LEMMA LeadsStartConsensus ==
    ASSUME OneChange, AgreeInv, NEW r \in Replica, NEW a \in Request, StartConsensus(r, a)
    PROVE  Leads(r, nextSeq[r], a)
<1> DEFINE v == view[r]
           s == nextSeq[r]
<1>0. TypeInv /\ ViewsInv /\ ProposalsInv /\ TypeInv' /\ view \in [Replica -> View]
    BY TypeStartConsensus DEF AgreeInv, TypeInv, TypeOK
<1>1. /\ IsPrimary(r) /\ s \in SeqNo
      /\ nextSeq' = [nextSeq EXCEPT ![r] = s + 1]
      /\ log' = [log EXCEPT ![r][s].req = a]
      /\ net' = net \cup Broadcast("PRE_PREPARE", r, v, s, a) \cup {Vote("PREPARE", r, v, s, a)}
      /\ UNCHANGED execVars /\ UNCHANGED <<view, viewChanges, newViews, install, waiting>>
    BY DEF StartConsensus
<1>2. /\ v \in {0, 1} /\ v \in View /\ v <= view[r] /\ v = view[r] /\ a # NoRequest /\ r = LeaderOf[v]
      /\ s = nextSeq[r]
    <2>1. v \in View /\ v \in {0, 1}
        BY <1>0, TwoViews
    <2>2. r = LeaderOf[v]
        BY <1>1 DEF IsPrimary, Primary
    <2>3. QED
        BY <2>1, <2>2, RequestFields
<1>3. execSeq' = execSeq /\ datastore' = datastore
    BY <1>1 DEF execVars
<1> HIDE DEF v, s
<1>4. /\ log'[r][s].req = a
      /\ \A q \in Replica : \A g \in SeqNo :
            /\ ~(q = r /\ g = s) => log'[q][g].req = log[q][g].req
            /\ log'[q][g].executed = log[q][g].executed
            /\ log'[q][g].commitCert = log[q][g].commitCert
    <2>1. SetsRequest(r, s, a)
        BY <1>1 DEF SetsRequest
    <2>2. QED
        BY <1>0, <1>1, <2>1, SetRequestIs
<1>5. v = 1 => r = NewLeader
    BY <1>2 DEF NewLeader
<1>6. MayLog(r, v, s, a)
    <2>1. CASE v = 0
        <3>1. r = OldLeader /\ view[OldLeader] = 0 /\ s = nextSeq[OldLeader] /\ s \in Int
            BY <1>1, <1>2, <2>1 DEF OldLeader, SeqNo
        <3>2. log[r][s].req = NoRequest
            <4>1. SUFFICES ASSUME log[r][s].req # NoRequest PROVE FALSE
                OBVIOUS
            <4>2. log[r][s].req \in Request
                BY <1>0, <1>1, <4>1, SlotType DEF TypeInv
            <4>3. Early(s, log[r][s].req)
                BY <3>1 DEF Early
            <4>4. QED
                BY <1>0, <1>1, <3>1, <4>2, <4>3 DEF ProposalsInv
        <3>3. \A g \in SeqNo : g < s => log[r][g].req # NoRequest
            BY <1>0, <3>1 DEF ProposalsInv
        <3>4. QED
            BY <1>2, <3>2, <3>3 DEF MayLog
    <2>2. CASE v = 1
        BY <1>2, <1>5, <2>2 DEF MayLog
    <2>3. QED
        BY <1>2, <2>1, <2>2
<1>7. v = 1 => MayVoteAgain(r, s, a)
    BY <1>5 DEF MayVoteAgain
<1>8. ASSUME NEW n \in net', n \notin net
      PROVE  /\ n.view = v /\ n.seq = s /\ n.req = a
             /\ n.type \notin CertTypes
             /\ n.type = "PREPARE" => n.from = r /\ n.to = LeaderOf[view[r]]
    BY <1>1, <1>8, VoteIs, BroadcastIs DEF CertTypes
<1>9. Handles(r, v, s, a)
    BY <1>1, <1>2, <1>4, <1>6, <1>7, <1>8 DEF Handles
<1>10. Proposes(r, v, s, a)
    BY <1>1, <1>2, <1>4 DEF Proposes
<1>11. Stays /\ InstallShrinks /\ clientTS' = clientTS
    BY <1>1, <1>3, <1>4, SameInstall DEF Stays, execVars
<1>12. QED
    BY <1>2, <1>6, <1>9, <1>10, <1>11 DEF Leads

LEMMA HeadIn ==
    ASSUME NEW S, NEW q \in Seq(S), q # <<>>
    PROVE  Head(q) \in ToSet(q) /\ ToSet(Tail(q)) \subseteq ToSet(q)
<1>1. Len(q) \in Nat /\ DOMAIN q = 1 .. Len(q) /\ Len(q) > 0 /\ Head(q) = q[1]
    OBVIOUS
<1>2. Head(q) \in ToSet(q)
    BY <1>1 DEF ToSet
<1>3. Len(Tail(q)) = Len(q) - 1 /\ DOMAIN Tail(q) = 1 .. Len(q) - 1
      /\ \A i \in 1 .. Len(q) - 1 : Tail(q)[i] = q[i + 1]
    OBVIOUS
<1>4. ToSet(Tail(q)) \subseteq ToSet(q)
    BY <1>1, <1>3 DEF ToSet
<1>5. QED
    BY <1>2, <1>4

\* A step that touches nothing agreement is about.
LEMMA AgreeIdle ==
    ASSUME OneChange, AgreeInv, TypeInv', InstallShrinks,
           UNCHANGED <<view, nextSeq, execSeq, log, datastore, waiting, viewChanges, newViews, net>>
    PROVE  AgreeInv'
<1>1. \A g, a : Early(g, a)' <=> Early(g, a)
    BY DEF Early
<1>2. \A g, a : Again(g, a)' <=> Again(g, a)
    BY DEF Again, Renewed
<1>3. \A p, v, s, a : Voted(p, v, s, a)' <=> Voted(p, v, s, a)
    BY DEF Voted
<1>4. \A v, s, a : Prepared(v, s, a)' <=> Prepared(v, s, a)
    BY <1>3 DEF Prepared, Quorum, NewLeader
<1>5. \A s, a : Sound(s, a)' <=> Sound(s, a)
    BY <1>3, <1>4 DEF Sound, LateAt, Covers
<1>6. ViewsInv'
    <2>1. ViewsInv /\ 1 \in View
        BY TwoViews DEF AgreeInv
    <2>2. \A r \in Replica : \A v \in View : install'[r][v] # <<>> => v = 1 /\ view'[r] = 1
        BY <2>1 DEF ViewsInv, InstallShrinks
    <2>3. \A r \in Replica : \A p \in ToSet(install'[r][1]) : Renewed(p.seq, p.req)'
        BY <2>1, RenewedStays DEF ViewsInv, InstallShrinks
    <2>4. QED
        BY <2>1, <2>2, <2>3 DEF ViewsInv, NewLeader
<1>7. ProposalsInv'
    BY <1>1, <1>2 DEF AgreeInv, ProposalsInv, OldLeader, NewLeader
<1>8. LogsInv'
    BY DEF AgreeInv, LogsInv
<1>9. ViewChangesInv' /\ RenewalInv'
    BY ViewChangesStay DEF AgreeInv
<1>10. KeptInv'
    BY <1>1, <1>3 DEF AgreeInv, KeptInv, Kept, VotesAgain, Renewed, NewLeader
<1>11. CertsInv'
    BY <1>4 DEF AgreeInv, CertsInv, CertTypes
<1>12. ExecutionInv'
    BY <1>4, <1>5 DEF AgreeInv, ExecutionInv, Blocked, NewLeader
<1>13. QED
    BY <1>6, <1>7, <1>8, <1>9, <1>10, <1>11, <1>12 DEF AgreeInv

LEMMA PhaseAcceptNewViewPrePrepare ==
    ASSUME OneChange, AgreeInv, NEW r \in Replica, NEW w \in View, AcceptNewViewPrePrepare(r, w)
    PROVE  Phase \/ Idle
<1> DEFINE p == Head(install[r][w])
           s == p.seq
           a == p.req
<1>0. /\ TypeInv /\ ViewsInv /\ TypeInv'
      /\ install \in [Replica -> [View -> Seq(PrePrepare)]]
    BY TypeAcceptNewViewPrePrepare DEF AgreeInv, TypeInv, TypeOK
<1>1. /\ install[r][w] # <<>>
      /\ install' = [install EXCEPT ![r][w] = Tail(@)]
      /\ \/ UNCHANGED slotVars
         \/ /\ log[r][s].req # a
            /\ log' = [log EXCEPT ![r][s].req = a]
            /\ \/ /\ net' \subseteq net \cup {Vote("PREPARE", r, w, s, a)}
                  /\ net \subseteq net'
                  /\ UNCHANGED waiting
               \/ ProcessPrePrepare(r, w, s, a, w, net)
      /\ UNCHANGED <<view, nextSeq, viewChanges, newViews>> /\ UNCHANGED execVars
    <2>1. /\ install[r][w] # <<>>
          /\ install' = [install EXCEPT ![r][w] = Tail(@)]
          /\ UNCHANGED <<view, nextSeq, viewChanges, newViews>> /\ UNCHANGED execVars
        BY DEF AcceptNewViewPrePrepare
    <2>2. CASE ~GapClear(r, s) \/ log[r][s].req = a
        BY <2>1, <2>2 DEF AcceptNewViewPrePrepare
    <2>3. CASE ~(~GapClear(r, s) \/ log[r][s].req = a)
        <3>1. /\ log' = [log EXCEPT ![r][s].req = a]
              /\ IF IsPrimary(r)
                 THEN IF CanAcquire(r, a)
                      THEN /\ net' = net \cup IF FreshAndFunded(r, a)
                                              THEN {Vote("PREPARE", r, w, s, a)} ELSE {}
                           /\ UNCHANGED waiting
                      ELSE UNCHANGED <<waiting, net>>
                 ELSE ProcessPrePrepare(r, w, s, a, w, net)
            BY <2>3 DEF AcceptNewViewPrePrepare
        <3>2. \/ /\ net' \subseteq net \cup {Vote("PREPARE", r, w, s, a)}
                 /\ net \subseteq net'
                 /\ UNCHANGED waiting
              \/ ProcessPrePrepare(r, w, s, a, w, net)
            <4> HIDE DEF p, s, a
            <4>1. QED
                BY <3>1
        <3>3. QED
            BY <2>1, <2>3, <3>1, <3>2
    <2>4. QED
        BY <2>2, <2>3
<1>2. w = 1 /\ view[r] = 1 /\ w <= view[r] /\ w = view[r]
    <2>1. install[r][w] # <<>>
        BY <1>1
    <2>2. w = 1 /\ view[r] = 1
        BY <1>0, <2>1 DEF ViewsInv
    <2>3. QED
        BY <2>2
<1>3. /\ p \in PrePrepare /\ s \in SeqNo /\ a \in Request /\ a # NoRequest
      /\ p \in ToSet(install[r][w])
      /\ ToSet(Tail(install[r][w])) \subseteq ToSet(install[r][w])
    <2>1. install[r][w] \in Seq(PrePrepare)
        BY <1>0
    <2>2. p \in PrePrepare
        BY <1>1, <2>1, HeadAndTail
    <2>3. p \in ToSet(install[r][w]) /\ ToSet(Tail(install[r][w])) \subseteq ToSet(install[r][w])
        BY <1>1, <2>1, HeadIn
    <2>4. QED
        BY <2>2, <2>3, RequestFields DEF PrePrepare
<1>4. Renewed(s, a)
    BY <1>0, <1>2, <1>3 DEF ViewsInv
<1>5. InstallShrinks
    <2>1. /\ install'[r][w] = Tail(install[r][w])
          /\ \A q \in Replica : \A u \in View : ~(q = r /\ u = w) => install'[q][u] = install[q][u]
        BY <1>0, <1>1
    <2>2. ToSet(install'[r][w]) \subseteq ToSet(install[r][w])
        BY <1>3, <2>1
    <2>3. QED
        BY <1>1, <2>1, <2>2 DEF InstallShrinks
<1>6. execSeq' = execSeq /\ datastore' = datastore
    BY <1>1 DEF execVars
<1> HIDE DEF p, s, a
<1>7. CASE UNCHANGED slotVars
    BY <1>1, <1>5, <1>7 DEF Idle, slotVars
<1>8. CASE /\ log[r][s].req # a
           /\ log' = [log EXCEPT ![r][s].req = a]
           /\ \/ /\ net' \subseteq net \cup {Vote("PREPARE", r, w, s, a)}
                 /\ net \subseteq net'
                 /\ UNCHANGED waiting
              \/ ProcessPrePrepare(r, w, s, a, w, net)
    <2>1. /\ \A n \in net' : n \in net \/ n = Vote("PREPARE", r, w, s, a)
          /\ net \subseteq net'
          /\ \A q \in Replica : \A t \in waiting'[q] :
                t \in waiting[q] \/ (q = r /\ t.view = w /\ t.seq = s /\ t.req = a)
        <3>1. CASE ProcessPrePrepare(r, w, s, a, w, net)
            BY <1>0, <3>1, ProcessIs
        <3>2. CASE /\ net' \subseteq net \cup {Vote("PREPARE", r, w, s, a)}
                   /\ net \subseteq net'
                   /\ UNCHANGED waiting
            BY <3>2
        <3>3. QED
            BY <1>8, <3>1, <3>2
    <2>2. /\ log'[r][s].req = a
          /\ \A q \in Replica : \A g \in SeqNo :
                /\ ~(q = r /\ g = s) => log'[q][g].req = log[q][g].req
                /\ log'[q][g].executed = log[q][g].executed
                /\ log'[q][g].commitCert = log[q][g].commitCert
        <3>1. TypeInv /\ r \in Replica /\ s \in SeqNo
            BY <1>0, <1>3
        <3>2. SetsRequest(r, s, a)
            BY <1>8 DEF SetsRequest
        <3>3. QED
            BY <3>1, <3>2, SetRequestIs
    <2>3. MayLog(r, w, s, a) /\ MayVoteAgain(r, s, a)
        BY <1>2, <1>4, <1>8 DEF MayLog, MayVoteAgain
    <2>4. ASSUME NEW n \in net', n \notin net
          PROVE  /\ n.view = w /\ n.seq = s /\ n.req = a
                 /\ n.type = "PREPARE" /\ n.from = r /\ n.to = LeaderOf[view[r]]
        BY <2>1, <2>4, VoteIs
    <2>5. Handles(r, w, s, a)
        BY <1>1, <1>2, <1>3, <2>1, <2>2, <2>3, <2>4 DEF Handles, CertTypes
    <2>6. Follows(w, s, a) /\ Stays /\ clientTS' = clientTS
        BY <1>1, <1>2, <1>4, <1>6, <2>2 DEF Follows, Known, Again, Stays, execVars
    <2>7. QED
        BY <1>5, <2>5, <2>6 DEF Phase, Quiet
<1>9. QED
    BY <1>1, <1>7, <1>8

-----------------------------------------------------------------------------
(***************************************************************************)
(* Steps that change views.                                                *)
(***************************************************************************)
\* Replicas enter view 1 or send VIEW-CHANGE about the log they have in view 0.
Moves ==
    /\ log' = log /\ net' = net /\ waiting' = waiting
    /\ execSeq' = execSeq /\ datastore' = datastore
    /\ \A q \in Replica :
        /\ view'[q] = view[q] \/ (view[q] = 0 /\ view'[q] = 1)
        /\ nextSeq[q] <= nextSeq'[q]
        /\ view'[q] = view[q] => nextSeq'[q] = nextSeq[q]
    /\ viewChanges \subseteq viewChanges' /\ newViews \subseteq newViews'
    /\ \A m \in viewChanges' : m \in viewChanges \/
        \A d \in m.prepared : \E q \in Replica : view[q] = 0 /\ log[q][d.seq].req = d.req

LEMMA EarlyMoved ==
    ASSUME Moves, NEW g \in SeqNo, NEW a, Early(g, a)'
    PROVE  Early(g, a)
<1>1. CASE \E q \in Replica : view'[q] = 0 /\ log'[q][g].req = a
    BY <1>1 DEF Moves, Early
<1>2. CASE \E m \in net' : m.view = 0 /\ m.seq = g /\ m.req = a
    BY <1>2 DEF Moves, Early
<1>3. CASE \E q \in Replica : \E t \in waiting'[q] : t.view = 0 /\ t.seq = g /\ t.req = a
    BY <1>3 DEF Moves, Early
<1>4. CASE \E m \in viewChanges' : \E d \in m.prepared : d.seq = g /\ d.req = a
    BY <1>4 DEF Moves, Early
<1>5. QED
    BY <1>1, <1>2, <1>3, <1>4 DEF Early

LEMMA RenewedMoved == ASSUME Moves, NEW g, NEW a, Renewed(g, a) PROVE Renewed(g, a)'
BY DEF Moves, Renewed

LEMMA SoundMoved ==
    ASSUME Moves
    PROVE  /\ \A p, v, s, a : Voted(p, v, s, a)' <=> Voted(p, v, s, a)
           /\ \A v, s, a : Prepared(v, s, a)' <=> Prepared(v, s, a)
           /\ \A s : LateAt(s) => LateAt(s)'
           /\ \A s, a : Sound(s, a) => Sound(s, a)'
<1>1. \A p, v, s, a : Voted(p, v, s, a)' <=> Voted(p, v, s, a)
    BY DEF Voted, Moves
<1>2. \A v, s, a : Prepared(v, s, a)' <=> Prepared(v, s, a)
    BY <1>1 DEF Prepared, Quorum, NewLeader, Moves
<1>3. \A s : LateAt(s) => LateAt(s)'
    BY <1>1 DEF LateAt, Covers, Moves
<1>4. \A s, a : Sound(s, a) => Sound(s, a)'
    BY <1>2, <1>3 DEF Sound
<1>5. QED
    BY <1>1, <1>2, <1>3, <1>4

LEMMA Moved ==
    ASSUME OneChange, AgreeInv, TypeInv', Moves, ViewsInv', ViewChangesInv', RenewalInv',
           \A g \in SeqNo : \A a, b \in Request : Again(g, a)' /\ Again(g, b)' => a = b,
           \A g \in SeqNo : \A a \in Request : Again(g, a)' => g < nextSeq'[NewLeader]
    PROVE  AgreeInv'
<1>0. /\ TypeInv /\ ViewsInv /\ ProposalsInv /\ LogsInv /\ KeptInv /\ CertsInv /\ ExecutionInv
      /\ OldLeader \in Replica /\ NewLeader \in Replica
    BY TwoViews DEF AgreeInv
<1>1. ProposalsInv'
    <2>1. \A g \in SeqNo : \A a, b \in Request : Early(g, a)' /\ Early(g, b)' => a = b
        BY <1>0, EarlyMoved DEF ProposalsInv
    <2>2. view'[OldLeader] = 0 =>
        /\ \A g \in SeqNo : \A a \in Request : Early(g, a)' => g < nextSeq'[OldLeader]
        /\ \A g \in SeqNo : g < nextSeq'[OldLeader] => log'[OldLeader][g].req # NoRequest
        <3>1. SUFFICES ASSUME view'[OldLeader] = 0
                       PROVE  /\ \A g \in SeqNo : \A a \in Request : Early(g, a)' => g < nextSeq'[OldLeader]
                              /\ \A g \in SeqNo : g < nextSeq'[OldLeader] => log'[OldLeader][g].req # NoRequest
            OBVIOUS
        <3>2. view[OldLeader] = 0 /\ nextSeq'[OldLeader] = nextSeq[OldLeader] /\ log' = log
            BY <1>0, <3>1 DEF Moves
        <3>3. QED
            BY <1>0, <3>2, EarlyMoved DEF ProposalsInv
    <2>3. QED
        BY <2>1, <2>2 DEF ProposalsInv, OldLeader, NewLeader
<1>2. LogsInv'
    BY <1>0 DEF LogsInv, Moves
<1>3. KeptInv'
    <2>1. \A p \in Replica : \A s, g \in SeqNo : \A a \in Request :
            Voted(p, 0, s, a)' /\ g <= s => log'[p][g].req # NoRequest
        BY <1>0, SoundMoved DEF KeptInv, Moves
    <2>2. ASSUME NEW p \in Replica, NEW g \in SeqNo, Kept(p, g)'
          PROVE  /\ \A a \in Request : Early(g, a)' =>
                      log'[p][g].req = a \/ \E b \in Request : b # a /\ Renewed(g, b)'
                 /\ \A b \in Request : VotesAgain(p, g, b)' => Renewed(g, b)' /\ ~Early(g, b)'
        <3>1. Kept(p, g)
            BY <2>2, SoundMoved DEF Kept, NewLeader
        <3>2. \A b \in Request : VotesAgain(p, g, b)' => VotesAgain(p, g, b)
            BY DEF VotesAgain, Moves
        <3>3. log' = log
            BY DEF Moves
        <3>4. QED
            BY <1>0, <3>1, <3>2, <3>3, EarlyMoved, RenewedMoved DEF KeptInv
    <2>3. QED
        BY <2>1, <2>2 DEF KeptInv
<1>4. CertsInv'
    BY <1>0, SoundMoved DEF CertsInv, CertTypes, Moves
<1>5. ExecutionInv'
    <2>1. \A r \in Replica : \A s \in SeqNo : Blocked(r, s) => Blocked(r, s)'
        BY SoundMoved DEF Blocked, NewLeader, Moves
    <2>2. \A s, a : Sound(s, a) => Sound(s, a)'
        BY SoundMoved
    <2>3. log' = log /\ datastore' = datastore
        BY DEF Moves
    <2>4. QED
        BY <1>0, <2>1, <2>2, <2>3 DEF ExecutionInv
<1>6. QED
    BY <1>1, <1>2, <1>3, <1>4, <1>5 DEF AgreeInv

\* A replica that enters view 1.
LEMMA EnterIs ==
    ASSUME OneChange, TypeInv, NEW r \in Replica,
           NEW nv \in [view : View, prePrepares : Seq(PrePrepare)], EnterView(r, nv),
           view[r] = 0, nv.view = 1
    PROVE  /\ view'[r] = 1
           /\ \A q \in Replica : q # r => view'[q] = view[q] /\ nextSeq'[q] = nextSeq[q]
           /\ nextSeq[r] <= nextSeq'[r]
           /\ \A p \in ToSet(nv.prePrepares) : p.seq < nextSeq'[r]
           /\ install'[r][1] = nv.prePrepares
           /\ \A q \in Replica : \A w \in View : ~(q = r /\ w = 1) => install'[q][w] = install[q][w]
<1> DEFINE highest == HighestSeq(ToSet(nv.prePrepares), 0)
<1>0. /\ MaxSeq \in Nat /\ nextSeq \in [Replica -> 1 .. MaxSeq + 1] /\ view \in [Replica -> View]
      /\ install \in [Replica -> [View -> Seq(PrePrepare)]] /\ 1 \in View
    BY RequestAssumption, TwoViews DEF TypeInv, TypeOK
<1>1. \A p \in ToSet(nv.prePrepares) : p.seq \in SeqNo
    <2>1. nv.prePrepares \in Seq(PrePrepare)
        OBVIOUS
    <2>2. ToSet(nv.prePrepares) \subseteq PrePrepare
        BY <2>1, SequenceOver DEF ToSet
    <2>3. QED
        BY <2>2 DEF PrePrepare
<1>2. 0 \in 0 .. MaxSeq
    BY <1>0
<1>3. highest \in 0 .. MaxSeq /\ \A p \in ToSet(nv.prePrepares) : p.seq <= highest
    BY <1>1, <1>2, HighestIs
<1>4. /\ view' = [view EXCEPT ![r] = 1]
      /\ nextSeq' = [nextSeq EXCEPT ![r] = IF highest >= @ THEN highest + 1 ELSE @]
      /\ install' = [install EXCEPT ![r][1] = nv.prePrepares]
    BY DEF EnterView
<1> HIDE DEF highest
<1>5. nextSeq'[r] = IF highest >= nextSeq[r] THEN highest + 1 ELSE nextSeq[r]
    BY <1>0, <1>4
<1>6. nextSeq[r] <= nextSeq'[r] /\ \A p \in ToSet(nv.prePrepares) : p.seq < nextSeq'[r]
    <2>1. nextSeq[r] \in Int /\ highest \in Int /\ highest < nextSeq'[r] /\ nextSeq[r] <= nextSeq'[r]
        BY <1>0, <1>3, <1>5
    <2>2. nextSeq'[r] \in Int
        BY <2>1, <1>5
    <2>3. \A p \in ToSet(nv.prePrepares) : p.seq \in Int
        BY <1>1 DEF SeqNo
    <2>4. QED
        BY <1>3, <2>1, <2>2, <2>3
<1>7. QED
    BY <1>0, <1>4, <1>6

LEMMA AgreeOnNewView ==
    ASSUME OneChange, AgreeInv, NEW r \in Replica, NEW nv \in newViews, OnNewView(r, nv)
    PROVE  AgreeInv'
<1>0. /\ TypeInv /\ ViewsInv /\ ProposalsInv /\ ViewChangesInv /\ RenewalInv /\ TypeInv'
      /\ view \in [Replica -> View]
      /\ nv \in [view : View, prePrepares : Seq(PrePrepare)]
      /\ View = {0, 1} /\ NewLeader \in Replica
    BY TypeOnNewView, TwoViews DEF AgreeInv, TypeInv, TypeOK, NewViewsTyped
<1>1. /\ nv.view > view[r] /\ EnterView(r, nv)
      /\ UNCHANGED slotVars /\ UNCHANGED execVars /\ UNCHANGED <<vcLog, viewChanges, newViews>>
    BY DEF OnNewView
<1>2. nv.view = 1 /\ view[r] = 0
    BY <1>0, <1>1 DEF ViewsInv
<1>3. /\ view'[r] = 1
      /\ \A q \in Replica : q # r => view'[q] = view[q] /\ nextSeq'[q] = nextSeq[q]
      /\ nextSeq[r] <= nextSeq'[r]
      /\ install'[r][1] = nv.prePrepares
      /\ \A q \in Replica : \A w \in View : ~(q = r /\ w = 1) => install'[q][w] = install[q][w]
    BY <1>0, <1>1, <1>2, EnterIs
<1>4. /\ log' = log /\ net' = net /\ waiting' = waiting
      /\ execSeq' = execSeq /\ datastore' = datastore
      /\ viewChanges' = viewChanges /\ newViews' = newViews
    BY <1>1 DEF slotVars, execVars
<1>5. Moves
    <2>1. \A q \in Replica :
            /\ view'[q] = view[q] \/ (view[q] = 0 /\ view'[q] = 1)
            /\ nextSeq[q] <= nextSeq'[q]
            /\ view'[q] = view[q] => nextSeq'[q] = nextSeq[q]
        <3>1. \A q \in Replica : nextSeq[q] \in Int
            BY <1>0 DEF TypeInv, TypeOK
        <3>2. QED
            BY <1>2, <1>3, <3>1
    <2>2. QED
        BY <1>4, <2>1 DEF Moves
<1>6. ViewChangesInv' /\ RenewalInv'
    BY <1>0, <1>4, ViewChangesStay
<1>7. \A g, a : Renewed(g, a)' <=> Renewed(g, a)
    BY <1>4 DEF Renewed
<1>8. ViewsInv'
    <2>1. newViews' # {} /\ view'[NewLeader] = 1
        BY <1>0, <1>3, <1>4 DEF ViewsInv
    <2>2. \A m \in net' : m.type = "PREPARE" => m.view <= view'[m.from]
        <3>1. ASSUME NEW m \in net, m.type = "PREPARE" PROVE m.view <= view'[m.from]
            <4>1. m \in Message
                BY <1>0 DEF TypeInv, TypeOK
            <4>2. m.from \in Replica /\ m.view \in {0, 1}
                BY <1>0, <3>1, <4>1, MessageFields
            <4>3. m.view <= view[m.from]
                BY <1>0, <3>1 DEF ViewsInv
            <4>4. QED
                BY <1>2, <1>3, <4>2, <4>3
        <3>2. QED
            BY <1>4, <3>1
    <2>3. \A q \in Replica : \A t \in waiting'[q] : t.view <= view'[q]
        <3>1. ASSUME NEW q \in Replica, NEW t \in waiting[q] PROVE t.view <= view'[q]
            <4>0. t.view \in {0, 1}
                <5>1. t \in [view : View, seq : SeqNo, req : Request, nv : View]
                    BY <1>0, <3>1 DEF TypeInv, TypeOK
                <5>2. QED
                    BY <1>0, <5>1
            <4>1. t.view \in {0, 1} /\ t.view <= view[q]
                BY <1>0, <4>0 DEF ViewsInv
            <4>2. QED
                BY <1>2, <1>3, <4>1
        <3>2. QED
            BY <1>4, <3>1
    <2>4. \A q \in Replica : \A w \in View : install'[q][w] # <<>> => w = 1 /\ view'[q] = 1
        BY <1>0, <1>2, <1>3 DEF ViewsInv
    <2>5. \A q \in Replica : \A p \in ToSet(install'[q][1]) : Renewed(p.seq, p.req)'
        <3>1. \A p \in ToSet(nv.prePrepares) : Renewed(p.seq, p.req)
            BY DEF Renewed
        <3>2. \A q \in Replica : q # r => install'[q][1] = install[q][1]
            BY <1>0, <1>3
        <3>3. QED
            BY <1>0, <1>3, <1>7, <3>1, <3>2 DEF ViewsInv
    <2>6. QED
        BY <1>0, <1>4, <2>1, <2>2, <2>3, <2>4, <2>5 DEF ViewsInv, NewLeader
<1>9. \A g \in SeqNo : \A a \in Request : Again(g, a)' <=> Again(g, a)
    BY <1>4, <1>7 DEF Again
<1>10. r # NewLeader
    BY <1>0, <1>2 DEF ViewsInv
<1>11. \A g \in SeqNo : \A a, b \in Request : Again(g, a)' /\ Again(g, b)' => a = b
    BY <1>0, <1>9 DEF ProposalsInv
<1>12. \A g \in SeqNo : \A a \in Request : Again(g, a)' => g < nextSeq'[NewLeader]
    BY <1>0, <1>3, <1>9, <1>10 DEF ProposalsInv
<1>13. QED
    BY <1>0, <1>5, <1>6, <1>8, <1>11, <1>12, Moved

-----------------------------------------------------------------------------
(***************************************************************************)
(* The NEW-VIEW that is built in view 0.                                    *)
(***************************************************************************)
\* Every slot that the walk meets is taken over in some form.
LEMMA ChosenCovers ==
    ASSUME NEW S, Recordable(S), \A m \in S : \A d \in m.prepared : d.view = 0,
           NEW order \in SetToSeqs(S), NEW e \in Entries(order)
    PROVE  \E c \in Chosen(order) : c.seq = e.entry.seq
<1> DEFINE Same == {d \in Entries(order) : d.entry.seq = e.entry.seq}
           Places == {d.at : d \in Same}
<1>1. Len(order) \in Nat /\ DOMAIN order = 1 .. Len(order)
    BY SequencesOf DEF Recordable
<1>2. \A d \in Entries(order) : d.at \in 1 .. Len(order) /\ d.entry.view = 0
    BY <1>1, EntriesAre
<1>3. Places \subseteq 0 .. Len(order) /\ Places # {}
    <2>1. e \in Same
        OBVIOUS
    <2>2. 1 .. Len(order) \subseteq 0 .. Len(order)
        BY <1>1
    <2>3. QED
        BY <1>2, <2>1, <2>2
<1>4. PICK last \in Places : \A k \in Places : k <= last
    BY <1>1, <1>3, LargestOf
<1>5. PICK d \in Same : d.at = last
    BY <1>4
<1>6. \A c \in Entries(order) : c.entry.seq = d.entry.seq =>
                \/ c.entry.view < d.entry.view
                \/ c.entry.view = d.entry.view /\ c.at <= d.at
    BY <1>2, <1>4, <1>5
<1>7. [seq |-> d.entry.seq, req |-> d.entry.req] \in Chosen(order)
    BY <1>5, <1>6 DEF Chosen
<1>8. QED
    BY <1>5, <1>7

LEMMA ElementsOfJoin ==
    ASSUME NEW S, NEW T, NEW s \in Seq(S), NEW t \in Seq(T), NEW p \in ToSet(s \o t)
    PROVE  (\E k \in 1 .. Len(s) : p = s[k]) \/ (\E k \in 1 .. Len(t) : p = t[k])
<1>1. s \in Seq(S \cup T) /\ t \in Seq(S \cup T)
    BY SequenceOver
<1>2. Len(s) \in Nat /\ Len(t) \in Nat
    BY SequenceOver
<1>3. /\ Len(s \o t) = Len(s) + Len(t)
      /\ DOMAIN (s \o t) = 1 .. Len(s) + Len(t)
      /\ \A k \in 1 .. Len(s) + Len(t) :
            (s \o t)[k] = IF k <= Len(s) THEN s[k] ELSE t[k - Len(s)]
    BY <1>1
<1>4. PICK k \in 1 .. Len(s) + Len(t) : p = (s \o t)[k]
    BY <1>3 DEF ToSet
<1>5. CASE k <= Len(s)
    BY <1>2, <1>3, <1>4, <1>5
<1>6. CASE ~(k <= Len(s))
    <2>1. k - Len(s) \in 1 .. Len(t) /\ p = t[k - Len(s)]
        BY <1>2, <1>3, <1>4, <1>6
    <2>2. QED
        BY <2>1
<1>7. QED
    BY <1>5, <1>6

\* A slot of a NEW-VIEW is one taken over, or a new one above the others.
LEMMA NewViewSlots ==
    ASSUME NEW S, Recordable(S), NEW r, IsFiniteSet(pending[r]), pending[r] \subseteq Request,
           nextSeq[r] \in Nat, NEW v \in View, NEW nv \in NewViewsFor(r, v, S)
    PROVE  \E order \in SetToSeqs({m \in S : m.newView = v}) :
           \E new \in SetToSeqs(Unassigned(r, S, Chosen(order))) :
              /\ FirstNew(r, order) \in Nat
              /\ DOMAIN new \subseteq Nat \ {0}
              /\ \A p \in ToSet(nv.prePrepares) :
                    \/ p \in Chosen(order)
                    \/ \E i \in DOMAIN new : p = [seq |-> FirstNew(r, order) + i - 1, req |-> new[i]]
<1>1. PICK order \in SetToSeqs({m \in S : m.newView = v}) :
           \E old \in SetToSeqs(Chosen(order)) :
           \E new \in SetToSeqs(Unassigned(r, S, Chosen(order))) :
              nv = NewView(v, old, new, FirstNew(r, order))
    BY NewViewIs
<1>2. PICK old \in SetToSeqs(Chosen(order)), new \in SetToSeqs(Unassigned(r, S, Chosen(order))) :
           nv = NewView(v, old, new, FirstNew(r, order))
    BY <1>1
<1> DEFINE first == FirstNew(r, order)
           more == [i \in DOMAIN new |-> [seq |-> first + i - 1, req |-> new[i]]]
<1>3. Recordable({m \in S : m.newView = v})
    BY RecordableSubset
<1>4. /\ Len(old) \in Nat /\ DOMAIN old = 1 .. Len(old)
      /\ \A i \in 1 .. Len(old) : old[i] \in Chosen(order)
      /\ old \in Seq(Chosen(order))
    BY <1>3, ChosenAre, SequencesOf
<1>5. first \in Nat
    BY <1>3, FirstIs
<1>6. DOMAIN new = 1 .. Len(new) /\ Len(new) \in Nat /\ new \in Seq(Request)
    <2>1. /\ IsFiniteSet(Unassigned(r, S, Chosen(order)))
          /\ Unassigned(r, S, Chosen(order)) \subseteq Request
        BY UnassignedAre
    <2>2. new \in Seq(Unassigned(r, S, Chosen(order))) /\ DOMAIN new = 1 .. Len(new)
        BY <2>1, SequencesOf
    <2>3. QED
        BY <2>1, <2>2
<1>7. nv.prePrepares = old \o more
    BY <1>2 DEF NewView
<1> HIDE DEF first
<1>8. /\ Len(more) = Len(new) /\ more \in Seq([seq : Int, req : Request])
      /\ \A i \in 1 .. Len(new) : more[i] = [seq |-> first + i - 1, req |-> new[i]]
    <2>1. ASSUME NEW i \in 1 .. Len(new)
          PROVE  [seq |-> first + i - 1, req |-> new[i]] \in [seq : Int, req : Request]
        BY <1>5, <1>6
    <2>2. more \in [1 .. Len(new) -> [seq : Int, req : Request]]
        BY <1>6, <2>1
    <2>3. QED
        BY <1>6, <2>2
<1> HIDE DEF more
<1>9. ASSUME NEW p \in ToSet(old \o more)
      PROVE  \/ p \in Chosen(order)
             \/ \E i \in DOMAIN new : p = [seq |-> first + i - 1, req |-> new[i]]
    <2>1. (\E k \in 1 .. Len(old) : p = old[k]) \/ (\E k \in 1 .. Len(more) : p = more[k])
        BY <1>4, <1>8, ElementsOfJoin
    <2>2. QED
        BY <1>4, <1>6, <1>8, <2>1
<1>10. \A p \in ToSet(nv.prePrepares) :
        \/ p \in Chosen(order)
        \/ \E i \in DOMAIN new : p = [seq |-> FirstNew(r, order) + i - 1, req |-> new[i]]
    BY <1>7, <1>9 DEF first
<1>11. DOMAIN new \subseteq Nat \ {0}
    BY <1>6
<1>12. QED
    BY <1>5, <1>10, <1>11 DEF first

\* A NEW-VIEW has one request for a slot; in one that a recorded VIEW-CHANGE
\* covers, it has the request of a VIEW-CHANGE.
LEMMA NewViewSound ==
    ASSUME NEW S, Recordable(S), \A m \in S : \A d \in m.prepared : d.view = 0,
           NEW r, IsFiniteSet(pending[r]), pending[r] \subseteq Request,
           nextSeq[r] \in Nat, NEW v \in View, NEW nv \in NewViewsFor(r, v, S)
    PROVE  /\ \A p, q \in ToSet(nv.prePrepares) : p.seq = q.seq => p = q
           /\ \A m \in S : \A p \in ToSet(nv.prePrepares) : m.newView = v /\ Covers(m, p.seq) =>
                \E n \in S : \E d \in n.prepared : d.seq = p.seq /\ d.req = p.req
<1> DEFINE T == {m \in S : m.newView = v}
<1>0. PICK order \in SetToSeqs(T) :
           \E new \in SetToSeqs(Unassigned(r, S, Chosen(order))) :
              /\ FirstNew(r, order) \in Nat
              /\ DOMAIN new \subseteq Nat \ {0}
              /\ \A p \in ToSet(nv.prePrepares) :
                    \/ p \in Chosen(order)
                    \/ \E i \in DOMAIN new : p = [seq |-> FirstNew(r, order) + i - 1, req |-> new[i]]
    BY NewViewSlots
<1>1. PICK new :
              /\ FirstNew(r, order) \in Nat
              /\ \A p \in ToSet(nv.prePrepares) :
                    \/ p \in Chosen(order)
                    \/ \E i \in Nat \ {0} : p = [seq |-> FirstNew(r, order) + i - 1, req |-> new[i]]
    BY <1>0
<1>2. Recordable(T) /\ \A m \in T : \A d \in m.prepared : d.view = 0
    BY RecordableSubset
<1> DEFINE first == FirstNew(r, order)
           New(p) == \E i \in Nat \ {0} : p = [seq |-> first + i - 1, req |-> new[i]]
<1>3. /\ StableUpTo(order, Len(order)) \in 0 .. MaxSeq
      /\ first \in Nat /\ first > StableUpTo(order, Len(order))
      /\ \A p \in Chosen(order) : first > p.seq
    BY <1>2, FirstIs
<1>4. /\ Chosen(order) \subseteq PrePrepare
      /\ \A p, q \in Chosen(order) : p.seq = q.seq => p = q
      /\ \A p \in Chosen(order) : \E m \in T : \E d \in m.prepared : d.seq = p.seq /\ d.req = p.req
    BY <1>2, ChosenAre
<1> HIDE DEF first
<1>5. \A p \in Chosen(order) : p.seq \in Int /\ p.seq < first
    BY <1>3, <1>4, RequestAssumption DEF PrePrepare, SeqNo
<1>6. \A p : New(p) => p.seq \in Int /\ p.seq >= first
    BY <1>3
<1>7. \A p \in ToSet(nv.prePrepares) : p \in Chosen(order) \/ New(p)
    BY <1>1 DEF first
<1>8. \A p, q : New(p) /\ New(q) /\ p.seq = q.seq => p = q
    BY <1>3
<1> HIDE DEF New
<1>9. \A p, q \in ToSet(nv.prePrepares) : p.seq = q.seq => p = q
    BY <1>3, <1>4, <1>5, <1>6, <1>7, <1>8
<1>10. ASSUME NEW m \in T, NEW p, New(p), Covers(m, p.seq)
       PROVE  FALSE
    <2>1. /\ Len(order) \in Nat /\ DOMAIN order = 1 .. Len(order)
          /\ \A j \in 1 .. Len(order) : order[j] \in T
        BY <1>2, SequencesOf DEF Recordable
    <2>2. \A j \in 1 .. Len(order) : order[j].stable \in 0 .. MaxSeq
        BY <1>2, <2>1, RecordedFields DEF Recordable
    <2>3. PICK i \in 1 .. Len(order) : order[i] = m
        BY <1>2, <2>1, SequencesOf DEF Recordable
    <2>4. \A j \in 1 .. Len(order) : order[j].stable <= StableUpTo(order, Len(order))
        BY <2>1, <2>2, StableIs
    <2>5. /\ p.seq \in Int /\ p.seq >= first /\ p.seq > StableUpTo(order, Len(order))
          /\ StableUpTo(order, Len(order)) \in Int
        <3>1. StableUpTo(order, Len(order)) \in Int
            BY <1>3, RequestAssumption
        <3>2. QED
            BY <1>3, <1>6, <1>10, <3>1
    <2>6. ~(p.seq <= m.stable)
        <3>1. m.stable \in Int /\ m.stable <= StableUpTo(order, Len(order))
            BY <2>2, <2>3, <2>4, RequestAssumption
        <3>2. QED
            BY <2>5, <3>1
    <2>7. PICK d \in m.prepared : d.seq = p.seq
        BY <1>10, <2>6 DEF Covers
    <2>8. StableUpTo(order, i) \in 0 .. MaxSeq /\ StableUpTo(order, i) <= StableUpTo(order, Len(order))
        <3>1. i \in Nat /\ 1 .. i \subseteq 1 .. Len(order)
            BY <2>1
        <3>2. /\ StableUpTo(order, i) \in 0 .. MaxSeq
              /\ \/ StableUpTo(order, i) = 0
                 \/ \E j \in 1 .. i : order[j].stable = StableUpTo(order, i)
            BY <2>2, <3>1, StableIs
        <3>3. StableUpTo(order, Len(order)) >= 0
            BY <1>3, RequestAssumption
        <3>4. QED
            BY <2>4, <3>1, <3>2, <3>3
    <2>9. d.seq > StableUpTo(order, i)
        BY <2>5, <2>7, <2>8, RequestAssumption
    <2>10. [at |-> i, entry |-> d] \in Entries(order)
        BY <2>1, <2>3, <2>7, <2>9 DEF Entries
    <2>11. PICK c \in Chosen(order) : c.seq = d.seq
        BY <1>2, <2>10, ChosenCovers
    <2>12. QED
        BY <1>3, <1>5, <2>5, <2>7, <2>11
<1>11. ASSUME NEW m \in S, NEW p \in ToSet(nv.prePrepares), m.newView = v, Covers(m, p.seq)
       PROVE  \E n \in S : \E d \in n.prepared : d.seq = p.seq /\ d.req = p.req
    BY <1>4, <1>7, <1>10, <1>11
<1>12. QED
    BY <1>9, <1>11
-----------------------------------------------------------------------------
(***************************************************************************)
(* Sending VIEW-CHANGE and issuing NEW-VIEW.                                *)
(***************************************************************************)
\* Nothing of view 1 is there before the NEW-VIEW.
LEMMA NothingAgain ==
    ASSUME OneChange, TypeInv, ViewsInv, newViews = {}
    PROVE  /\ \A q \in Replica : view[q] = 0
           /\ \A g, a : ~Again(g, a)
           /\ \A q \in Replica : \A w \in View : install[q][w] = <<>>
<1>1. \A q \in Replica : view[q] \in {0, 1}
    BY TwoViews DEF TypeInv, TypeOK
<1>2. \A q \in Replica : view[q] = 0
    BY <1>1 DEF ViewsInv
<1>3. \A m \in net : m.view # 1
    BY DEF ViewsInv
<1>4. ASSUME NEW q \in Replica, NEW t \in waiting[q] PROVE t.view # 1
    <2>1. t.view <= 0
        BY <1>2 DEF ViewsInv
    <2>2. QED
        BY <2>1
<1>5. \A g, a : ~Renewed(g, a)
    BY DEF Renewed
<1>6. QED
    BY <1>2, <1>3, <1>4, <1>5 DEF Again, ViewsInv

\* The new leader builds the NEW-VIEW from a quorum and enters view 1.
LEMMA AgreeIssue ==
    ASSUME OneChange, AgreeInv, TypeInv', Moves, ViewChangesInv',
           NEW recorded, recorded \subseteq viewChanges', Count(recorded, 1) >= Quorum,
           newViews = {}, NEW nv \in NewViewsFor(NewLeader, 1, recorded),
           \A p \in ToSet(nv.prePrepares) : p.seq \in SeqNo,
           newViews' = newViews \cup {nv}, EnterView(NewLeader, nv)
    PROVE  AgreeInv'
<1> DEFINE r == NewLeader
           T == {m \in recorded : m.newView = 1}
<1>0. /\ TypeInv /\ ViewsInv /\ View = {0, 1} /\ 1 \in View /\ r \in Replica
      /\ F \in Nat /\ Quorum = 2 * F + 1 /\ MaxSeq \in Nat
    BY TwoViews, RequestAssumption DEF AgreeInv
<1>1. Recordable(recorded) /\ \A m \in recorded : \A d \in m.prepared : d.view = 0
    BY FS_Subset DEF Recordable, TypeInv, ViewChangesTyped, ViewChangesInv
<1>2. /\ IsFiniteSet(pending[r]) /\ pending[r] \subseteq Request /\ nextSeq[r] \in Nat
    BY <1>0 DEF TypeInv, TypeOK, LocalInv
<1>3. nv \in [view : View, prePrepares : Seq(PrePrepare)] /\ nv.view = 1
    BY <1>0, <1>1, <1>2, NewViewTypes
<1>4. /\ \A p, q \in ToSet(nv.prePrepares) : p.seq = q.seq => p = q
      /\ \A m \in recorded : \A p \in ToSet(nv.prePrepares) : m.newView = 1 /\ Covers(m, p.seq) =>
            \E n \in recorded : \E d \in n.prepared : d.seq = p.seq /\ d.req = p.req
    BY <1>0, <1>1, <1>2, NewViewSound
<1>5. /\ \A q \in Replica : view[q] = 0
      /\ \A g, a : ~Again(g, a)
      /\ \A q \in Replica : \A w \in View : install[q][w] = <<>>
    BY <1>0, NothingAgain
<1>6. /\ view'[r] = 1
      /\ \A q \in Replica : q # r => view'[q] = view[q]
      /\ \A p \in ToSet(nv.prePrepares) : p.seq < nextSeq'[r]
      /\ install'[r][1] = nv.prePrepares
      /\ \A q \in Replica : \A w \in View : ~(q = r /\ w = 1) => install'[q][w] = install[q][w]
    BY <1>0, <1>3, <1>5, EnterIs
<1>7. net' = net /\ waiting' = waiting /\ newViews' = {nv}
    BY DEF Moves
<1>8. \A g, a : Renewed(g, a)' <=> \E p \in ToSet(nv.prePrepares) : p.seq = g /\ p.req = a
    BY <1>7 DEF Renewed
<1>9. \A g, a : Again(g, a)' <=> \E p \in ToSet(nv.prePrepares) : p.seq = g /\ p.req = a
    BY <1>5, <1>7, <1>8 DEF Again
<1>10. ViewsInv'
    <2>1. \A m \in net' : m.view # 1
        BY <1>0, <1>7 DEF ViewsInv
    <2>2. \A m \in net' : m.type = "PREPARE" => m.view <= view'[m.from]
        <3>1. ASSUME NEW m \in net, m.type = "PREPARE" PROVE m.view <= view'[m.from]
            <4>1. m \in Message
                BY <1>0 DEF TypeInv, TypeOK
            <4>2. m.from \in Replica /\ m.view \in {0, 1}
                BY <1>0, <3>1, <4>1, MessageFields
            <4>3. m.view = 0 /\ view'[m.from] \in {0, 1}
                BY <1>5, <1>6, <1>7, <2>1, <4>2
            <4>4. QED
                BY <4>3
        <3>2. QED
            BY <1>7, <3>1
    <2>3. \A q \in Replica : \A t \in waiting'[q] : t.view <= view'[q]
        <3>1. ASSUME NEW q \in Replica, NEW t \in waiting[q] PROVE t.view <= view'[q]
            <4>1. t \in [view : View, seq : SeqNo, req : Request, nv : View]
                BY <1>0, <3>1 DEF TypeInv, TypeOK
            <4>2. t.view \in {0, 1}
                BY <1>0, <4>1
            <4>3. t.view <= 0
                BY <1>0, <1>5 DEF ViewsInv
            <4>4. t.view = 0 /\ view'[q] \in {0, 1}
                BY <1>5, <1>6, <4>2, <4>3
            <4>5. QED
                BY <4>4
        <3>2. QED
            BY <1>7, <3>1
    <2>4. \A q \in Replica : \A w \in View : install'[q][w] # <<>> => w = 1 /\ view'[q] = 1
        BY <1>0, <1>5, <1>6
    <2>5. \A q \in Replica : \A p \in ToSet(install'[q][1]) : Renewed(p.seq, p.req)'
        <3>1. \A q \in Replica : q # r => install'[q][1] = <<>>
            BY <1>0, <1>5, <1>6
        <3>2. ToSet(<<>>) = {}
            BY DEF ToSet
        <3>3. QED
            BY <1>0, <1>6, <1>8, <3>1, <3>2
    <2>6. \A m \in newViews' : m.view = 1 /\ \A n \in newViews' : m = n
        BY <1>3, <1>7
    <2>7. QED
        BY <1>6, <1>7, <2>1, <2>2, <2>3, <2>4, <2>5, <2>6 DEF ViewsInv, NewLeader
<1>11. RenewalInv'
    <2> DEFINE Q == {m.from : m \in T}
               f == [m \in T |-> m.from]
    <2>1. IsFiniteSet(T) /\ Cardinality(T) >= Quorum
        BY <1>1, FS_Subset DEF Recordable, Count
    <2>2. \A m, n \in T : m.from = n.from => m = n
        BY DEF ViewChangesInv
    <2>3. f \in Surjection(T, Q)
        BY DEF Surjection
    <2>4. f \in Injection(T, Q)
        BY <2>2 DEF Injection, IsInjective
    <2>5. Cardinality(Q) = Cardinality(T)
        BY <2>1, <2>3, <2>4, FS_Surjection
    <2>6. Q \in SUBSET Replica
        BY <1>1, RecordedFields DEF Recordable
    <2>7. ASSUME NEW q \in Q
          PROVE  \E m \in viewChanges' : m.from = q /\ \A p \in ToSet(nv.prePrepares) :
                    Covers(m, p.seq) => \E n \in viewChanges' : \E d \in n.prepared :
                        d.seq = p.seq /\ d.req = p.req
        <3>1. PICK m \in T : m.from = q
            OBVIOUS
        <3>2. QED
            BY <1>4, <3>1
    <2>8. \E P \in SUBSET Replica :
            /\ Cardinality(P) >= Quorum
            /\ \A q \in P : \E m \in viewChanges' : m.from = q /\ \A p \in ToSet(nv.prePrepares) :
                    Covers(m, p.seq) => \E n \in viewChanges' : \E d \in n.prepared :
                        d.seq = p.seq /\ d.req = p.req
        BY <2>1, <2>5, <2>6, <2>7
    <2> HIDE DEF Q, f
    <2>9. QED
        BY <1>7, <2>8 DEF RenewalInv, InViewChanges, Covers, Quorum
<1>12. \A g \in SeqNo : \A a, b \in Request : Again(g, a)' /\ Again(g, b)' => a = b
    BY <1>4, <1>9
<1>13. \A g \in SeqNo : \A a \in Request : Again(g, a)' => g < nextSeq'[NewLeader]
    BY <1>6, <1>9
<1>14. QED
    BY <1>10, <1>11, <1>12, <1>13, Moved

\* The VIEW-CHANGE that a replica sends from view 0 covers the slots it knows.
LEMMA OwnCovers ==
    ASSUME OneChange, AgreeInv, NEW r \in Replica, view[r] = 0, NEW g \in SeqNo
    PROVE  Covers(BuildViewChange(r), g) <=> log[r][g].req # NoRequest
<1> DEFINE own == BuildViewChange(r)
<1>1. /\ own.stable = execSeq[r] - 1
      /\ own.prepared = {[seq |-> s, view |-> view[r], req |-> log[r][s].req] :
                     s \in {i \in SeqNo : log[r][i].req # NoRequest /\ ~log[r][i].executed}}
    BY DEF BuildViewChange
<1>2. g \in Int /\ execSeq[r] \in Int /\ TypeOK /\ LogsInv
    BY RequestAssumption DEF AgreeInv, TypeInv, TypeOK, SeqNo
<1>3. g <= own.stable <=> log[r][g].executed
    BY <1>1, <1>2 DEF LogsInv
<1>4. (\E d \in own.prepared : d.seq = g) <=> (log[r][g].req # NoRequest /\ ~log[r][g].executed)
    <2> DEFINE live == {i \in SeqNo : log[r][i].req # NoRequest /\ ~log[r][i].executed}
               entry(i) == [seq |-> i, view |-> view[r], req |-> log[r][i].req]
    <2>1. own.prepared = {entry(i) : i \in live}
        BY <1>1
    <2>2. \A i : entry(i).seq = i
        OBVIOUS
    <2> HIDE DEF entry
    <2>3. (\E d \in {entry(i) : i \in live} : d.seq = g) <=> g \in live
        BY <2>2
    <2>4. QED
        BY <2>1, <2>3
<1>5. log[r][g].executed => log[r][g].req # NoRequest
    BY <1>2 DEF LogsInv
<1> HIDE DEF own
<1>6. QED
    BY <1>3, <1>4, <1>5 DEF Covers, own

LEMMA AgreeSend ==
    ASSUME OneChange, AgreeInv, NEW r \in Replica, view[r] = 0, ~Sent(r, 1),
           viewChanges' = viewChanges \cup {BuildViewChange(r)}
    PROVE  /\ ViewChangesInv'
           /\ \A d \in BuildViewChange(r).prepared : log[r][d.seq].req = d.req
<1> DEFINE own == BuildViewChange(r)
<1>0. LogsInv /\ ViewChangesInv
    BY DEF AgreeInv
<1>1. /\ own.from = r /\ own.newView = 1
      /\ own.prepared = {[seq |-> s, view |-> 0, req |-> log[r][s].req] :
                     s \in {i \in SeqNo : log[r][i].req # NoRequest /\ ~log[r][i].executed}}
    BY DEF BuildViewChange
<1>2. \A d \in own.prepared : d.view = 0 /\ log[r][d.seq].req = d.req
    BY <1>1
<1>3. \A s, g \in SeqNo : Covers(own, s) /\ g < s => Covers(own, g)
    BY <1>0, OwnCovers DEF LogsInv
<1> HIDE DEF own
<1>4. \A m \in viewChanges : m.from # r
    BY <1>0 DEF Sent, ViewChangesInv
<1>5. viewChanges' = viewChanges \cup {own}
    BY DEF own
<1>6. \A m, n \in viewChanges' : m.from = n.from => m = n
    BY <1>0, <1>1, <1>4, <1>5 DEF ViewChangesInv
<1>7. ASSUME NEW m \in viewChanges'
      PROVE  /\ m.newView = 1
             /\ \A d \in m.prepared : d.view = 0
             /\ \A s, g \in SeqNo : Covers(m, s) /\ g < s => Covers(m, g)
    BY <1>0, <1>1, <1>2, <1>3, <1>5, <1>7 DEF ViewChangesInv
<1>8. ViewChangesInv'
    BY <1>6, <1>7 DEF ViewChangesInv, Covers
<1>9. QED
    BY <1>2, <1>8 DEF own

LEMMA AgreeTryIssue ==
    ASSUME OneChange, AgreeInv, TypeInv', NEW r \in Replica, view[r] = 0,
           NEW recorded, recorded \subseteq viewChanges', NEW fired,
           TryIssueNewView(r, 1, recorded, fired),
           viewChanges \subseteq viewChanges', ViewChangesInv',
           \A m \in viewChanges' : m \in viewChanges \/
                \A d \in m.prepared : log[r][d.seq].req = d.req,
           UNCHANGED slotVars, UNCHANGED execVars
    PROVE  AgreeInv'
<1>0. /\ TypeInv /\ ViewsInv /\ ProposalsInv /\ RenewalInv
      /\ \A q \in Replica : nextSeq[q] \in Int
    <2>1. TypeInv /\ ViewsInv /\ ProposalsInv /\ RenewalInv
        BY DEF AgreeInv
    <2>2. \A q \in Replica : nextSeq[q] \in Int
        BY <2>1 DEF TypeInv, TypeOK
    <2>3. QED
        BY <2>1, <2>2
<1>1. /\ log' = log /\ net' = net /\ waiting' = waiting
      /\ execSeq' = execSeq /\ datastore' = datastore
    BY DEF slotVars, execVars
<1>2. \A m \in viewChanges' : m \in viewChanges \/
        \A d \in m.prepared : \E q \in Replica : view[q] = 0 /\ log[q][d.seq].req = d.req
    OBVIOUS
<1>3. CASE IssuesNewView(r, 1, recorded)
    <2>1. /\ Count(recorded, 1) >= Quorum /\ r = NewLeader /\ newViews = {}
        BY <1>0, <1>3 DEF IssuesNewView, NewLeader, ViewsInv
    <2>2. PICK nv \in NewViewsFor(r, 1, recorded) :
            /\ \A p \in ToSet(nv.prePrepares) : p.seq \in SeqNo
            /\ newViews' = newViews \cup {nv}
            /\ EnterView(r, nv)
        BY <1>3 DEF TryIssueNewView
    <2>3. /\ Recordable(recorded) /\ 1 \in View
          /\ IsFiniteSet(pending[r]) /\ pending[r] \subseteq Request /\ nextSeq[r] \in Nat
        <3>1. Recordable(recorded)
            BY FS_Subset DEF Recordable, TypeInv, ViewChangesTyped
        <3>2. IsFiniteSet(pending[r]) /\ pending[r] \subseteq Request /\ nextSeq[r] \in Nat
            BY <1>0 DEF TypeInv, TypeOK, LocalInv
        <3>3. QED
            BY <3>1, <3>2, TwoViews
    <2>4. nv \in [view : View, prePrepares : Seq(PrePrepare)] /\ nv.view = 1
        BY <2>2, <2>3, NewViewTypes
    <2>5. /\ view'[r] = 1
          /\ \A q \in Replica : q # r => view'[q] = view[q] /\ nextSeq'[q] = nextSeq[q]
          /\ nextSeq[r] <= nextSeq'[r]
        BY <1>0, <2>2, <2>4, EnterIs
    <2>6. Moves
        BY <1>0, <1>1, <1>2, <2>2, <2>5 DEF Moves
    <2>7. QED
        BY <2>1, <2>2, <2>6, AgreeIssue
<1>4. CASE ~IssuesNewView(r, 1, recorded)
    <2>1. UNCHANGED <<newViews, view, nextSeq, install>>
        BY <1>4 DEF TryIssueNewView
    <2>2. Moves
        BY <1>0, <1>1, <1>2, <2>1 DEF Moves
    <2>3. ViewsInv'
        BY <1>0, <1>1, <2>1 DEF ViewsInv, Renewed, NewLeader
    <2>4. RenewalInv'
        BY <1>0, <2>1 DEF RenewalInv, InViewChanges, Covers, Quorum
    <2>5. \A g, a : Again(g, a)' <=> Again(g, a)
        BY <1>1, <2>1 DEF Again, Renewed
    <2>6. QED
        BY <1>0, <2>1, <2>2, <2>3, <2>4, <2>5, Moved DEF ProposalsInv
<1>5. QED
    BY <1>3, <1>4

LEMMA AgreeTrigger ==
    ASSUME OneChange, AgreeInv, TypeInv', NEW r \in Replica, view[r] = 0,
           NEW recorded, recorded \subseteq viewChanges, NEW fired,
           TriggerViewChange(r, recorded, fired), UNCHANGED slotVars, UNCHANGED execVars
    PROVE  AgreeInv'
<1> DEFINE own == BuildViewChange(r)
<1>1. own.newView = 1
    BY DEF BuildViewChange
<1> HIDE DEF own
<1>2. CASE Sent(r, 1)
    <2>1. UNCHANGED <<viewChanges, newViews, view, nextSeq, install>>
        BY <1>1, <1>2 DEF TriggerViewChange, own
    <2>2. InstallShrinks
        BY <2>1 DEF InstallShrinks
    <2>3. QED
        BY <2>1, <2>2, AgreeIdle DEF slotVars, execVars
<1>3. CASE ~Sent(r, 1)
    <2>1. viewChanges' = viewChanges \cup {own} /\ TryIssueNewView(r, 1, recorded \cup {own}, fired)
        BY <1>1, <1>3 DEF TriggerViewChange, own
    <2>2. ViewChangesInv' /\ \A d \in own.prepared : log[r][d.seq].req = d.req
        BY <1>3, <2>1, AgreeSend DEF own
    <2>3. QED
        BY <2>1, <2>2, AgreeTryIssue
<1>4. QED
    BY <1>2, <1>3

LEMMA AgreeTimeout ==
    ASSUME OneChange, AgreeInv, NEW r \in Replica, Timeout(r)
    PROVE  AgreeInv'
<1>1. TypeInv /\ TypeInv'
    BY TypeTimeout DEF AgreeInv
<1>2. view[r] = 0
    <2>1. view[r] \in {0, 1} /\ view[r] < 1
        BY <1>1, TwoViews DEF TypeInv, TypeOK, LocalInv, Timeout
    <2>2. QED
        BY <2>1
<1>3. vcLog[r] \subseteq viewChanges
    BY <1>1 DEF TypeInv, TypeOK
<1>4. TriggerViewChange(r, vcLog[r], [timer EXCEPT ![r] = "fired"])
      /\ UNCHANGED slotVars /\ UNCHANGED execVars
    BY DEF Timeout
<1>5. QED
    BY <1>1, <1>2, <1>3, <1>4, AgreeTrigger

LEMMA AgreeOnViewChange ==
    ASSUME OneChange, AgreeInv, NEW r \in Replica, NEW m \in viewChanges, OnViewChange(r, m)
    PROVE  AgreeInv'
<1> DEFINE recorded == vcLog[r] \cup {m}
<1>1. TypeInv /\ TypeInv' /\ ViewChangesInv
    BY TypeOnViewChange DEF AgreeInv
<1>2. /\ m.newView > view[r]
      /\ UNCHANGED slotVars /\ UNCHANGED execVars
      /\ \/ TriggerViewChange(r, recorded, timer)
         \/ /\ TryIssueNewView(r, m.newView, recorded, timer)
            /\ UNCHANGED viewChanges
    BY DEF OnViewChange
<1>3. m.newView = 1 /\ view[r] = 0
    <2>1. view[r] \in {0, 1} /\ m.newView = 1
        BY <1>1, TwoViews DEF TypeInv, TypeOK, ViewChangesInv
    <2>2. QED
        BY <1>2, <2>1
<1>4. recorded \subseteq viewChanges
    BY <1>1 DEF TypeInv, TypeOK
<1> HIDE DEF recorded
<1>5. CASE TriggerViewChange(r, recorded, timer)
    BY <1>1, <1>2, <1>3, <1>4, <1>5, AgreeTrigger
<1>6. CASE TryIssueNewView(r, m.newView, recorded, timer) /\ UNCHANGED viewChanges
    <2>1. ViewChangesInv'
        BY <1>1, <1>6 DEF ViewChangesInv, Covers
    <2>2. QED
        BY <1>1, <1>2, <1>3, <1>4, <1>6, <2>1, AgreeTryIssue
<1>7. QED
    BY <1>2, <1>5, <1>6
-----------------------------------------------------------------------------
(***************************************************************************)
(* Agreement.                                                              *)
(***************************************************************************)
LEMMA AgreeInit == ASSUME OneChange, Init PROVE AgreeInv
<1>0. View = {0, 1} /\ OldLeader \in Replica /\ NewLeader \in Replica /\ MaxSeq \in Nat
    BY TwoViews, RequestAssumption
<1>1. TypeInv
    BY TypeInit
<1>2. /\ \A r \in Replica : view[r] = 0 /\ nextSeq[r] = 1 /\ execSeq[r] = 1
      /\ \A r \in Replica : waiting[r] = {} /\ datastore[r] = <<>>
      /\ \A r \in Replica : \A s \in SeqNo :
            /\ log[r][s].req = NoRequest
            /\ ~log[r][s].commitCert /\ ~log[r][s].executed
      /\ \A r \in Replica : \A v \in View : install[r][v] = <<>>
      /\ viewChanges = {} /\ newViews = {} /\ net = {}
    BY DEF Init, EmptySlot
<1>3. NoRequest \notin Request /\ \A s \in SeqNo : s >= 1
    BY RequestAssumption DEF SeqNo
<1>4. ToSet(<<>>) = {}
    BY DEF ToSet
<1>5. ViewsInv
    BY <1>0, <1>2, <1>4 DEF ViewsInv
<1>6. \A g \in SeqNo : \A a \in Request : ~Early(g, a) /\ ~Again(g, a)
    BY <1>2, <1>3 DEF Early, Again, Renewed
<1>7. ProposalsInv
    BY <1>0, <1>2, <1>3, <1>6 DEF ProposalsInv, SeqNo
<1>8. LogsInv
    BY <1>2, <1>3 DEF LogsInv, SeqNo
<1>9. ViewChangesInv /\ RenewalInv
    BY <1>2 DEF ViewChangesInv, RenewalInv
<1>10. \A p, v, s, a : ~Voted(p, v, s, a)
    BY <1>2 DEF Voted
<1>11. KeptInv
    BY <1>10 DEF KeptInv, Kept
<1>12. CertsInv
    BY <1>2 DEF CertsInv
<1>13. ExecutionInv
    BY <1>2, <1>4 DEF ExecutionInv
<1>14. QED
    BY <1>1, <1>5, <1>7, <1>8, <1>9, <1>11, <1>12, <1>13 DEF AgreeInv

LEMMA AgreeOnBackupClientRequest ==
    ASSUME OneChange, AgreeInv, NEW r \in Replica, NEW a \in Request, OnBackupClientRequest(r, a)
    PROVE  AgreeInv'
<1>1. TypeInv'
    BY TypeOnBackupClientRequest DEF AgreeInv
<1>2. UNCHANGED <<view, nextSeq, execSeq, log, datastore, waiting, viewChanges, newViews, net, install>>
    BY DEF OnBackupClientRequest, slotVars, execVars
<1>3. InstallShrinks
    BY <1>2 DEF InstallShrinks
<1>4. QED
    BY <1>1, <1>2, <1>3, AgreeIdle

\* The steps of the three phases but for a proposal.
PhaseNext ==
    \/ \E m \in net : Handle(m)
    \/ \E r \in Replica, s \in SeqNo : OnPrepare(r, s) \/ OnCommit(r, s)
    \/ \E r \in Replica : \E t \in waiting[r] : LockAndPrepare(r, t)

LEMMA PhaseStep == ASSUME OneChange, AgreeInv, PhaseNext PROVE Phase
<1>1. ASSUME NEW m \in net, Handle(m) PROVE Phase
    BY <1>1, PhaseOnPrePrepare, PhaseOnPrepareCert, PhaseOnCommitCert, PhaseDrop DEF Handle
<1>2. QED
    BY <1>1, PhaseOnPrepare, PhaseOnCommit, PhaseLockAndPrepare DEF PhaseNext

LEMMA PhaseSteps ==
    ASSUME Next
    PROVE  \/ \E r \in Replica, a \in Request : StartConsensus(r, a) \/ OnBackupClientRequest(r, a)
           \/ PhaseNext
           \/ \E r \in Replica : Timeout(r)
           \/ \E r \in Replica : \E m \in viewChanges : OnViewChange(r, m)
           \/ \E r \in Replica : \E nv \in newViews : OnNewView(r, nv)
           \/ \E r \in Replica, v \in View : AcceptNewViewPrePrepare(r, v)
BY DEF Next, PhaseNext

LEMMA AgreeStep == ASSUME OneChange PROVE AgreeInv /\ [Next]_vars => AgreeInv'
<1> SUFFICES ASSUME AgreeInv, [Next]_vars PROVE AgreeInv'
    OBVIOUS
<1>1. CASE UNCHANGED vars
    <2>1. UNCHANGED <<view, nextSeq, execSeq, log, datastore, waiting, viewChanges, newViews, net, install>>
        BY <1>1 DEF vars, slotVars, execVars, viewVars
    <2>2. InstallShrinks
        BY <2>1 DEF InstallShrinks
    <2>3. TypeInv'
        BY TypeStep DEF AgreeInv
    <2>4. QED
        BY <2>1, <2>2, <2>3, AgreeIdle
<1>2. TypeInv'
    BY TypeStep DEF AgreeInv
<1>3. ASSUME NEW r \in Replica, NEW a \in Request, StartConsensus(r, a) PROVE AgreeInv'
    BY <1>2, <1>3, LeadsStartConsensus, Handled DEF Leads
<1>4. ASSUME NEW r \in Replica, NEW v \in View, AcceptNewViewPrePrepare(r, v) PROVE AgreeInv'
    BY <1>2, <1>4, PhaseAcceptNewViewPrePrepare, AgreePhase, AgreeIdle DEF Idle, execVars
<1>5. CASE PhaseNext
    BY <1>2, <1>5, PhaseStep, AgreePhase
<1>6. CASE Next
    BY <1>3, <1>4, <1>5, <1>6, AgreeOnBackupClientRequest, AgreeTimeout, AgreeOnViewChange,
       AgreeOnNewView, PhaseSteps
<1>7. QED
    BY <1>1, <1>6

\* In a cluster of 3F + 1 replicas that changes view once, whatever is executed
\* in a slot survives the change: replicas execute the same request in it, unless
\* one of them voted in the old view for that slot after a VIEW-CHANGE of its own
\* that says nothing of it.  Messages may be lost, kept back and reordered, and
\* the NEW-VIEW be built from any quorum and by any walk of it.
THEOREM Agreement == ASSUME OneChange PROVE Spec => []AgreementUnlessLateVotes
<1>1. Init => AgreeInv
    BY AgreeInit
<1>2. AgreeInv /\ [Next]_vars => AgreeInv'
    BY AgreeStep
<1>3. AgreeInv => AgreementUnlessLateVotes
    <2> SUFFICES ASSUME AgreeInv, NEW r \in Replica, NEW q \in Replica,
                        NEW j \in ToSet(datastore[r]), NEW k \in ToSet(datastore[q]), j.seq = k.seq
                 PROVE  j.req = k.req \/ \E p \in Replica : VotedLate(p, j.seq)
        BY DEF AgreementUnlessLateVotes, SlotAgreement
    <2>1. Sound(j.seq, j.req) /\ Sound(j.seq, k.req)
        BY DEF AgreeInv, ExecutionInv
    <2>2. j.seq \in SeqNo
        <3>1. datastore[r] \in Seq(PrePrepare)
            BY DEF AgreeInv, TypeInv, TypeOK
        <3>2. j \in PrePrepare
            BY <3>1, SequenceOver DEF ToSet
        <3>3. QED
            BY <3>2 DEF PrePrepare
    <2>3. SUFFICES ASSUME LateAt(j.seq) PROVE \E p \in Replica : VotedLate(p, j.seq)
        BY <2>1, SoundAgree
    <2>4. PICK p \in Replica, a \in Request :
            Voted(p, 0, j.seq, a) /\ \E m \in viewChanges : m.from = p /\ ~Covers(m, j.seq)
        BY <2>3 DEF LateAt
    <2>5. PICK vc \in viewChanges : vc.from = p /\ ~Covers(vc, j.seq)
        BY <2>4
    <2>6. PICK m \in net : m.type = "PREPARE" /\ m.from = p /\ m.view = 0 /\ m.seq = j.seq
        BY <2>4 DEF Voted
    <2>7. vc.newView = 1 /\ vc \in ViewChangeMessage
        BY DEF AgreeInv, ViewChangesInv, TypeInv, ViewChangesTyped
    <2>8. vc.stable < j.seq /\ \A d \in vc.prepared : d.seq # j.seq
        <3>1. vc.stable \in Int /\ j.seq \in Int
            BY <2>2, <2>7, RecordedFields, RequestAssumption DEF SeqNo
        <3>2. QED
            BY <2>5, <3>1 DEF Covers
    <2>9. VotedLate(p, j.seq)
        BY <2>5, <2>6, <2>7, <2>8 DEF VotedLate
    <2>10. QED
        BY <2>9
<1>4. QED
    BY <1>1, <1>2, <1>3, PTL DEF Spec

-----------------------------------------------------------------------------
(***************************************************************************)
(* Nothing is executed twice over one change of view, when no request can   *)
(* be proposed by a leader and be pending at another replica as well.       *)
(***************************************************************************)
\* The replicas that could start a request, each as the leader of its view.
Starters(a) == (Up \cap Reached[a]) \ ByzantineLeader

Direct(a) == OldLeader \in Starters(a)

\* A client gets its requests to replicas other than the leader of view 1, and
\* one that the leader of view 0 starts to that leader alone, which has no other
\* request of the client.
RequestsApart ==
    \A a \in Request :
        /\ NewLeader \notin Starters(a)
        /\ Direct(a) => /\ Up \cap Reached[a] = {OldLeader}
                        /\ \A b \in Request : Direct(b) /\ b.client = a.client => b = a

\* Request a was proposed for slot g, as far as anything still tells.
Placed(g, a) ==
    \/ \E r \in Replica : log[r][g].req = a
    \/ \E m \in net : m.seq = g /\ m.req = a
    \/ \E r \in Replica : \E t \in waiting[r] : t.seq = g /\ t.req = a
    \/ \E m \in viewChanges : \E d \in m.prepared : d.seq = g /\ d.req = a
    \/ Renewed(g, a)
    \/ \E r \in Replica : \E e \in ToSet(datastore[r]) : e.seq = g /\ e.req = a

\* Only requests that the old leader does not start are pending.
PendedInv ==
    /\ \A q \in Replica : \A a \in pending[q] : ~Direct(a)
    /\ \A m \in viewChanges : \A a \in m.pending : ~Direct(a)

\* A request has one slot. View 0 proposes only what the old leader starts; as
\* long as it leads, its log has all of that, and the clients' timestamps tell
\* what it has executed.
PlacedInv ==
    /\ \A g, h \in SeqNo : \A a \in Request : Placed(g, a) /\ Placed(h, a) => g = h
    /\ newViews = {} => \A g \in SeqNo : \A a \in Request : Placed(g, a) => Direct(a)
    /\ \A g \in SeqNo : \A a \in Request : Early(g, a) => Direct(a)
    /\ view[OldLeader] = 0 =>
        /\ \A g \in SeqNo : \A a \in Request :
            Placed(g, a) /\ Direct(a) => log[OldLeader][g].req = a
        /\ \A g \in SeqNo : log[OldLeader][g].executed =>
            clientTS[OldLeader][log[OldLeader][g].req.client] = log[OldLeader][g].req.ts

\* The datastore has the executed slots in their order.
OrderInv ==
    \A r \in Replica :
        /\ Len(datastore[r]) = execSeq[r] - 1
        /\ \A k \in 1 .. Len(datastore[r]) : datastore[r][k].seq = k

OnceInv == AgreeInv /\ PendedInv /\ PlacedInv /\ OrderInv

LEMMA KnownPlaced ==
    ASSUME OneChange, NEW v \in View, NEW s, NEW a, Known(v, s, a)
    PROVE  Placed(s, a)
<1>1. v = 0 \/ v = 1
    BY TwoViews
<1>2. CASE v = 0
    BY <1>2 DEF Known, Early, Placed
<1>3. CASE v = 1
    BY <1>3 DEF Known, Again, Placed
<1>4. QED
    BY <1>1, <1>2, <1>3

\* What is executed is in the log.
ExecutesLogged ==
    \A q \in Replica : \A e \in ToSet(datastore'[q]) : e \in ToSet(datastore[q]) \/
        \E r \in Replica : e.req = log[r][e.seq].req

LEMMA PlacedFrom ==
    ASSUME NEW r, NEW v, NEW s, NEW a, Handles(r, v, s, a), ExecutesLogged,
           NEW g \in SeqNo, NEW b, Placed(g, b)'
    PROVE  Placed(g, b) \/ (g = s /\ b = a)
<1>1. CASE \E q \in Replica : log'[q][g].req = b
    <2>1. PICK q \in Replica : log'[q][g].req = b
        BY <1>1
    <2>2. QED
        BY <2>1 DEF Handles, Placed
<1>2. CASE \E m \in net' : m.seq = g /\ m.req = b
    BY <1>2 DEF Handles, Placed
<1>3. CASE \E q \in Replica : \E t \in waiting'[q] : t.seq = g /\ t.req = b
    BY <1>3 DEF Handles, Placed
<1>4. CASE \E m \in viewChanges' : \E d \in m.prepared : d.seq = g /\ d.req = b
    BY <1>4 DEF Handles, Placed
<1>5. CASE Renewed(g, b)'
    BY <1>5 DEF Handles, Renewed, Placed
<1>6. CASE \E q \in Replica : \E e \in ToSet(datastore'[q]) : e.seq = g /\ e.req = b
    BY <1>6 DEF ExecutesLogged, Placed
<1>7. QED
    BY <1>1, <1>2, <1>3, <1>4, <1>5, <1>6 DEF Placed

LEMMA StaysLogged == ASSUME Stays PROVE ExecutesLogged
BY DEF Stays, ExecutesLogged

LEMMA RunsLogged ==
    ASSUME NEW r \in Replica, NEW s, NEW to, Runs(r, s, to)
    PROVE  ExecutesLogged
BY DEF Runs, ExecutesLogged

-----------------------------------------------------------------------------
\* The log of the old leader while it leads.
LEMMA OldLeaderLog ==
    ASSUME OneChange, OnceInv, view[OldLeader] = 0, NEW g \in SeqNo,
           log[OldLeader][g].req # NoRequest
    PROVE  log[OldLeader][g].req \in Request /\ Direct(log[OldLeader][g].req)
<1>1. OldLeader \in Replica
    BY TwoViews
<1>2. log[OldLeader][g].req \in Request
    BY <1>1, SlotType DEF OnceInv, AgreeInv, TypeInv
<1>3. Early(g, log[OldLeader][g].req)
    BY <1>1 DEF Early
<1>4. QED
    BY <1>2, <1>3 DEF OnceInv, PlacedInv

\* A request that is handled does not disturb it.
LEMMA OldLogKept ==
    ASSUME OneChange, OnceInv, view[OldLeader] = 0,
           NEW r, NEW v, NEW s, NEW a, Handles(r, v, s, a), NEW g \in SeqNo,
           log[OldLeader][g].req # NoRequest
    PROVE  log'[OldLeader][g].req = log[OldLeader][g].req
<1>1. OldLeader \in Replica
    BY TwoViews
<1>2. SUFFICES ASSUME OldLeader = r, g = s, MayLog(r, v, s, a) PROVE FALSE
    BY <1>1 DEF Handles
<1>3. v = 0
    BY <1>2 DEF MayLog
<1>4. QED
    BY <1>2, <1>3 DEF MayLog

\* What tryExecute at r does to the timestamps of clients.
Stamps(r) ==
    /\ \A q \in Replica : q # r => clientTS'[q] = clientTS[q]
    /\ \A c \in Client :
        \/ /\ clientTS'[r][c] = clientTS[r][c]
           /\ \A g \in SeqNo : log'[r][g].executed /\ ~log[r][g].executed => log[r][g].req.client # c
        \/ \E h \in SeqNo : /\ log[r][h].req \in Request /\ log[r][h].req.client = c
                            /\ clientTS'[r][c] = log[r][h].req.ts

LEMMA ExecuteStamps ==
    ASSUME TypeInv, NEW r \in Replica, NEW s \in SeqNo, log[r][s].req # NoRequest,
           TryExecute(r, [log[r] EXCEPT ![s].commitCert = TRUE])
    PROVE  Stamps(r)
<1>0. /\ TypeOK /\ MaxSeq \in Nat /\ execSeq[r] \in 1 .. MaxSeq + 1
      /\ log \in [Replica -> [SeqNo -> Slot]]
      /\ clientTS \in [Replica -> [Client -> Nat]]
    BY RequestAssumption DEF TypeInv, TypeOK
<1>1. PICK slots \in [SeqNo -> Slot] :
           /\ slots = [log[r] EXCEPT ![s].commitCert = TRUE]
           /\ \A i \in SeqNo : /\ slots[i].req = log[r][i].req
                               /\ slots[i].prepareCert = log[r][i].prepareCert
                               /\ slots[i].executed = log[r][i].executed
           /\ \A i \in SeqNo : slots[i].commitCert => slots[i].req \in Request
    BY CommittedSlots
<1> DEFINE run(to) == execSeq[r] .. to - 1
           Latest(to, c) == {t \in run(to) : /\ slots[t].req.client = c
                                /\ \A u \in run(to) : u > t => slots[u].req.client # c}
<1>2. TryExecute(r, slots)
    BY <1>1
<1>3. PICK to \in execSeq[r] .. MaxSeq + 1 :
        /\ \A t \in run(to) : slots[t].commitCert /\ ~slots[t].executed
        /\ log' = [log EXCEPT ![r] =
              [t \in SeqNo |-> [slots[t] EXCEPT !.executed = @ \/ t \in run(to)]]]
        /\ clientTS' = [clientTS EXCEPT ![r] =
              [c \in Client |-> IF Latest(to, c) = {} THEN @[c]
                               ELSE slots[CHOOSE t \in Latest(to, c) : TRUE].req.ts]]
    BY <1>2, Zenon DEF TryExecute
<1>4. run(to) \subseteq SeqNo /\ run(to) \subseteq 0 .. MaxSeq
    BY <1>0, <1>3 DEF SeqNo
<1>5. ASSUME NEW g \in SeqNo, log'[r][g].executed, ~log[r][g].executed
      PROVE  g \in run(to)
    <2>1. log'[r][g] = [slots[g] EXCEPT !.executed = @ \/ g \in run(to)]
        BY <1>0, <1>3
    <2>2. slots[g] \in Slot /\ slots[g].executed = log[r][g].executed
        BY <1>1
    <2>3. log'[r][g].executed = (slots[g].executed \/ g \in run(to))
        BY <2>1, <2>2 DEF Slot
    <2>4. QED
        BY <1>5, <2>2, <2>3
<1>6. ASSUME NEW c \in Client, NEW g \in run(to), slots[g].req.client = c
      PROVE  Latest(to, c) # {}
    <2> DEFINE S == {t \in run(to) : slots[t].req.client = c}
    <2>1. S \subseteq 0 .. MaxSeq /\ S # {}
        BY <1>4, <1>6
    <2>2. PICK m \in S : \A k \in S : k <= m
        BY <1>0, <2>1, LargestOf
    <2>3. \A u \in run(to) : u > m => slots[u].req.client # c
        BY <1>4, <2>1, <2>2
    <2>4. m \in Latest(to, c)
        BY <2>2, <2>3
    <2>5. QED
        BY <2>4
<1>7. \A c \in Client : clientTS'[r][c] = IF Latest(to, c) = {} THEN clientTS[r][c]
                               ELSE slots[CHOOSE t \in Latest(to, c) : TRUE].req.ts
    <2> DEFINE G == [c \in Client |-> IF Latest(to, c) = {} THEN clientTS[r][c]
                               ELSE slots[CHOOSE t \in Latest(to, c) : TRUE].req.ts]
    <2>1. clientTS'[r] = G
        BY <1>0, <1>3
    <2> HIDE DEF Latest
    <2>2. \A c \in Client : G[c] = IF Latest(to, c) = {} THEN clientTS[r][c]
                               ELSE slots[CHOOSE t \in Latest(to, c) : TRUE].req.ts
        OBVIOUS
    <2> HIDE DEF G
    <2>3. QED
        BY <2>1, <2>2
<1>8. \A q \in Replica : q # r => clientTS'[q] = clientTS[q]
    <2> DEFINE G == [c \in Client |-> IF Latest(to, c) = {} THEN clientTS[r][c]
                               ELSE slots[CHOOSE t \in Latest(to, c) : TRUE].req.ts]
    <2>1. clientTS' = [clientTS EXCEPT ![r] = G]
        BY <1>3
    <2> HIDE DEF G
    <2>2. QED
        BY <1>0, <2>1
<1>9. ASSUME NEW c \in Client, Latest(to, c) # {}
      PROVE  \E h \in SeqNo : /\ log[r][h].req \in Request /\ log[r][h].req.client = c
                              /\ clientTS'[r][c] = log[r][h].req.ts
    <2> DEFINE h == CHOOSE t \in Latest(to, c) : TRUE
    <2>1. h \in Latest(to, c)
        BY <1>9
    <2>2. clientTS'[r][c] = slots[h].req.ts
        BY <1>7, <1>9
    <2> HIDE DEF h
    <2>3. h \in run(to) /\ slots[h].req.client = c
        BY <2>1
    <2>4. h \in SeqNo /\ slots[h].req \in Request /\ slots[h].req = log[r][h].req
        BY <1>1, <1>3, <1>4, <2>3
    <2>5. QED
        BY <2>2, <2>3, <2>4
<1>10. ASSUME NEW c \in Client, Latest(to, c) = {}
       PROVE  /\ clientTS'[r][c] = clientTS[r][c]
              /\ \A g \in SeqNo : log'[r][g].executed /\ ~log[r][g].executed => log[r][g].req.client # c
    <2>1. clientTS'[r][c] = clientTS[r][c]
        BY <1>7, <1>10
    <2>2. \A g \in run(to) : slots[g].req.client # c
        BY <1>6, <1>10
    <2>3. QED
        BY <1>1, <1>5, <2>1, <2>2
<1>11. QED
    BY <1>8, <1>9, <1>10 DEF Stamps

-----------------------------------------------------------------------------
LEMMA PlacedPhase ==
    ASSUME OneChange, RequestsApart, OnceInv, TypeInv', Phase
    PROVE  PlacedInv'
<1>0. OldLeader \in Replica /\ TypeInv /\ LogsInv /\ PlacedInv
    BY TwoViews DEF OnceInv, AgreeInv
<1>1. PICK r, v, s, a : Quiet(r, v, s, a) \/ Commits(r, v, s, a)
    BY DEF Phase
<1>2. /\ Handles(r, v, s, a) /\ Follows(v, s, a)
      /\ r \in Replica /\ v \in View /\ s \in SeqNo /\ a \in Request
    BY <1>1 DEF Quiet, Commits, Handles
<1>3. Placed(s, a) /\ (v = 0 => Early(s, a)) /\ view' = view /\ newViews' = newViews
    BY <1>2, KnownPlaced DEF Follows, Known, Handles
<1>4. ExecutesLogged
    BY <1>1, <1>2, StaysLogged, RunsLogged DEF Quiet, Commits
<1>5. \A g \in SeqNo : \A b \in Request : Placed(g, b)' => Placed(g, b)
    BY <1>2, <1>3, <1>4, PlacedFrom
<1>6. \A g \in SeqNo : \A b \in Request : Early(g, b)' => Early(g, b)
    BY <1>2, <1>3, EarlyFrom
<1>7. ASSUME view'[OldLeader] = 0, NEW g \in SeqNo, NEW b \in Request, Placed(g, b)', Direct(b)
      PROVE  log'[OldLeader][g].req = b
    <2>1. log[OldLeader][g].req = b
        BY <1>0, <1>3, <1>5, <1>7 DEF PlacedInv
    <2>2. b # NoRequest
        BY RequestFields
    <2>3. QED
        BY <1>2, <1>3, <1>7, <2>1, <2>2, OldLogKept
<1>8. ASSUME view'[OldLeader] = 0, NEW g \in SeqNo, log'[OldLeader][g].executed
      PROVE  clientTS'[OldLeader][log'[OldLeader][g].req.client] = log'[OldLeader][g].req.ts
    <2>0. view[OldLeader] = 0
        BY <1>3, <1>8
    <2>1. log[OldLeader][g].req # NoRequest => log'[OldLeader][g].req = log[OldLeader][g].req
        BY <1>2, <2>0, OldLogKept
    <2>2. CASE Quiet(r, v, s, a)
        <3>1. log[OldLeader][g].executed /\ clientTS' = clientTS
            BY <1>0, <1>8, <2>2 DEF Quiet, Stays
        <3>2. log[OldLeader][g].req # NoRequest
            BY <1>0, <3>1 DEF LogsInv
        <3>3. QED
            BY <1>0, <2>0, <2>1, <3>1, <3>2 DEF PlacedInv
    <2>3. CASE Commits(r, v, s, a)
        <3>1. PICK to : Runs(r, s, to)
            BY <2>3 DEF Commits
        <3>2. Stamps(r) /\ log[r][s].req = a
            BY <1>0, <1>2, <2>3, RequestFields, ExecuteStamps DEF Commits
        <3>3. /\ \A q \in Replica : \A h \in SeqNo :
                    q # r => log'[q][h].executed = log[q][h].executed
              /\ log'[OldLeader][g].req = log[OldLeader][g].req
            BY <1>0, <3>1 DEF Runs
        <3>4. CASE OldLeader # r
            <4>1. log[OldLeader][g].executed /\ clientTS'[OldLeader] = clientTS[OldLeader]
                BY <1>0, <1>8, <3>2, <3>3, <3>4 DEF Stamps
            <4>2. QED
                BY <1>0, <2>0, <3>3, <4>1 DEF PlacedInv
        <3>5. CASE OldLeader = r
            <4> DEFINE b == log[r][g].req
            <4>1. b # NoRequest
                <5>1. CASE log[r][g].executed
                    BY <1>2, <1>0, <5>1 DEF LogsInv
                <5>2. CASE ~log[r][g].executed
                    <6>1. execSeq[r] <= g /\ g < to
                        BY <1>8, <3>1, <3>5, <5>2 DEF Runs
                    <6>2. log'[r][g].commitCert /\ log'[r][g].req = b
                        BY <1>2, <3>1, <6>1 DEF Runs
                    <6>3. QED
                        BY <1>2, <6>2 DEF TypeInv, LocalInv
                <5>3. QED
                    BY <5>1, <5>2
            <4>2. b \in Request /\ Direct(b) /\ b.client \in Client
                BY <2>0, <3>5, <4>1, OldLeaderLog, RequestFields
            <4>3. CASE \E h \in SeqNo : /\ log[r][h].req \in Request /\ log[r][h].req.client = b.client
                                        /\ clientTS'[r][b.client] = log[r][h].req.ts
                <5>1. PICK h \in SeqNo : /\ log[r][h].req \in Request /\ log[r][h].req.client = b.client
                                         /\ clientTS'[r][b.client] = log[r][h].req.ts
                    BY <4>3
                <5>2. Direct(log[r][h].req)
                    BY <2>0, <3>5, <5>1, RequestFields, OldLeaderLog
                <5>3. log[r][h].req = b
                    BY <4>2, <5>1, <5>2 DEF RequestsApart
                <5>4. QED
                    BY <3>3, <3>5, <5>1, <5>3
            <4>4. CASE /\ clientTS'[r][b.client] = clientTS[r][b.client]
                       /\ \A h \in SeqNo : log'[r][h].executed /\ ~log[r][h].executed =>
                            log[r][h].req.client # b.client
                <5>1. log[r][g].executed
                    BY <1>8, <3>5, <4>4
                <5>2. QED
                    BY <1>0, <2>0, <3>3, <3>5, <4>4, <5>1 DEF PlacedInv
            <4>5. QED
                BY <3>2, <4>2, <4>3, <4>4 DEF Stamps
        <3>6. QED
            BY <3>4, <3>5
    <2>4. QED
        BY <1>1, <2>2, <2>3
<1>9. /\ \A g, h \in SeqNo : \A b \in Request : Placed(g, b)' /\ Placed(h, b)' => g = h
      /\ newViews' = {} => \A g \in SeqNo : \A b \in Request : Placed(g, b)' => Direct(b)
      /\ \A g \in SeqNo : \A b \in Request : Early(g, b)' => Direct(b)
    BY <1>0, <1>3, <1>5, <1>6 DEF PlacedInv
<1>10. QED
    BY <1>7, <1>8, <1>9 DEF PlacedInv, Direct, Starters, OldLeader

\* A proposal is the old leader's, of a request that has no slot yet.
LEMMA PlacedStartConsensus ==
    ASSUME OneChange, RequestsApart, OnceInv, NEW r \in Replica, NEW a \in Request,
           StartConsensus(r, a)
    PROVE  PlacedInv'
<1> DEFINE s == nextSeq[r]
           v == view[r]
<1>0. OldLeader \in Replica /\ TypeInv /\ LogsInv /\ PlacedInv /\ a # NoRequest
    BY TwoViews, RequestFields DEF OnceInv, AgreeInv
<1>1. /\ r = LeaderOf[v] /\ r \in Starters(a) /\ s \in SeqNo
      /\ FreshAndFunded(r, a) /\ ~ClientTxnInFlight(r, a)
    BY DEF StartConsensus, IsPrimary, Primary, Starters
<1>2. Leads(r, s, a)
    BY LeadsStartConsensus DEF OnceInv
<1>3. v = 0 /\ r = OldLeader /\ Direct(a)
    <2>1. r # NewLeader
        BY <1>1 DEF RequestsApart
    <2>2. v \in {0, 1}
        BY <1>0, TwoViews DEF TypeInv, TypeOK
    <2>3. v = 0
        BY <1>1, <2>1, <2>2 DEF NewLeader
    <2>4. QED
        BY <1>1, <2>3 DEF OldLeader, Direct
<1> HIDE DEF s, v
<1>4. /\ Handles(r, v, s, a) /\ log'[r][s].req = a /\ log[r][s].req = NoRequest
      /\ view[OldLeader] = 0 /\ view' = view /\ newViews' = newViews
      /\ Stays /\ clientTS' = clientTS
    BY <1>2, <1>3 DEF Leads, Proposes, MayLog, Handles, s, v
<1>5. ASSUME NEW g \in SeqNo, Placed(g, a) PROVE FALSE
    <2>1. log[OldLeader][g].req = a
        BY <1>0, <1>3, <1>4, <1>5 DEF PlacedInv
    <2>2. log[OldLeader][g].executed
        BY <1>1, <1>3, <2>1 DEF ClientTxnInFlight
    <2>3. clientTS[OldLeader][a.client] = a.ts
        BY <1>0, <1>4, <2>1, <2>2 DEF PlacedInv
    <2>4. clientTS[OldLeader][a.client] < a.ts /\ a.ts \in Int
        BY <1>1, <1>3, RequestFields DEF FreshAndFunded
    <2>5. QED
        BY <2>3, <2>4
<1>6. \A g \in SeqNo : \A b \in Request : Placed(g, b)' => Placed(g, b) \/ (g = s /\ b = a)
    BY <1>4, StaysLogged, PlacedFrom
<1>7. \A g \in SeqNo : \A b \in Request : Early(g, b)' => Early(g, b) \/ b = a
    BY <1>4, EarlyFrom
<1>8. ASSUME NEW g \in SeqNo, NEW b \in Request, Placed(g, b)', Direct(b)
      PROVE  log'[OldLeader][g].req = b
    <2>1. CASE g = s /\ b = a
        BY <1>3, <1>4, <2>1
    <2>2. CASE Placed(g, b)
        <3>1. log[OldLeader][g].req = b /\ b # NoRequest
            BY <1>0, <1>4, <1>8, <2>2, RequestFields DEF PlacedInv
        <3>2. QED
            BY <1>4, <3>1, OldLogKept
    <2>3. QED
        BY <1>6, <1>8, <2>1, <2>2
<1>9. ASSUME NEW g \in SeqNo, log'[OldLeader][g].executed
      PROVE  clientTS'[OldLeader][log'[OldLeader][g].req.client] = log'[OldLeader][g].req.ts
    <2>1. log[OldLeader][g].executed
        BY <1>0, <1>4, <1>9 DEF Stays
    <2>2. log[OldLeader][g].req # NoRequest
        BY <1>0, <2>1 DEF LogsInv
    <2>3. log'[OldLeader][g].req = log[OldLeader][g].req
        BY <1>4, <2>2, OldLogKept
    <2>4. QED
        BY <1>0, <1>4, <2>1, <2>3 DEF PlacedInv
<1>10. \A g, h \in SeqNo : \A b \in Request : Placed(g, b)' /\ Placed(h, b)' => g = h
    BY <1>0, <1>5, <1>6 DEF PlacedInv
<1>11. /\ newViews' = {} => \A g \in SeqNo : \A b \in Request : Placed(g, b)' => Direct(b)
       /\ \A g \in SeqNo : \A b \in Request : Early(g, b)' => Direct(b)
    BY <1>0, <1>3, <1>4, <1>6, <1>7 DEF PlacedInv
<1>12. QED
    BY <1>8, <1>9, <1>10, <1>11 DEF PlacedInv, Direct, Starters, OldLeader

LEMMA PlacedIdle ==
    ASSUME OneChange, PlacedInv, Idle
    PROVE  PlacedInv'
<1>1. /\ \A g, a : Placed(g, a)' <=> Placed(g, a)
      /\ \A g, a : Early(g, a)' <=> Early(g, a)
    BY DEF Placed, Early, Renewed, Idle, execVars
<1>2. QED
    BY <1>1 DEF PlacedInv, Direct, Starters, OldLeader, Idle, execVars

-----------------------------------------------------------------------------
\* Replicas send VIEW-CHANGE from view 0, enter view 1, or the new leader builds
\* the NEW-VIEW.
Issues(nv) == \E recorded \in SUBSET viewChanges' :
    /\ nv \in NewViewsFor(NewLeader, 1, recorded)
    /\ \A p \in ToSet(nv.prePrepares) : p.seq \in SeqNo

Changes ==
    /\ UNCHANGED slotVars /\ UNCHANGED execVars
    /\ \A q \in Replica : view'[q] = 0 => view[q] = 0
    /\ \A q \in Replica : pending'[q] \subseteq pending[q]
    /\ \A m \in viewChanges' : m \in viewChanges \/
        \E q \in Replica : view[q] = 0 /\ m = BuildViewChange(q)
    /\ \/ newViews' = newViews
       \/ newViews = {} /\ \E nv : newViews' = {nv} /\ Issues(nv)

LEMMA EntersView ==
    ASSUME TypeOK, NEW r \in Replica, NEW nv, nv.view = 1, EnterView(r, nv)
    PROVE  \A q \in Replica : /\ view'[q] = 0 => view[q] = 0
                              /\ pending'[q] \subseteq pending[q]
BY DEF EnterView, TypeOK

LEMMA ChangesTryIssue ==
    ASSUME OneChange, AgreeInv, NEW r \in Replica,
           NEW recorded, recorded \subseteq viewChanges', NEW fired,
           TryIssueNewView(r, 1, recorded, fired),
           \A m \in viewChanges' : m \in viewChanges \/
                \E q \in Replica : view[q] = 0 /\ m = BuildViewChange(q),
           UNCHANGED slotVars, UNCHANGED execVars
    PROVE  Changes
<1>0. TypeInv /\ TypeOK /\ ViewsInv
    BY DEF AgreeInv, TypeInv
<1>1. CASE IssuesNewView(r, 1, recorded)
    <2>1. r = NewLeader /\ newViews = {}
        BY <1>0, <1>1 DEF IssuesNewView, NewLeader, ViewsInv
    <2>2. PICK nv \in NewViewsFor(r, 1, recorded) :
            /\ \A p \in ToSet(nv.prePrepares) : p.seq \in SeqNo
            /\ newViews' = newViews \cup {nv}
            /\ EnterView(r, nv)
        BY <1>1 DEF TryIssueNewView
    <2>3. nv.view = 1
        <3>1. PICK order \in SetToSeqs({m \in recorded : m.newView = 1}) :
                   \E old \in SetToSeqs(Chosen(order)) :
                   \E new \in SetToSeqs(Unassigned(r, recorded, Chosen(order))) :
                      nv = NewView(1, old, new, FirstNew(r, order))
            BY NewViewIs
        <3>2. QED
            BY <3>1 DEF NewView
    <2>4. \A q \in Replica : /\ view'[q] = 0 => view[q] = 0
                             /\ pending'[q] \subseteq pending[q]
        BY <1>0, <2>2, <2>3, EntersView
    <2>5. newViews' = {nv} /\ Issues(nv)
        BY <2>1, <2>2 DEF Issues
    <2>6. QED
        BY <2>1, <2>4, <2>5 DEF Changes
<1>2. CASE ~IssuesNewView(r, 1, recorded)
    BY <1>2 DEF TryIssueNewView, Changes
<1>3. QED
    BY <1>1, <1>2

LEMMA ChangesTrigger ==
    ASSUME OneChange, AgreeInv, NEW r \in Replica, view[r] = 0,
           NEW recorded, recorded \subseteq viewChanges, NEW fired,
           TriggerViewChange(r, recorded, fired), UNCHANGED slotVars, UNCHANGED execVars
    PROVE  Changes
<1> DEFINE own == BuildViewChange(r)
<1>1. own.newView = 1
    BY DEF BuildViewChange
<1> HIDE DEF own
<1>2. CASE Sent(r, 1)
    BY <1>1, <1>2 DEF TriggerViewChange, own, Changes
<1>3. CASE ~Sent(r, 1)
    <2>1. viewChanges' = viewChanges \cup {own} /\ TryIssueNewView(r, 1, recorded \cup {own}, fired)
        BY <1>1, <1>3 DEF TriggerViewChange, own
    <2>2. \A m \in viewChanges' : m \in viewChanges \/
            \E q \in Replica : view[q] = 0 /\ m = BuildViewChange(q)
        BY <2>1 DEF own
    <2>3. QED
        BY <2>1, <2>2, ChangesTryIssue
<1>4. QED
    BY <1>2, <1>3

LEMMA ChangesTimeout ==
    ASSUME OneChange, AgreeInv, NEW r \in Replica, Timeout(r)
    PROVE  Changes
<1>1. view[r] \in {0, 1} /\ view[r] < 1 /\ vcLog[r] \subseteq viewChanges
    BY TwoViews DEF AgreeInv, TypeInv, TypeOK, LocalInv, Timeout
<1>2. view[r] = 0
    BY <1>1
<1>3. TriggerViewChange(r, vcLog[r], [timer EXCEPT ![r] = "fired"])
      /\ UNCHANGED slotVars /\ UNCHANGED execVars
    BY DEF Timeout
<1>4. QED
    BY <1>1, <1>2, <1>3, ChangesTrigger

LEMMA ChangesOnViewChange ==
    ASSUME OneChange, AgreeInv, NEW r \in Replica, NEW m \in viewChanges, OnViewChange(r, m)
    PROVE  Changes
<1> DEFINE recorded == vcLog[r] \cup {m}
<1>1. /\ m.newView > view[r] /\ m.newView = 1 /\ view[r] \in {0, 1} /\ vcLog[r] \subseteq viewChanges
      /\ UNCHANGED slotVars /\ UNCHANGED execVars
      /\ \/ TriggerViewChange(r, recorded, timer)
         \/ /\ TryIssueNewView(r, m.newView, recorded, timer)
            /\ UNCHANGED viewChanges
    BY TwoViews DEF OnViewChange, AgreeInv, ViewChangesInv, TypeInv, TypeOK
<1>2. view[r] = 0 /\ recorded \subseteq viewChanges
    BY <1>1
<1> HIDE DEF recorded
<1>3. CASE TriggerViewChange(r, recorded, timer)
    BY <1>1, <1>2, <1>3, ChangesTrigger
<1>4. CASE TryIssueNewView(r, 1, recorded, timer) /\ UNCHANGED viewChanges
    BY <1>1, <1>2, <1>4, ChangesTryIssue
<1>5. QED
    BY <1>1, <1>3, <1>4

LEMMA ChangesOnNewView ==
    ASSUME OneChange, AgreeInv, NEW r \in Replica, NEW nv \in newViews, OnNewView(r, nv)
    PROVE  Changes
<1>1. nv.view = 1 /\ TypeOK
    BY DEF AgreeInv, ViewsInv, TypeInv
<1>2. EnterView(r, nv) /\ UNCHANGED slotVars /\ UNCHANGED execVars
      /\ UNCHANGED <<vcLog, viewChanges, newViews>>
    BY DEF OnNewView
<1>3. QED
    BY <1>1, <1>2, EntersView DEF Changes

\* A NEW-VIEW names a request once; it took over what a VIEW-CHANGE has in that
\* slot, or it was pending and in no VIEW-CHANGE that was taken over.
LEMMA NewViewOnce ==
    ASSUME OneChange, TypeInv, TypeInv', NEW nv, Issues(nv), PendedInv,
           PendedInv'
    PROVE  /\ \A p \in ToSet(nv.prePrepares) :
                \/ \E m \in viewChanges' : \E d \in m.prepared : d.seq = p.seq /\ d.req = p.req
                \/ p.req \in Request /\ ~Direct(p.req)
           /\ \A p, q \in ToSet(nv.prePrepares) : p.req = q.req /\ p.seq # q.seq =>
                \A e \in {p, q} :
                  \E m \in viewChanges' : \E d \in m.prepared : d.seq = e.seq /\ d.req = e.req
<1>1. PICK recorded \in SUBSET viewChanges' : nv \in NewViewsFor(NewLeader, 1, recorded)
    BY DEF Issues
<1> DEFINE r == NewLeader
           T == {m \in recorded : m.newView = 1}
<1>2. /\ Recordable(recorded) /\ Recordable(T) /\ r \in Replica /\ 1 \in View
      /\ IsFiniteSet(pending[r]) /\ pending[r] \subseteq Request /\ nextSeq[r] \in Nat
    <2>1. Recordable(recorded)
        BY FS_Subset DEF Recordable, TypeInv, ViewChangesTyped
    <2>2. Recordable(T)
        BY <2>1, RecordableSubset
    <2>3. r \in Replica /\ 1 \in View
        BY TwoViews
    <2>4. IsFiniteSet(pending[r]) /\ pending[r] \subseteq Request /\ nextSeq[r] \in Nat
        <3> HIDE DEF r
        <3>1. QED
            BY <2>3 DEF TypeInv, TypeOK, LocalInv
    <2>5. QED
        BY <2>1, <2>2, <2>3, <2>4
<1>3. PICK order \in SetToSeqs(T) :
        \E new \in SetToSeqs(Unassigned(r, recorded, Chosen(order))) :
              /\ FirstNew(r, order) \in Nat
              /\ \A p \in ToSet(nv.prePrepares) :
                    \/ p \in Chosen(order)
                    \/ \E i \in DOMAIN new : p = [seq |-> FirstNew(r, order) + i - 1, req |-> new[i]]
    BY <1>1, <1>2, NewViewSlots
<1> DEFINE U == Unassigned(r, recorded, Chosen(order))
           first == FirstNew(r, order)
<1>4. PICK new \in SetToSeqs(U) :
              /\ first \in Nat
              /\ \A p \in ToSet(nv.prePrepares) :
                    \/ p \in Chosen(order)
                    \/ \E i \in DOMAIN new : p = [seq |-> first + i - 1, req |-> new[i]]
    BY <1>3
<1>5. \A p \in Chosen(order) :
        \E m \in viewChanges' : \E d \in m.prepared : d.seq = p.seq /\ d.req = p.req
    <2>1. \A p \in Chosen(order) : \E m \in T : \E d \in m.prepared : d.seq = p.seq /\ d.req = p.req
        BY <1>2, ChosenAre
    <2>2. QED
        BY <2>1
<1>6. IsFiniteSet(U) /\ U \subseteq Request
    BY <1>2, UnassignedAre
<1>7. /\ \A i \in DOMAIN new : new[i] \in U
      /\ \A i, j \in DOMAIN new : new[i] = new[j] => i = j
    <2> HIDE DEF U
    <2>1. QED
        BY <1>6, SequencesOf
<1>8. \A a \in U : ~Direct(a) /\ \A p \in Chosen(order) : p.req # a
    <2>1. \A a \in U : a \in pending[r] \cup UNION {m.pending : m \in recorded}
                       /\ \A p \in Chosen(order) : p.req # a
        BY DEF Unassigned
    <2>2. \A a \in pending[r] : ~Direct(a)
        BY <1>2 DEF PendedInv
    <2>3. \A m \in recorded : \A a \in m.pending : ~Direct(a)
        BY DEF PendedInv, Direct, Starters, OldLeader
    <2>4. QED
        BY <2>1, <2>2, <2>3
<1> HIDE DEF U, first
<1>9. \A p \in ToSet(nv.prePrepares) : p \in Chosen(order) \/
        \E i \in DOMAIN new : p.seq = first + i - 1 /\ p.req = new[i] /\ p.req \in U
    BY <1>4, <1>7
<1>10. ASSUME NEW p \in ToSet(nv.prePrepares), NEW q \in ToSet(nv.prePrepares),
              p.req = q.req, p.seq # q.seq
       PROVE  p \in Chosen(order) /\ q \in Chosen(order)
    BY <1>7, <1>8, <1>9, <1>10
<1>11. QED
    BY <1>5, <1>6, <1>8, <1>9, <1>10

LEMMA PlacedChanges ==
    ASSUME OneChange, RequestsApart, OnceInv, TypeInv', PendedInv', Changes
    PROVE  PlacedInv'
<1>0. OldLeader \in Replica /\ TypeInv /\ PendedInv /\ PlacedInv
    BY TwoViews DEF OnceInv, AgreeInv
<1>1. /\ log' = log /\ net' = net /\ waiting' = waiting
      /\ execSeq' = execSeq /\ datastore' = datastore /\ clientTS' = clientTS
    BY DEF Changes, slotVars, execVars
<1>2. ASSUME NEW m \in viewChanges', m \notin viewChanges, NEW d \in m.prepared
      PROVE  \E q \in Replica : view[q] = 0 /\ log[q][d.seq].req = d.req
    <2>1. PICK q \in Replica : view[q] = 0 /\ m = BuildViewChange(q)
        BY <1>2 DEF Changes
    <2>2. log[q][d.seq].req = d.req
        BY <1>2, <2>1 DEF BuildViewChange
    <2>3. QED
        BY <2>1, <2>2
<1>3. \A g, a : (\E m \in viewChanges' : \E d \in m.prepared : d.seq = g /\ d.req = a) => Placed(g, a)
    BY <1>2 DEF Placed
<1>4. \A g, a : Placed(g, a)' => Placed(g, a) \/ Renewed(g, a)'
    BY <1>1, <1>3 DEF Placed
<1>5. \A g, a : Early(g, a)' => Early(g, a)
    BY <1>1, <1>2 DEF Early, Changes
<1>6. CASE newViews' = newViews
    <2>1. \A g, a : Placed(g, a)' => Placed(g, a)
        BY <1>4, <1>6 DEF Placed, Renewed
    <2>2. QED
        BY <1>0, <1>1, <1>5, <1>6, <2>1 DEF PlacedInv, Changes, Direct, Starters, OldLeader
<1>7. ASSUME newViews = {}, NEW nv, newViews' = {nv}, Issues(nv)
      PROVE  PlacedInv'
    <2> DEFINE In(g, a) == \E p \in ToSet(nv.prePrepares) : p.seq = g /\ p.req = a
    <2>1. /\ \A p \in ToSet(nv.prePrepares) :
                \/ \E m \in viewChanges' : \E d \in m.prepared : d.seq = p.seq /\ d.req = p.req
                \/ p.req \in Request /\ ~Direct(p.req)
          /\ \A p, q \in ToSet(nv.prePrepares) : p.req = q.req /\ p.seq # q.seq =>
                \A e \in {p, q} :
                  \E m \in viewChanges' : \E d \in m.prepared : d.seq = e.seq /\ d.req = e.req
        BY <1>0, <1>7, NewViewOnce
    <2>2. \A g, a : Renewed(g, a)' <=> In(g, a)
        BY <1>7 DEF Renewed
    <2>3. \A g, a : In(g, a) => Placed(g, a) \/ ~Direct(a)
        BY <1>3, <2>1
    <2>4. \A g, h, a : In(g, a) /\ In(h, a) /\ g # h => Placed(g, a) /\ Placed(h, a)
        BY <1>3, <2>1
    <2> HIDE DEF In
    <2>5. \A g \in SeqNo : \A a \in Request : Placed(g, a) => Direct(a)
        BY <1>0, <1>7 DEF PlacedInv
    <2>6. ASSUME NEW g \in SeqNo, NEW h \in SeqNo, NEW a \in Request, Placed(g, a)', Placed(h, a)', g # h
          PROVE  FALSE
        <3>1. Placed(g, a) /\ Placed(h, a)
            BY <1>4, <2>2, <2>3, <2>4, <2>5, <2>6
        <3>2. QED
            BY <1>0, <2>6, <3>1 DEF PlacedInv
    <2>7. \A g \in SeqNo : \A a \in Request : Placed(g, a)' /\ Direct(a) => Placed(g, a)
        BY <1>4, <2>2, <2>3
    <2>8. newViews' # {}
        BY <1>7
    <2>9. view'[OldLeader] = 0 => view[OldLeader] = 0
        BY <1>0 DEF Changes
    <2>10. QED
        BY <1>0, <1>1, <1>5, <2>6, <2>7, <2>8, <2>9 DEF PlacedInv, Direct, Starters, OldLeader
<1>8. QED
    BY <1>6, <1>7 DEF Changes

-----------------------------------------------------------------------------
\* What is pending changes only when a request comes to a backup or the view does.
LEMMA PendedPhase ==
    ASSUME PhaseNext
    PROVE  pending' = pending /\ viewChanges' = viewChanges
<1>1. ASSUME NEW m \in net, Handle(m) PROVE pending' = pending /\ viewChanges' = viewChanges
    BY <1>1 DEF Handle, OnPrePrepare, OnPrepareCert, OnCommitCert, Drop, viewVars
<1>2. ASSUME NEW r \in Replica, NEW s \in SeqNo, OnPrepare(r, s) \/ OnCommit(r, s)
      PROVE  pending' = pending /\ viewChanges' = viewChanges
    BY <1>2 DEF OnPrepare, OnCommit, viewVars
<1>3. ASSUME NEW r \in Replica, NEW t \in waiting[r], LockAndPrepare(r, t)
      PROVE  pending' = pending /\ viewChanges' = viewChanges
    BY <1>3 DEF LockAndPrepare, viewVars
<1>4. QED
    BY <1>1, <1>2, <1>3 DEF PhaseNext

LEMMA PendedChanges == ASSUME OneChange, PendedInv, Changes PROVE PendedInv'
<1>1. \A q \in Replica : \A a \in pending'[q] : ~Direct(a)
    BY DEF PendedInv, Changes
<1>2. ASSUME NEW m \in viewChanges', NEW a \in m.pending PROVE ~Direct(a)
    <2>1. CASE m \in viewChanges
        BY <2>1 DEF PendedInv
    <2>2. ASSUME NEW q \in Replica, m = BuildViewChange(q) PROVE ~Direct(a)
        <3>1. m.pending = pending[q]
            BY <2>2 DEF BuildViewChange
        <3>2. QED
            BY <3>1 DEF PendedInv
    <2>3. QED
        BY <2>1, <2>2 DEF Changes
<1>3. QED
    BY <1>1, <1>2 DEF PendedInv, Direct, Starters, OldLeader

\* The old leader starts a request that it gets, and nobody else gets that one.
LEMMA PendedOnBackupClientRequest ==
    ASSUME OneChange, RequestsApart, TypeInv, PendedInv, NEW r \in Replica, NEW b \in Request,
           OnBackupClientRequest(r, b)
    PROVE  PendedInv'
<1>1. ~Direct(b)
    <2>1. SUFFICES ASSUME Direct(b) PROVE FALSE
        OBVIOUS
    <2>2. r = OldLeader /\ r \notin ByzantineLeader
        BY <2>1 DEF RequestsApart, OnBackupClientRequest, Direct, Starters
    <2>3. view[r] \in {0, 1} /\ view[r] < 1
        BY TwoViews DEF OnBackupClientRequest, OneChange, TypeInv, TypeOK
    <2>4. IsPrimary(r)
        BY <2>2, <2>3 DEF IsPrimary, Primary, OldLeader
    <2>5. QED
        BY <2>2, <2>4 DEF OnBackupClientRequest
<1>2. /\ pending' = [pending EXCEPT ![r] = @ \cup {b}] /\ viewChanges' = viewChanges
      /\ pending \in [Replica -> SUBSET Request]
    BY DEF OnBackupClientRequest, TypeInv, TypeOK
<1>3. \A q \in Replica : \A a \in pending'[q] : a \in pending[q] \/ a = b
    BY <1>2
<1>4. QED
    BY <1>1, <1>2, <1>3 DEF PendedInv, Direct, Starters, OldLeader

-----------------------------------------------------------------------------
\* The new slots follow the executed ones.
LEMMA OrderJoined ==
    ASSUME NEW S, NEW d \in Seq(S), NEW from, from = Len(d) + 1, NEW n \in Nat,
           NEW e, DOMAIN e = 1 .. n, \A i \in 1 .. n : e[i].seq = from + i - 1,
           \A k \in 1 .. Len(d) : d[k].seq = k
    PROVE  /\ Len(d \o e) = Len(d) + n
           /\ \A k \in 1 .. Len(d \o e) : (d \o e)[k].seq = k
<1>1. Len(e) = n /\ Len(d) \in Nat
    OBVIOUS
<1>2. Len(d \o e) = Len(d) + n
    BY <1>1
<1>3. ASSUME NEW k \in 1 .. Len(d) + n PROVE (d \o e)[k].seq = k
    <2>1. CASE k <= Len(d)
        <3>1. (d \o e)[k] = d[k]
            BY <1>1, <2>1
        <3>2. QED
            BY <1>1, <2>1, <3>1
    <2>2. CASE k > Len(d)
        <3>1. (d \o e)[k] = e[k - Len(d)] /\ k - Len(d) \in 1 .. n
            BY <1>1, <2>2
        <3>2. QED
            BY <1>1, <3>1
    <2>3. QED
        BY <1>1, <2>1, <2>2
<1>4. QED
    BY <1>2, <1>3

LEMMA OrderExecuted ==
    ASSUME TypeInv, OrderInv, NEW r \in Replica, NEW slots, TryExecute(r, slots)
    PROVE  OrderInv'
<1>0. /\ execSeq \in [Replica -> 1 .. MaxSeq + 1] /\ MaxSeq \in Nat
      /\ datastore \in [Replica -> Seq(PrePrepare)]
    BY RequestAssumption DEF TypeInv, TypeOK
<1>1. PICK to \in execSeq[r] .. MaxSeq + 1 :
        /\ execSeq' = [execSeq EXCEPT ![r] = to]
        /\ datastore' = [datastore EXCEPT ![r] =
              @ \o [i \in 1 .. to - execSeq[r] |->
                    [seq |-> execSeq[r] + i - 1, req |-> slots[execSeq[r] + i - 1].req]]]
    BY Zenon DEF TryExecute
<1> DEFINE d == datastore[r]
           n == to - execSeq[r]
           e == [i \in 1 .. n |-> [seq |-> execSeq[r] + i - 1, req |-> slots[execSeq[r] + i - 1].req]]
<1>2. /\ d \in Seq(PrePrepare) /\ n \in Nat /\ execSeq[r] = Len(d) + 1
      /\ \A k \in 1 .. Len(d) : d[k].seq = k
    BY <1>0 DEF OrderInv
<1>3. DOMAIN e = 1 .. n /\ \A i \in 1 .. n : e[i].seq = execSeq[r] + i - 1
    OBVIOUS
<1>4. /\ datastore'[r] = d \o e /\ execSeq'[r] = to
      /\ \A q \in Replica : q # r => datastore'[q] = datastore[q] /\ execSeq'[q] = execSeq[q]
    BY <1>0, <1>1
<1> HIDE DEF e
<1>5. Len(d \o e) = Len(d) + n /\ \A k \in 1 .. Len(d \o e) : (d \o e)[k].seq = k
    BY <1>2, <1>3, OrderJoined
<1>6. Len(datastore'[r]) = execSeq'[r] - 1
    BY <1>0, <1>2, <1>4, <1>5
<1>7. QED
    BY <1>4, <1>5, <1>6 DEF OrderInv

LEMMA OrderPhase == ASSUME OneChange, OnceInv, Phase PROVE OrderInv'
<1>1. PICK r, v, s, a : Quiet(r, v, s, a) \/ Commits(r, v, s, a)
    BY DEF Phase
<1>2. CASE Quiet(r, v, s, a)
    BY <1>2 DEF Quiet, Stays, OnceInv, OrderInv
<1>3. CASE Commits(r, v, s, a)
    BY <1>3, OrderExecuted DEF Commits, Handles, OnceInv, AgreeInv
<1>4. QED
    BY <1>1, <1>2, <1>3

-----------------------------------------------------------------------------
LEMMA OnceInit == ASSUME OneChange, Init PROVE OnceInv
<1>1. /\ \A r \in Replica : view[r] = 0 /\ execSeq[r] = 1 /\ pending[r] = {}
      /\ \A r \in Replica : waiting[r] = {} /\ datastore[r] = <<>>
      /\ \A r \in Replica : \A s \in SeqNo : log[r][s].req = NoRequest /\ ~log[r][s].executed
      /\ viewChanges = {} /\ newViews = {} /\ net = {}
    BY DEF Init, EmptySlot
<1>2. AgreeInv
    BY AgreeInit
<1>3. \A r \in Replica : ToSet(datastore[r]) = {}
    BY <1>1 DEF ToSet
<1>4. \A g \in SeqNo : \A a \in Request : ~Placed(g, a) /\ ~Early(g, a)
    BY <1>1, <1>3, RequestFields DEF Placed, Early, Renewed
<1>5. OldLeader \in Replica
    BY TwoViews
<1>6. PlacedInv
    BY <1>1, <1>4, <1>5 DEF PlacedInv
<1>7. PendedInv /\ OrderInv
    BY <1>1 DEF PendedInv, OrderInv
<1>8. QED
    BY <1>2, <1>6, <1>7 DEF OnceInv

LEMMA OnceChanges ==
    ASSUME OneChange, RequestsApart, OnceInv, AgreeInv', Changes
    PROVE  OnceInv'
<1>1. TypeInv' /\ PendedInv'
    BY PendedChanges DEF AgreeInv, OnceInv
<1>2. OrderInv'
    BY DEF OnceInv, OrderInv, Changes, execVars
<1>3. QED
    BY <1>1, <1>2, PlacedChanges DEF OnceInv

LEMMA OnceIdle == ASSUME OneChange, OnceInv, PendedInv', AgreeInv', Idle PROVE OnceInv'
<1>1. OrderInv'
    BY DEF OnceInv, OrderInv, Idle, execVars
<1>2. QED
    BY <1>1, PlacedIdle DEF OnceInv

LEMMA OncePhase ==
    ASSUME OneChange, RequestsApart, OnceInv, PendedInv', AgreeInv', Phase
    PROVE  OnceInv'
BY PlacedPhase, OrderPhase DEF OnceInv, AgreeInv

LEMMA OnceStep == ASSUME OneChange, RequestsApart PROVE OnceInv /\ [Next]_vars => OnceInv'
<1> SUFFICES ASSUME OnceInv, [Next]_vars PROVE OnceInv'
    OBVIOUS
<1>0. AgreeInv /\ AgreeInv' /\ TypeInv
    BY AgreeStep DEF OnceInv, AgreeInv
<1>2. CASE UNCHANGED vars
    <2>1. Idle /\ pending' = pending
        BY <1>2 DEF Idle, InstallShrinks, vars, slotVars, execVars, viewVars
    <2>2. PendedInv'
        BY <2>1 DEF OnceInv, PendedInv, Direct, Starters, OldLeader, Idle
    <2>3. QED
        BY <1>0, <2>1, <2>2, OnceIdle
<1>3. ASSUME NEW r \in Replica, NEW a \in Request, StartConsensus(r, a) PROVE OnceInv'
    <2>1. pending' = pending /\ viewChanges' = viewChanges /\ execVars' = execVars
        BY <1>3 DEF StartConsensus
    <2>2. PendedInv'
        BY <2>1 DEF OnceInv, PendedInv, Direct, Starters, OldLeader
    <2>3. OrderInv'
        BY <2>1 DEF OnceInv, OrderInv, execVars
    <2>4. QED
        BY <1>0, <1>3, <2>2, <2>3, PlacedStartConsensus DEF OnceInv
<1>4. ASSUME NEW r \in Replica, NEW a \in Request, OnBackupClientRequest(r, a) PROVE OnceInv'
    <2>1. Idle
        BY <1>4 DEF OnBackupClientRequest, Idle, InstallShrinks, slotVars
    <2>2. PendedInv'
        BY <1>0, <1>4, PendedOnBackupClientRequest DEF OnceInv
    <2>3. QED
        BY <1>0, <2>1, <2>2, OnceIdle
<1>5. CASE PhaseNext
    <2>1. PendedInv'
        BY <1>5, PendedPhase DEF OnceInv, PendedInv, Direct, Starters, OldLeader
    <2>2. QED
        BY <1>0, <1>5, <2>1, PhaseStep, OncePhase
<1>6. ASSUME NEW r \in Replica, NEW v \in View, AcceptNewViewPrePrepare(r, v) PROVE OnceInv'
    <2>1. pending' = pending /\ viewChanges' = viewChanges
        BY <1>6 DEF AcceptNewViewPrePrepare
    <2>2. PendedInv'
        BY <2>1 DEF OnceInv, PendedInv, Direct, Starters, OldLeader
    <2>3. QED
        BY <1>0, <1>6, <2>2, PhaseAcceptNewViewPrePrepare, OncePhase, OnceIdle
<1>7. ASSUME \/ \E r \in Replica : Timeout(r)
             \/ \E r \in Replica : \E m \in viewChanges : OnViewChange(r, m)
             \/ \E r \in Replica : \E nv \in newViews : OnNewView(r, nv)
      PROVE  OnceInv'
    <2>1. Changes
        BY <1>0, <1>7, ChangesTimeout, ChangesOnViewChange, ChangesOnNewView
    <2>2. QED
        BY <1>0, <2>1, OnceChanges
<1>8. QED
    BY <1>2, <1>3, <1>4, <1>5, <1>6, <1>7, PhaseSteps

\* Nothing is executed twice over one change of view in a cluster of 3F + 1, if
\* what one leader starts is pending nowhere else and no client has two requests
\* at the old leader: the NEW-VIEW then numbers no request anew that has a slot,
\* and nobody proposes what is in a slot already.
THEOREM ExecutesOnce == ASSUME OneChange, RequestsApart PROVE Spec => []ExecutedOnce
<1>1. Init => OnceInv
    BY OnceInit
<1>2. OnceInv /\ [Next]_vars => OnceInv'
    BY OnceStep
<1>3. OnceInv => ExecutedOnce
    <2> SUFFICES ASSUME OnceInv, NEW r \in Replica,
                        NEW j \in DOMAIN datastore[r], NEW k \in DOMAIN datastore[r],
                        datastore[r][j].req = datastore[r][k].req
                 PROVE  j = k
        BY DEF ExecutedOnce
    <2>1. datastore[r] \in Seq(PrePrepare)
        BY DEF OnceInv, AgreeInv, TypeInv, TypeOK
    <2>2. DOMAIN datastore[r] = 1 .. Len(datastore[r])
        BY <2>1
    <2>3. datastore[r][j] \in PrePrepare /\ datastore[r][k] \in PrePrepare
        BY <2>1
    <2>4. datastore[r][j].seq = j /\ datastore[r][k].seq = k
        BY <2>2 DEF OnceInv, OrderInv
    <2>5. datastore[r][j] \in ToSet(datastore[r]) /\ datastore[r][k] \in ToSet(datastore[r])
        BY DEF ToSet
    <2> DEFINE a == datastore[r][j].req
    <2>6. j \in SeqNo /\ k \in SeqNo /\ a \in Request
        BY <2>3, <2>4 DEF PrePrepare
    <2>7. Placed(j, a) /\ Placed(k, a)
        BY <2>4, <2>5 DEF Placed
    <2>8. QED
        BY <2>6, <2>7 DEF OnceInv, PlacedInv
<1>4. QED
    BY <1>1, <1>2, <1>3, PTL DEF Spec
====
