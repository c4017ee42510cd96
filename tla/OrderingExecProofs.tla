------------------------- MODULE OrderingExecProofs -------------------------
(***************************************************************************)
(* Proofs about what Ordering executes and when: executed slots follow     *)
(* each other, ppARU keeps up with ARU, and a slot that waits is woken.    *)
(* They rest on OrdInv and on two more groups of facts, about the Prepares *)
(* behind a certificate and about each replica's bookkeeping.              *)
(***************************************************************************)
EXTENDS OrderingProofs

First_Leader == UTIL_Leader_Of_View[1]

(* Until its first view change a replica holds Pre-Prepares of the first   *)
(* view only; nobody completes a view change in this module.               *)
FirstView ==
  \A r \in Correct : view_change_done[r] =>
    /\ View[r] = 1
    /\ \A s \in Seqs : pre_prepare[r][s] # NoPP => pre_prepare[r][s].view = 1

(* An accepted Pre-Prepare was sent by its leader, unless that is Byzantine. *)
SlotsSent ==
  \A r \in Correct, s \in Seqs :
    pre_prepare[r][s] # NoPP =>
      LET l == UTIL_Leader_Of_View[pre_prepare[r][s].view] IN
      l \notin Byzantine => Pre_Prepare(l, pre_prepare[r][s]) \in msgs

(* n is the Pre-Prepare that the sender of m sent for sequence number s.   *)
ProposedAt(m, n, s) ==
  n.type = "PRE_PREPARE" /\ n.sender = m.sender /\ n.pp.seq = s

(* A leader that is not Byzantine proposes one Pre-Prepare per sequence    *)
(* number, each starting where the one before it stops.                    *)
LeaderProposes(m) ==
  /\ m.sender \in Correct
  /\ m.sender = First_Leader
  /\ m.pp.view = 1
  /\ m.pp.seq < seq[m.sender]
  /\ m.pp.seq = 1 => m.pp.last_executed = 0
  /\ \A n \in msgs : ProposedAt(m, n, m.pp.seq) => n.pp = m.pp
  /\ \A n \in msgs : ProposedAt(m, n, m.pp.seq - 1) =>
       m.pp.last_executed = Made_Eligible(n.pp)

LeadersPropose ==
  \A m \in msgs :
    m.type = "PRE_PREPARE" /\ m.sender \notin Byzantine => LeaderProposes(m)

(* What a replica prepares it has accepted, and compared with what it has  *)
(* accepted for the sequence number before.                                *)
Prepared(m) ==
  /\ m.sender \in Correct
  /\ m.pp.view = 1
  /\ pre_prepare[m.sender][m.pp.seq] = m.pp
  /\ m.pp.seq = 1 => m.pp.last_executed = 0
  /\ m.pp.seq > 1 =>
       /\ pre_prepare[m.sender][m.pp.seq - 1] # NoPP
       /\ m.pp.last_executed = Made_Eligible(pre_prepare[m.sender][m.pp.seq - 1])

PreparesCompared == \A m \in msgs : m.type = "PREPARE" => Prepared(m)

(* A stored Prepare was sent, unless its sender is Byzantine; none is the  *)
(* leader's.                                                               *)
CountedPrepares ==
  \A r \in Correct, s \in Seqs, q \in Servers :
    prepare[r][s][q] # NoPP =>
      /\ q # UTIL_Leader_Of_View[prepare[r][s][q].view]
      /\ q \notin Byzantine => Prepare(q, prepare[r][s][q]) \in msgs

PrepareVotes(r, s, pp) == {q \in Servers : prepare[r][s][q] = pp}

(* A certificate has 2f+k Prepares behind it.                              *)
CertificatesBacked ==
  \A r \in Correct, s \in Seqs :
    prepare_certificate[r][s] # NoPP =>
      Cardinality(PrepareVotes(r, s, prepare_certificate[r][s])) >= Quorum - 1

ChainInv ==
  /\ FirstView
  /\ SlotsSent
  /\ LeadersPropose
  /\ PreparesCompared
  /\ CountedPrepares
  /\ CertificatesBacked

(* made_eligible, where it is filled in, is what the slot's Pre-Prepare    *)
(* makes eligible, or the one that the replica itself has proposed.        *)
Knows_Eligible(r, s, e) ==
  \E pp \in PrePrepare :
    /\ e = Made_Eligible(pp)
    /\ \/ pre_prepare[r][s] = pp
       \/ pre_prepare[r][s] = NoPP /\ pp.seq = s /\ Pre_Prepare(r, pp) \in msgs

EligibleKnown ==
  \A r \in Correct :
    /\ made_eligible[r][0] = 0
    /\ view_change_done[r] => \A s \in Seqs :
         made_eligible[r][s] # Unpopulated => Knows_Eligible(r, s, made_eligible[r][s])

(* What is ordered is executed or waits.                                   *)
OrderedWaits ==
  \A r \in Correct, s \in Seqs :
    s \in ordered[r] => s <= ARU[r] \/ s \in Pending_Execution[r]

(* A slot waits only for PO-Requests that are still to come.               *)
MissingToCome ==
  \A r \in Correct, s \in Seqs : \A q \in missing[r][s] : q > cum_aru[r]

ExecInv ==
  /\ EligibleKnown
  /\ AcceptedCoversExecuted
  /\ OrderedWaits
  /\ MissingToCome
  /\ NoLostWakeup

-----------------------------------------------------------------------------
(* Two certificates of correct replicas share a preparer that is not       *)
(* Byzantine; the leader counts as one, since it proposed both.            *)
LEMMA PreparersMeet ==
  ASSUME OrdInv, ChainInv,
         NEW r1 \in Correct, NEW s1 \in Seqs, prepare_certificate[r1][s1] # NoPP,
         NEW r2 \in Correct, NEW s2 \in Seqs, prepare_certificate[r2][s2] # NoPP
  PROVE  \E x \in Servers \ Byzantine :
           \/ /\ Prepare(x, prepare_certificate[r1][s1]) \in msgs
              /\ Prepare(x, prepare_certificate[r2][s2]) \in msgs
           \/ /\ Pre_Prepare(x, prepare_certificate[r1][s1]) \in msgs
              /\ Pre_Prepare(x, prepare_certificate[r2][s2]) \in msgs
<1>1. ASSUME NEW r \in Correct, NEW s \in Seqs, prepare_certificate[r][s] # NoPP
      PROVE  LET pp == prepare_certificate[r][s]
                 A == PrepareVotes(r, s, pp) \cup {First_Leader} IN
             /\ A \in SUBSET Servers
             /\ Cardinality(A) >= Quorum
             /\ \A x \in A \ Byzantine : IF x = First_Leader THEN Pre_Prepare(x, pp) \in msgs
                                                       ELSE Prepare(x, pp) \in msgs
  <2> DEFINE pp == prepare_certificate[r][s]
             V == PrepareVotes(r, s, pp)
             A == V \cup {First_Leader}
  <2>1. V \in SUBSET Servers /\ IsFiniteSet(V) /\ Cardinality(V) \in Nat
        /\ Cardinality(V) >= Quorum - 1
    <3>1. V \in SUBSET Servers
      BY DEF PrepareVotes
    <3>2. IsFiniteSet(V) /\ Cardinality(V) \in Nat
      BY <3>1, FaultModel, FS_Subset, FS_CardinalityType
    <3> QED
      BY <1>1, <3>1, <3>2 DEF ChainInv, CertificatesBacked
  <2>2. First_Leader \in Servers /\ 1 \in Views
    BY OrderingBounds DEF First_Leader, Views
  <2>3. \A x \in V : /\ x # UTIL_Leader_Of_View[pp.view]
                     /\ x \notin Byzantine => Prepare(x, pp) \in msgs
    BY <1>1 DEF ChainInv, CountedPrepares, PrepareVotes
  <2>4. pp.view = 1
    <3>1. Cardinality(V) >= F + 1
      BY <2>1, FaultModel DEF Quorum
    <3>2. PICK y \in V : y \notin Byzantine
      BY <2>1, <3>1, HonestVoter
    <3>3. Prepare(y, pp) \in msgs /\ Prepare(y, pp).type = "PREPARE" /\ Prepare(y, pp).pp = pp
      BY <2>3, <3>2 DEF Prepare
    <3> HIDE DEF pp
    <3> QED
      BY <3>3 DEF ChainInv, PreparesCompared, Prepared
  <2>5. First_Leader \notin V
    BY <2>3, <2>4 DEF First_Leader
  <2>6. pp = pre_prepare[r][s]
    BY <1>1 DEF OrdInv, SlotsConsistent
  <2>7. First_Leader \notin Byzantine => Pre_Prepare(First_Leader, pp) \in msgs
    BY <1>1, <2>4, <2>6 DEF ChainInv, SlotsSent, First_Leader
  <2> HIDE DEF V, pp
  <2>8. Cardinality(A) = Cardinality(V) + 1
    BY <2>1, <2>5, FS_AddElement
  <2>9. Cardinality(A) >= Quorum
    BY <2>1, <2>8, FaultModel DEF Quorum
  <2>10. \A x \in A \ Byzantine : IF x = First_Leader THEN Pre_Prepare(x, pp) \in msgs
                                                      ELSE Prepare(x, pp) \in msgs
    BY <2>3, <2>7
  <2> QED
    BY <2>1, <2>2, <2>9, <2>10 DEF V, pp
<1> DEFINE pp1 == prepare_certificate[r1][s1]
           pp2 == prepare_certificate[r2][s2]
           A1 == PrepareVotes(r1, s1, pp1) \cup {First_Leader}
           A2 == PrepareVotes(r2, s2, pp2) \cup {First_Leader}
<1>2. /\ A1 \in SUBSET Servers /\ Cardinality(A1) >= Quorum
      /\ \A x \in A1 \ Byzantine : IF x = First_Leader THEN Pre_Prepare(x, pp1) \in msgs
                                                       ELSE Prepare(x, pp1) \in msgs
  BY <1>1
<1>3. /\ A2 \in SUBSET Servers /\ Cardinality(A2) >= Quorum
      /\ \A x \in A2 \ Byzantine : IF x = First_Leader THEN Pre_Prepare(x, pp2) \in msgs
                                                       ELSE Prepare(x, pp2) \in msgs
  BY <1>1
<1> HIDE DEF A1, A2, pp1, pp2
<1>4. PICK x \in A1 \cap A2 : x \notin Byzantine
  BY <1>2, <1>3, QuorumsMeet
<1>5. \/ Prepare(x, pp1) \in msgs /\ Prepare(x, pp2) \in msgs
      \/ Pre_Prepare(x, pp1) \in msgs /\ Pre_Prepare(x, pp2) \in msgs
  BY <1>2, <1>3, <1>4
<1> QED
  BY <1>2, <1>4, <1>5 DEF pp1, pp2

(* An ordered slot has a certificate at some correct replica.              *)
LEMMA OrderedCertified ==
  ASSUME OrdInv, NEW r \in Correct, NEW s \in Seqs, s \in ordered[r]
  PROVE  /\ pre_prepare[r][s] \in PrePrepare
         /\ pre_prepare[r][s] # NoPP
         /\ pre_prepare[r][s].seq = s
         /\ \E q \in Correct : prepare_certificate[q][s] = pre_prepare[r][s]
<1>1. /\ pre_prepare[r][s] # NoPP
      /\ pre_prepare[r][s] \in PrePrepare
      /\ pre_prepare[r][s].seq = s
      /\ Cardinality(CommitVotes(r, s)) >= Quorum
  BY DEF OrdInv, TypeOK, OrderedBacked, SlotsConsistent
<1>2. CommitVotes(r, s) \in SUBSET Servers
  BY DEF CommitVotes
<1>3. PICK q \in CommitVotes(r, s) : q \notin Byzantine
  <2>1. Cardinality(CommitVotes(r, s)) \in Nat
    BY <1>2, VotersMonotone
  <2>2. Cardinality(CommitVotes(r, s)) >= F + 1
    BY <1>1, <2>1, FaultModel DEF Quorum
  <2> QED
    BY <1>2, <2>2, HonestVoter
<1>4. commit[r][s][q] = pre_prepare[r][s] /\ q \in Servers \ Byzantine
  BY <1>2, <1>3 DEF CommitVotes
<1>5. Commit(q, pre_prepare[r][s]) \in msgs
  BY <1>1, <1>4 DEF OrdInv, CountedCommits
<1>6. q \in Correct /\ prepare_certificate[q][s] = pre_prepare[r][s]
  BY <1>1, <1>5 DEF OrdInv, CommitsCertified, Commit
<1> QED
  BY <1>1, <1>6

(* Ordered slots follow each other, even where the replica that orders     *)
(* them has compared nothing itself.                                       *)
LEMMA OrderedFollows ==
  ASSUME OrdInv, ChainInv, NEW r \in Correct, NEW s \in Seqs, s \in ordered[r]
  PROVE  /\ s = 1 => pre_prepare[r][s].last_executed = 0
         /\ s > 1 => \A p \in Correct : s - 1 \in ordered[p] =>
              pre_prepare[r][s].last_executed = Made_Eligible(pre_prepare[p][s - 1])
<1> DEFINE pp == pre_prepare[r][s]
<1>1. PICK q \in Correct : prepare_certificate[q][s] = pp
  BY OrderedCertified
<1>2. pp # NoPP /\ pp.seq = s
  BY OrderedCertified
<1>3. ASSUME NEW x \in Servers \ Byzantine, Prepare(x, pp) \in msgs
      PROVE  /\ s = 1 => pp.last_executed = 0
             /\ s > 1 => pp.last_executed = Made_Eligible(pre_prepare[x][s - 1])
             /\ pre_prepare[x][s] = pp
  <2>1. Prepared(Prepare(x, pp))
    BY <1>3 DEF ChainInv, PreparesCompared, Prepare
  <2> QED
    BY <1>2, <2>1 DEF Prepared, Prepare
<1>4. ASSUME NEW x \in Servers \ Byzantine, Pre_Prepare(x, pp) \in msgs
      PROVE  LeaderProposes(Pre_Prepare(x, pp))
  BY <1>4 DEF ChainInv, LeadersPropose, Pre_Prepare
<1>5. ASSUME s = 1 PROVE pp.last_executed = 0
  <2> PICK x \in Servers \ Byzantine : Prepare(x, pp) \in msgs \/ Pre_Prepare(x, pp) \in msgs
    BY <1>1, <1>2, PreparersMeet
  <2>1. CASE Prepare(x, pp) \in msgs
    BY <1>3, <1>5, <2>1
  <2>2. CASE Pre_Prepare(x, pp) \in msgs
    BY <1>2, <1>4, <1>5, <2>2 DEF LeaderProposes, Pre_Prepare
  <2> QED
    BY <2>1, <2>2
<1>6. ASSUME s > 1, NEW p \in Correct, s - 1 \in ordered[p]
      PROVE  pp.last_executed = Made_Eligible(pre_prepare[p][s - 1])
  <2> DEFINE before == pre_prepare[p][s - 1]
  <2>1. s - 1 \in Seqs
    BY <1>6, OrderingBounds DEF Seqs
  <2>2. PICK y \in Correct : prepare_certificate[y][s - 1] = before
    BY <1>6, <2>1, OrderedCertified
  <2>3. before # NoPP /\ before.seq = s - 1
    BY <1>6, <2>1, OrderedCertified
  <2> PICK x \in Servers \ Byzantine :
         \/ Prepare(x, pp) \in msgs /\ Prepare(x, before) \in msgs
         \/ Pre_Prepare(x, pp) \in msgs /\ Pre_Prepare(x, before) \in msgs
    BY <1>1, <1>2, <2>1, <2>2, <2>3, PreparersMeet
  <2>4. CASE Prepare(x, pp) \in msgs /\ Prepare(x, before) \in msgs
    <3>1. Prepared(Prepare(x, before))
      BY <2>4 DEF ChainInv, PreparesCompared, Prepare
    <3>2. pre_prepare[x][s - 1] = before
      BY <2>3, <3>1 DEF Prepared, Prepare
    <3> QED
      BY <1>3, <1>6, <2>4, <3>2
  <2>5. CASE Pre_Prepare(x, pp) \in msgs /\ Pre_Prepare(x, before) \in msgs
    <3>1. ProposedAt(Pre_Prepare(x, pp), Pre_Prepare(x, before), pp.seq - 1)
      BY <1>2, <2>3 DEF ProposedAt, Pre_Prepare
    <3>2. Pre_Prepare(x, pp).pp = pp /\ Pre_Prepare(x, before).pp = before
      BY DEF Pre_Prepare
    <3>3. pp.last_executed = Made_Eligible(before)
      <4> HIDE DEF pp, before
      <4> QED
        BY <1>4, <2>5, <3>1, <3>2 DEF LeaderProposes
    <3> QED
      BY <3>3
  <2> QED
    BY <2>4, <2>5
<1> QED
  BY <1>5, <1>6

(* What keeps ChainInv: messages and slots are only added, and each of     *)
(* them with what the invariant says of it.                                *)
LEMMA ChainStep ==
  ASSUME OrdInv, OrdInv', ChainInv, msgs \subseteq msgs', seq' = seq,
         \A m \in msgs' \ msgs :
           /\ m.type = "PREPARE" => Prepared(m)'
           /\ m.type = "PRE_PREPARE" => m.sender \in Byzantine,
         \A q \in Correct, s \in Seqs :
           pre_prepare[q][s] # NoPP => pre_prepare'[q][s] = pre_prepare[q][s],
         \A q \in Correct, s \in Seqs :
           pre_prepare'[q][s] # pre_prepare[q][s] =>
             LET l == UTIL_Leader_Of_View[pre_prepare'[q][s].view] IN
             /\ l \notin Byzantine => Pre_Prepare(l, pre_prepare'[q][s]) \in msgs
             /\ view_change_done[q] => pre_prepare'[q][s].view = 1,
         \A q \in Correct, s \in Seqs, t \in Servers :
           prepare'[q][s][t] # prepare[q][s][t] =>
             /\ prepare[q][s][t] = NoPP
             /\ t # UTIL_Leader_Of_View[prepare'[q][s][t].view]
             /\ t \notin Byzantine => Prepare(t, prepare'[q][s][t]) \in msgs,
         \A q \in Correct, s \in Seqs :
           prepare_certificate'[q][s] # prepare_certificate[q][s] =>
             Cardinality(PrepareVotes(q, s, prepare_certificate[q][s])') >= Quorum - 1,
         \A q \in Correct : view_change_done'[q] => view_change_done[q] /\ View'[q] = View[q]
  PROVE  ChainInv'
<1>1. FirstView'
  BY DEF ChainInv, FirstView
<1>2. SlotsSent'
  <2> SUFFICES ASSUME NEW q \in Correct, NEW s \in Seqs, pre_prepare'[q][s] # NoPP,
                      UTIL_Leader_Of_View[pre_prepare'[q][s].view] \notin Byzantine
               PROVE  Pre_Prepare(UTIL_Leader_Of_View[pre_prepare'[q][s].view],
                                  pre_prepare'[q][s]) \in msgs
    BY DEF SlotsSent, Pre_Prepare
  <2>1. CASE pre_prepare'[q][s] = pre_prepare[q][s]
    BY <2>1 DEF ChainInv, SlotsSent
  <2>2. CASE pre_prepare'[q][s] # pre_prepare[q][s]
    BY <2>2
  <2> QED
    BY <2>1, <2>2
<1>3. LeadersPropose'
  <2> SUFFICES ASSUME NEW m \in msgs', m.type = "PRE_PREPARE", m.sender \notin Byzantine
               PROVE  LeaderProposes(m)'
    BY DEF LeadersPropose
  <2>1. m \in msgs /\ LeaderProposes(m)
    BY DEF ChainInv, LeadersPropose
  <2>2. \A n \in msgs' : \A i : ProposedAt(m, n, i) => n \in msgs
    BY DEF ProposedAt
  <2>3. m.pp.seq < seq'[m.sender]
    BY <2>1 DEF LeaderProposes
  <2> QED
    BY <2>1, <2>2, <2>3 DEF LeaderProposes, ProposedAt
<1>4. PreparesCompared'
  <2> SUFFICES ASSUME NEW m \in msgs', m.type = "PREPARE"
               PROVE  Prepared(m)'
    BY DEF PreparesCompared
  <2>1. CASE m \notin msgs
    BY <2>1
  <2>2. CASE m \in msgs
    <3>1. Prepared(m)
      BY <2>2 DEF ChainInv, PreparesCompared
    <3>2. m.pp \in PrePrepare /\ m.pp.seq \in Seqs /\ m.pp # NoPP
      BY <2>2, OrderingBounds DEF OrdInv, TypeOK, Message, PrePrepare
    <3>3. m.pp.seq > 1 => m.pp.seq - 1 \in Seqs
      BY <3>2, OrderingBounds DEF Seqs
    <3> QED
      BY <3>1, <3>2, <3>3 DEF Prepared
  <2> QED
    BY <2>1, <2>2
<1>5. CountedPrepares'
  <2> SUFFICES ASSUME NEW q \in Correct, NEW s \in Seqs, NEW t \in Servers,
                      prepare'[q][s][t] # NoPP
               PROVE  /\ t # UTIL_Leader_Of_View[prepare'[q][s][t].view]
                      /\ t \notin Byzantine => Prepare(t, prepare'[q][s][t]) \in msgs
    BY DEF CountedPrepares, Prepare
  <2>1. CASE prepare'[q][s][t] = prepare[q][s][t]
    BY <2>1 DEF ChainInv, CountedPrepares
  <2>2. CASE prepare'[q][s][t] # prepare[q][s][t]
    BY <2>2
  <2> QED
    BY <2>1, <2>2
<1>6. CertificatesBacked'
  <2> SUFFICES ASSUME NEW q \in Correct, NEW s \in Seqs, prepare_certificate'[q][s] # NoPP
               PROVE  Cardinality(PrepareVotes(q, s, prepare_certificate[q][s])') >= Quorum - 1
    BY DEF CertificatesBacked
  <2>1. CASE prepare_certificate'[q][s] = prepare_certificate[q][s]
    <3> DEFINE A == PrepareVotes(q, s, prepare_certificate[q][s])
               B == PrepareVotes(q, s, prepare_certificate[q][s])'
    <3>1. A \in SUBSET Servers /\ B \in SUBSET Servers /\ A \subseteq B
      BY <2>1 DEF PrepareVotes
    <3>2. Cardinality(A) >= Quorum - 1
      BY <2>1 DEF ChainInv, CertificatesBacked
    <3> HIDE DEF A, B
    <3>3. Cardinality(A) \in Nat /\ Cardinality(B) \in Nat /\ Cardinality(A) <= Cardinality(B)
      BY <3>1, VotersMonotone
    <3>4. Cardinality(B) >= Quorum - 1
      BY <3>2, <3>3, FaultModel DEF Quorum
    <3> QED
      BY <3>4 DEF B
  <2>2. CASE prepare_certificate'[q][s] # prepare_certificate[q][s]
    BY <2>2
  <2> QED
    BY <2>1, <2>2
<1> QED
  BY <1>1, <1>2, <1>3, <1>4, <1>5, <1>6 DEF ChainInv

-----------------------------------------------------------------------------
(* The slots that r holds during ORDER_Send_Prepares: those it has, and    *)
(* perhaps one more.  They agree with made_eligible where both are there.  *)
SlotsWithEligible(r, pps, me) ==
  /\ pps \in [Seqs -> PrePrepare \cup {NoPP}]
  /\ me \in [0 .. MaxSeq -> POSeqs \cup {Unpopulated}]
  /\ me[0] = 0
  /\ \A s \in Seqs : pps[s] # NoPP => pps[s].seq = s
  /\ \A s \in Seqs : s <= ppARU[r] => pps[s] # NoPP
  /\ view_change_done[r] => \A s \in Seqs : pps[s] # NoPP =>
       /\ pps[s].view = 1
       /\ me[s] # Unpopulated => me[s] = Made_Eligible(pps[s])

(* The slot s starts where the one before it stops.                        *)
Follows(pps, s) ==
  /\ s = 1 => pps[s].last_executed = 0
  /\ s > 1 => /\ pps[s - 1] # NoPP
              /\ pps[s].last_executed = Made_Eligible(pps[s - 1])

(* What ORDER_Send_Prepares does, in terms of the Pre-Prepares alone.      *)
SendsPrepares(r, pps, me, sent, n) ==
  /\ ppARU' = [ppARU EXCEPT ![r] = n]
  /\ \A s \in Seqs : s <= n => pps[s] # NoPP
  /\ n < MaxSeq => pps[n + 1] = NoPP \/ ~Follows(pps, n + 1)
  /\ \A q \in Correct \ {r} : made_eligible'[q] = made_eligible[q]
  /\ made_eligible'[r][0] = 0
  /\ view_change_done[r] => \A s \in Seqs :
       made_eligible'[r][s] # Unpopulated =>
         IF pps[s] = NoPP THEN made_eligible'[r][s] = me[s]
                          ELSE made_eligible'[r][s] = Made_Eligible(pps[s])
  /\ msgs \cup sent \subseteq msgs'
  /\ \A m \in msgs' : m \notin msgs \cup sent =>
       \E s \in Seqs : /\ m = Prepare(r, pps[s])
                       /\ pps[s] # NoPP /\ pps[s].seq = s /\ pps[s].view = 1
                       /\ Follows(pps, s)

(* ORDER_Send_Prepares goes on until a slot is empty or does not follow,   *)
(* and sends Prepares only for slots that follow.                          *)
LEMMA SendPreparesFollow ==
  ASSUME OrdInv, NEW r \in Correct, NEW pps, NEW me, NEW sent,
         SlotsWithEligible(r, pps, me), ORDER_Send_Prepares(r, pps, me, sent)
  PROVE  \E n \in ppARU[r] .. MaxSeq : SendsPrepares(r, pps, me, sent, n)
<1>0. /\ pps \in [Seqs -> PrePrepare \cup {NoPP}]
      /\ me \in [0 .. MaxSeq -> POSeqs \cup {Unpopulated}]
      /\ me[0] = 0
      /\ 0 # Unpopulated
      /\ MaxSeq \in Nat /\ ppARU[r] \in 0 .. MaxSeq
      /\ view_change_done[r] \in BOOLEAN
  BY OrderingBounds DEF SlotsWithEligible, OrdInv, TypeOK, POSeqs
<1> PICK n \in ppARU[r] .. MaxSeq :
      LET new == ppARU[r] + 1 .. n IN
      /\ \A s \in new : May_Prepare(r, pps, me, s)
      /\ n < MaxSeq => ~May_Prepare(r, pps, me, n + 1)
      /\ ppARU' = [ppARU EXCEPT ![r] = n]
      /\ made_eligible' = [made_eligible EXCEPT ![r] =
                             IF view_change_done[r] THEN Populate(pps, me, new) ELSE me]
      /\ msgs' = msgs \cup sent \cup
                 {Prepare(r, pps[s]) :
                    s \in IF view_change_done[r] /\ ~I_Am_Leader(r) THEN new ELSE {}}
  BY DEF ORDER_Send_Prepares
<1> DEFINE new == ppARU[r] + 1 .. n
<1>1. n \in 0 .. MaxSeq /\ new \in SUBSET Seqs
  BY <1>0 DEF Seqs
<1>2. \A s \in Seqs : s <= n => pps[s] # NoPP
  <2> SUFFICES ASSUME NEW s \in Seqs, s <= n PROVE pps[s] # NoPP
    OBVIOUS
  <2>1. s <= ppARU[r] \/ s \in new
    BY <1>0, <1>1 DEF Seqs
  <2> QED
    BY <2>1 DEF SlotsWithEligible, May_Prepare
<1>3. ASSUME view_change_done[r], NEW s \in Seqs, pps[s] # NoPP,
             s > 1 => pps[s - 1] # NoPP
      PROVE  May_Prepare(r, pps, me, s) <=> Follows(pps, s)
  <2>1. CASE s = 1
    <3>1. Eligible_At(pps, me, s - 1) = 0
      BY <1>0, <2>1 DEF Eligible_At
    <3> QED
      BY <1>3, <2>1, <3>1 DEF May_Prepare, Follows
  <2>2. CASE s # 1
    <3>1. s - 1 \in Seqs /\ s > 1
      BY <2>2, <1>0 DEF Seqs
    <3>2. Eligible_At(pps, me, s - 1) = Made_Eligible(pps[s - 1])
      BY <1>3, <3>1 DEF SlotsWithEligible, Eligible_At
    <3> QED
      BY <1>3, <2>2, <3>1, <3>2 DEF May_Prepare, Follows
  <2> QED
    BY <2>1, <2>2
<1>4. ASSUME n < MaxSeq, pps[n + 1] # NoPP PROVE ~Follows(pps, n + 1)
  <2>1. n + 1 \in Seqs /\ (n + 1 > 1 => n \in Seqs) /\ n + 1 - 1 = n
    BY <1>0, <1>1, <1>4 DEF Seqs
  <2>2. ~May_Prepare(r, pps, me, n + 1)
    BY <1>4
  <2>3. view_change_done[r]
    BY <1>4, <2>2 DEF May_Prepare
  <2>4. n + 1 > 1 => pps[n + 1 - 1] # NoPP
    BY <1>1, <1>2, <2>1
  <2> QED
    BY <1>3, <1>4, <2>1, <2>2, <2>3, <2>4
<1>5. ASSUME NEW m \in msgs', m \notin msgs \cup sent
      PROVE  \E s \in Seqs : /\ m = Prepare(r, pps[s])
                             /\ pps[s] # NoPP /\ pps[s].seq = s /\ pps[s].view = 1
                             /\ Follows(pps, s)
  <2>1. PICK s \in new : view_change_done[r] /\ m = Prepare(r, pps[s])
    BY <1>5
  <2>2. s \in Seqs /\ s <= n /\ (s > 1 => s - 1 \in Seqs /\ s - 1 <= n)
    BY <1>0, <1>1 DEF Seqs
  <2>3. pps[s] # NoPP /\ (s > 1 => pps[s - 1] # NoPP)
    BY <1>2, <2>2
  <2>4. May_Prepare(r, pps, me, s)
    OBVIOUS
  <2>5. Follows(pps, s)
    BY <1>3, <2>1, <2>2, <2>3, <2>4
  <2> QED
    BY <2>1, <2>2, <2>3, <2>5 DEF SlotsWithEligible
<1> DEFINE after == IF view_change_done[r] THEN Populate(pps, me, new) ELSE me
<1>6. /\ after[0] = 0
      /\ view_change_done[r] => \A s \in Seqs : after[s] # Unpopulated =>
           IF pps[s] = NoPP THEN after[s] = me[s] ELSE after[s] = Made_Eligible(pps[s])
  <2>1. 0 \in 0 .. MaxSeq /\ Seqs \subseteq 0 .. MaxSeq /\ 0 \notin new
    BY <1>0, <1>1 DEF Seqs
  <2>2. \A s \in new : pps[s] # NoPP
    BY DEF May_Prepare
  <2> HIDE DEF new
  <2>3. Populate(pps, me, new)[0] = me[0]
    BY <2>1 DEF Populate
  <2>4. ASSUME view_change_done[r], NEW s \in Seqs,
               Populate(pps, me, new)[s] # Unpopulated
        PROVE  IF pps[s] = NoPP THEN Populate(pps, me, new)[s] = me[s]
                                ELSE Populate(pps, me, new)[s] = Made_Eligible(pps[s])
    <3>1. Populate(pps, me, new)[s] = IF s \in new THEN Eligible_At(pps, me, s) ELSE me[s]
      BY <2>1 DEF Populate
    <3>2. CASE s \in new
      BY <2>2, <2>4, <3>1, <3>2 DEF Eligible_At, SlotsWithEligible
    <3>3. CASE s \notin new
      BY <2>4, <3>1, <3>3 DEF SlotsWithEligible
    <3> QED
      BY <3>2, <3>3
  <2> QED
    BY <1>0, <2>3, <2>4
<1>7. made_eligible' = [made_eligible EXCEPT ![r] = after]
  OBVIOUS
<1> HIDE DEF after
<1>8. made_eligible'[r] = after /\ \A q \in Correct \ {r} : made_eligible'[q] = made_eligible[q]
  BY <1>7 DEF OrdInv, TypeOK
<1> QED
  BY <1>1, <1>2, <1>4, <1>5, <1>6, <1>8 DEF SendsPrepares

(* made_eligible stays known when a step only fills it in from the slots.  *)
LEMMA EligibleStep ==
  ASSUME EligibleKnown, msgs \subseteq msgs',
         \A q \in Correct : view_change_done'[q] => view_change_done[q],
         \A q \in Correct : made_eligible'[q][0] = 0,
         \A q \in Correct, s \in Seqs :
           view_change_done[q] /\ made_eligible'[q][s] # Unpopulated =>
             \/ /\ pre_prepare'[q][s] \in PrePrepare
                /\ made_eligible'[q][s] = Made_Eligible(pre_prepare'[q][s])
             \/ /\ made_eligible'[q][s] = made_eligible[q][s]
                /\ pre_prepare'[q][s] = pre_prepare[q][s]
  PROVE  EligibleKnown'
<1> SUFFICES ASSUME NEW q \in Correct, NEW s \in Seqs, view_change_done[q],
                    made_eligible'[q][s] # Unpopulated
             PROVE  Knows_Eligible(q, s, made_eligible[q][s])'
  BY DEF EligibleKnown
<1>1. CASE /\ pre_prepare'[q][s] \in PrePrepare
           /\ made_eligible'[q][s] = Made_Eligible(pre_prepare'[q][s])
  BY <1>1 DEF Knows_Eligible, Made_Eligible, Larger
<1>2. CASE /\ made_eligible'[q][s] = made_eligible[q][s]
           /\ pre_prepare'[q][s] = pre_prepare[q][s]
  <2>1. Knows_Eligible(q, s, made_eligible[q][s])
    BY <1>2 DEF EligibleKnown
  <2> QED
    BY <1>2, <2>1 DEF Knows_Eligible, Made_Eligible, Larger, Pre_Prepare
<1> QED
  BY <1>1, <1>2

-----------------------------------------------------------------------------
(* ORDER_Execute_Commit leaves no ordered slot behind that neither waits   *)
(* nor is executed, and the first that waits knows what it waits for.      *)
LEMMA ExecuteCommitWaits ==
  ASSUME OrdInv, OrderedWaits, MissingToCome, NoLostWakeup,
         NEW r \in Correct, NEW s \in Seqs, NEW me, ORDER_Execute_Commit(r, s, me),
         \A q \in Correct : ordered'[q] = IF q = r THEN ordered[q] \cup {s} ELSE ordered[q],
         \A q \in Correct : q # r \/ s # ARU[r] + 1 => execute_queued'[q] = execute_queued[q],
         cum_aru' = cum_aru
  PROVE  OrderedWaits' /\ MissingToCome' /\ NoLostWakeup'
<1> DEFINE waiting == Pending_Execution[r] \cup {s}
<1>0. /\ ARU \in [Correct -> 0 .. MaxSeq] /\ MaxSeq \in Nat
      /\ Pending_Execution \in [Correct -> SUBSET Seqs]
      /\ missing \in [Correct -> [Seqs -> SUBSET POSeqs]]
      /\ \A q \in Correct : ordered[q] \in SUBSET Seqs
      /\ waiting \in SUBSET Seqs
  BY OrderingBounds DEF OrdInv, TypeOK
<1>1. \A i \in Seqs : i \in ordered[r] \cup {s} => i <= ARU[r] \/ i \in waiting
  BY DEF OrderedWaits
<1>2. CASE s # ARU[r] + 1
  <2>1. /\ Pending_Execution' = [Pending_Execution EXCEPT ![r] = waiting]
        /\ UNCHANGED <<ARU, missing>>
    BY <1>2 DEF ORDER_Execute_Commit
  <2>2. MissingToCome'
    BY <2>1 DEF MissingToCome
  <2> HIDE DEF waiting
  <2>3. /\ Pending_Execution'[r] = waiting
        /\ \A q \in Correct \ {r} : Pending_Execution'[q] = Pending_Execution[q]
    BY <1>0, <2>1
  <2>4. OrderedWaits'
    BY <1>1, <2>1, <2>3 DEF OrderedWaits
  <2>5. NoLostWakeup'
    <3> SUFFICES ASSUME NEW q \in Correct, NEW i \in ordered'[q], i = ARU[q] + 1
                 PROVE  /\ i \in Pending_Execution'[q]
                        /\ \/ execute_queued'[q]
                           \/ missing[q][i] # {} /\ \A x \in missing[q][i] : x > cum_aru[q]
      BY <2>1 DEF NoLostWakeup
    <3>1. i \in ordered[q]
      BY <1>2
    <3>2. execute_queued'[q] = execute_queued[q]
      BY <1>2
    <3>3. i \in Pending_Execution'[q]
      BY <2>3, <3>1 DEF NoLostWakeup, waiting
    <3> QED
      BY <3>1, <3>2, <3>3 DEF NoLostWakeup
  <2> QED
    BY <2>2, <2>4, <2>5
<1>3. CASE s = ARU[r] + 1
  <2> PICK n \in ARU[r] .. MaxSeq :
        /\ n < MaxSeq => ~Ready_To_Execute(r, waiting, n + 1, me)
        /\ ARU' = [ARU EXCEPT ![r] = n]
        /\ Pending_Execution' = [Pending_Execution EXCEPT ![r] = waiting \ (1 .. n)]
        /\ missing' = [missing EXCEPT ![r] = [i \in Seqs |->
             IF i = n + 1 /\ i \in waiting /\ missing[r][i] = {}
             THEN Lacking(r, i, me) ELSE missing[r][i]]]
    BY <1>3 DEF ORDER_Execute_Commit
  <2> DEFINE after == [i \in Seqs |->
             IF i = n + 1 /\ i \in waiting /\ missing[r][i] = {}
             THEN Lacking(r, i, me) ELSE missing[r][i]]
  <2>1. \A i \in Seqs : after[i] = IF i = n + 1 /\ i \in waiting /\ missing[r][i] = {}
                                   THEN Lacking(r, i, me) ELSE missing[r][i]
    OBVIOUS
  <2>2. missing' = [missing EXCEPT ![r] = after]
    OBVIOUS
  <2> HIDE DEF after, waiting
  <2>3. /\ ARU'[r] = n /\ Pending_Execution'[r] = waiting \ (1 .. n) /\ missing'[r] = after
        /\ \A q \in Correct \ {r} : /\ ARU'[q] = ARU[q]
                                    /\ Pending_Execution'[q] = Pending_Execution[q]
                                    /\ missing'[q] = missing[q]
    BY <1>0, <2>2
  <2>4. n \in 0 .. MaxSeq /\ n >= ARU[r]
    BY <1>0
  <2>5. OrderedWaits'
    <3> SUFFICES ASSUME NEW q \in Correct, NEW i \in Seqs, i \in ordered'[q]
                 PROVE  i <= ARU'[q] \/ i \in Pending_Execution'[q]
      BY DEF OrderedWaits
    <3>1. CASE q = r
      <4>1. i \in ordered[r] \cup {s}
        BY <3>1
      <4>2. i <= ARU[r] \/ i \in waiting
        BY <1>1, <4>1
      <4>3. i \in Nat /\ i >= 1 /\ ARU[r] \in Nat /\ n \in Nat
        BY <1>0, <2>4 DEF Seqs
      <4> QED
        BY <2>3, <2>4, <3>1, <4>2, <4>3
    <3>2. CASE q # r
      BY <2>3, <3>2 DEF OrderedWaits
    <3> QED
      BY <3>1, <3>2
  <2>6. \A i \in Seqs : \A x \in after[i] : x > cum_aru[r]
    BY <2>1 DEF MissingToCome, Lacking
  <2>7. MissingToCome'
    BY <2>3, <2>6 DEF MissingToCome
  <2>8. NoLostWakeup'
    <3> SUFFICES ASSUME NEW q \in Correct, NEW i \in ordered'[q], i = ARU'[q] + 1
                 PROVE  /\ i \in Pending_Execution'[q]
                        /\ \/ execute_queued'[q]
                           \/ missing'[q][i] # {} /\ \A x \in missing'[q][i] : x > cum_aru[q]
      BY DEF NoLostWakeup
    <3>1. CASE q = r
      <4>0. i \in Seqs
        BY <1>0, <3>1
      <4>1. i = n + 1 /\ i \in Seqs /\ n < MaxSeq
        BY <1>0, <2>3, <2>4, <3>1, <4>0 DEF Seqs
      <4>2. i \in waiting
        <5>1. i \in ordered[r] \cup {s}
          BY <3>1
        <5>2. ~(i <= ARU[r])
          BY <1>0, <2>4, <4>1
        <5> QED
          BY <1>1, <4>1, <5>1, <5>2
      <4>3. after[i] # {}
        BY <2>1, <4>1, <4>2 DEF Ready_To_Execute
      <4>4. i \notin 1 .. n
        BY <2>4, <4>1
      <4> QED
        BY <2>3, <2>6, <3>1, <4>1, <4>2, <4>3, <4>4
    <3>2. CASE q # r
      <4>1. /\ i \in ordered[q] /\ i = ARU[q] + 1
            /\ execute_queued'[q] = execute_queued[q]
            /\ missing'[q] = missing[q]
            /\ Pending_Execution'[q] = Pending_Execution[q]
        BY <2>3, <3>2
      <4> QED
        BY <4>1 DEF NoLostWakeup
    <3> QED
      BY <3>1, <3>2
  <2> QED
    BY <2>5, <2>7, <2>8
<1> QED
  BY <1>2, <1>3

(* Of ppARU and the messages, ORDER_Execute_Commit changes only what       *)
(* ORDER_Send_Prepares changes, which it calls if it has executed.         *)
LEMMA ExecuteCommitSends ==
  ASSUME OrdInv, NEW r \in Correct, NEW s \in Seqs, NEW me, ORDER_Execute_Commit(r, s, me)
  PROVE  /\ \A q \in Correct \ {r} : ARU'[q] = ARU[q]
         /\ \/ ORDER_Send_Prepares(r, pre_prepare[r], me, {})
            \/ /\ made_eligible' = [made_eligible EXCEPT ![r] = me]
               /\ UNCHANGED <<ppARU, msgs>>
               /\ ARU'[r] = ARU[r]
<1>0. ARU \in [Correct -> 0 .. MaxSeq] /\ MaxSeq \in Nat
  BY OrderingBounds DEF OrdInv, TypeOK
<1>1. CASE s # ARU[r] + 1
  BY <1>1 DEF ORDER_Execute_Commit
<1>2. CASE s = ARU[r] + 1
  <2> PICK n \in ARU[r] .. MaxSeq :
        /\ ARU' = [ARU EXCEPT ![r] = n]
        /\ IF n > ARU[r]
           THEN ORDER_Send_Prepares(r, pre_prepare[r], me, {})
           ELSE /\ made_eligible' = [made_eligible EXCEPT ![r] = me]
                /\ UNCHANGED <<ppARU, msgs>>
    BY <1>2 DEF ORDER_Execute_Commit
  <2>1. ARU'[r] = n /\ \A q \in Correct \ {r} : ARU'[q] = ARU[q]
    BY <1>0
  <2>2. CASE n > ARU[r]
    BY <2>1, <2>2
  <2>3. CASE ~(n > ARU[r])
    <3>1. n = ARU[r]
      BY <1>0, <2>3
    <3> QED
      BY <2>1, <2>3, <3>1
  <2> QED
    BY <2>2, <2>3
<1> QED
  BY <1>1, <1>2

(* Once ChainInv holds in the new state, ppARU has passed every slot that  *)
(* is executed there: each is there, and follows the one before it.        *)
LEMMA AcceptedPassesExecuted ==
  ASSUME OrdInv, ChainInv, NEW r \in Correct, NEW n \in 0 .. MaxSeq,
         n < MaxSeq => \/ pre_prepare[r][n + 1] = NoPP
                       \/ ~Follows(pre_prepare[r], n + 1)
  PROVE  ARU[r] <= n
<1>0. ARU[r] \in 0 .. MaxSeq /\ MaxSeq \in Nat
  BY OrderingBounds DEF OrdInv, TypeOK
<1> SUFFICES ASSUME ~(ARU[r] <= n) PROVE FALSE
  OBVIOUS
<1>1. n < MaxSeq /\ n + 1 \in Seqs /\ n + 1 <= ARU[r] /\ (n + 1 > 1 => n \in Seqs /\ n <= ARU[r])
  BY <1>0 DEF Seqs
<1>2. n + 1 \in ordered[r] /\ (n + 1 > 1 => n \in ordered[r])
  BY <1>1 DEF OrdInv, ExecutedOrdered
<1>3. pre_prepare[r][n + 1] # NoPP /\ (n + 1 > 1 => pre_prepare[r][n] # NoPP)
  BY <1>1, <1>2, OrderedCertified
<1>4. n + 1 - 1 = n
  OBVIOUS
<1>5. /\ n + 1 = 1 => pre_prepare[r][n + 1].last_executed = 0
      /\ n + 1 > 1 => \A p \in Correct : n + 1 - 1 \in ordered[p] =>
           pre_prepare[r][n + 1].last_executed = Made_Eligible(pre_prepare[p][n + 1 - 1])
  BY <1>1, <1>2, OrderedFollows
<1>6. Follows(pre_prepare[r], n + 1)
  BY <1>2, <1>3, <1>4, <1>5 DEF Follows
<1> QED
  BY <1>1, <1>3, <1>6

(* The slot after n is empty, or does not follow the one before it.        *)
StopsAt(r, n) ==
  n < MaxSeq => pre_prepare[r][n + 1] = NoPP \/ ~Follows(pre_prepare[r], n + 1)

(* The same, of the state that a step leads to.                            *)
LEMMA AcceptedPassesExecutedNext ==
  (OrdInv /\ ChainInv)' =>
    (\A r \in Correct, n \in 0 .. MaxSeq : StopsAt(r, n) => ARU[r] <= n)'
<1>1. OrdInv /\ ChainInv =>
        \A r \in Correct, n \in 0 .. MaxSeq : StopsAt(r, n) => ARU[r] <= n
  BY AcceptedPassesExecuted DEF StopsAt
<1> QED
  BY <1>1, PTL

(* Where the slots of r agree with made_eligible, as EligibleKnown says.   *)
LEMMA SlotsAgree ==
  ASSUME OrdInv, FirstView, EligibleKnown, AcceptedCoversExecuted, NEW r \in Correct,
         NEW me \in [0 .. MaxSeq -> POSeqs \cup {Unpopulated}], me[0] = 0,
         \A s \in Seqs : me[s] # Unpopulated =>
           \/ me[s] = made_eligible[r][s]
           \/ pre_prepare[r][s] # NoPP /\ me[s] = Made_Eligible(pre_prepare[r][s])
  PROVE  SlotsWithEligible(r, pre_prepare[r], me)
<1>1. /\ pre_prepare[r] \in [Seqs -> PrePrepare \cup {NoPP}]
      /\ ppARU[r] \in 0 .. MaxSeq
      /\ MaxSeq \in Nat
  BY OrderingBounds DEF OrdInv, TypeOK
<1>2. \A s \in Seqs : pre_prepare[r][s] # NoPP => pre_prepare[r][s].seq = s
  BY DEF OrdInv, SlotsConsistent
<1>3. \A s \in Seqs : s <= ppARU[r] => pre_prepare[r][s] # NoPP
  BY <1>1 DEF AcceptedCoversExecuted, Seqs
<1>4. ASSUME view_change_done[r], NEW s \in Seqs, pre_prepare[r][s] # NoPP
      PROVE  /\ pre_prepare[r][s].view = 1
             /\ me[s] # Unpopulated => me[s] = Made_Eligible(pre_prepare[r][s])
  BY <1>4 DEF FirstView, EligibleKnown, Knows_Eligible
<1> QED
  BY <1>1, <1>2, <1>3, <1>4 DEF SlotsWithEligible

(* Executing keeps the invariant, whether a Commit or an arrived           *)
(* PO-Request has caused it.                                               *)
LEMMA ExecuteStep ==
  ASSUME OrdInv, OrdInv', ChainInv, ExecInv, NEW r \in Correct, NEW s \in Seqs,
         NEW me \in [0 .. MaxSeq -> POSeqs \cup {Unpopulated}], me[0] = 0,
         \A i \in Seqs : me[i] # Unpopulated =>
           \/ me[i] = made_eligible[r][i]
           \/ pre_prepare[r][i] # NoPP /\ me[i] = Made_Eligible(pre_prepare[r][i]),
         ORDER_Execute_Commit(r, s, me),
         \A q \in Correct : ordered'[q] = IF q = r THEN ordered[q] \cup {s} ELSE ordered[q],
         \A q \in Correct : q # r \/ s # ARU[r] + 1 => execute_queued'[q] = execute_queued[q],
         UNCHANGED <<View, view_change_done, pre_prepare, prepare, prepare_certificate,
                     seq, cum_aru>>
  PROVE  ChainInv' /\ ExecInv'
<1> USE DEF ExecInv
<1>0. /\ ppARU \in [Correct -> 0 .. MaxSeq] /\ ARU \in [Correct -> 0 .. MaxSeq]
      /\ MaxSeq \in Nat
      /\ made_eligible \in [Correct -> [0 .. MaxSeq -> POSeqs \cup {Unpopulated}]]
      /\ \A i \in Seqs : pre_prepare[r][i] \in PrePrepare \cup {NoPP}
  BY OrderingBounds DEF OrdInv, TypeOK
<1>1. SlotsWithEligible(r, pre_prepare[r], me)
  BY SlotsAgree DEF ChainInv
<1>2. \A q \in Correct \ {r} : ARU'[q] = ARU[q]
  BY ExecuteCommitSends
<1>3. OrderedWaits' /\ MissingToCome' /\ NoLostWakeup'
  BY ExecuteCommitWaits
<1>4. CASE ORDER_Send_Prepares(r, pre_prepare[r], me, {})
  <2> PICK n \in ppARU[r] .. MaxSeq : SendsPrepares(r, pre_prepare[r], me, {}, n)
    BY <1>1, <1>4, SendPreparesFollow
  <2>1. n \in 0 .. MaxSeq
    BY <1>0
  <2>2. \A m \in msgs' \ msgs : m.type = "PREPARE" /\ Prepared(m)'
    <3> SUFFICES ASSUME NEW m \in msgs' \ msgs PROVE m.type = "PREPARE" /\ Prepared(m)'
      OBVIOUS
    <3>1. PICK i \in Seqs : /\ m = Prepare(r, pre_prepare[r][i])
                            /\ pre_prepare[r][i] # NoPP
                            /\ pre_prepare[r][i].seq = i /\ pre_prepare[r][i].view = 1
                            /\ Follows(pre_prepare[r], i)
      BY DEF SendsPrepares
    <3>2. pre_prepare'[r] = pre_prepare[r]
      OBVIOUS
    <3>3. m.sender = r /\ m.pp = pre_prepare[r][i] /\ m.type = "PREPARE"
      BY <3>1 DEF Prepare
    <3> QED
      BY <3>1, <3>2, <3>3 DEF Prepared, Follows, Made_Eligible, Larger
  <2>3. ChainInv'
    <3>1. msgs \subseteq msgs'
      BY DEF SendsPrepares
    <3> QED
      BY <2>2, <3>1, ChainStep
  <2>4. EligibleKnown'
    <3>1. \A q \in Correct : made_eligible'[q][0] = 0
      BY DEF SendsPrepares, EligibleKnown
    <3>2. ASSUME NEW q \in Correct, NEW i \in Seqs, view_change_done[q],
                 made_eligible'[q][i] # Unpopulated
          PROVE  \/ /\ pre_prepare[q][i] \in PrePrepare
                    /\ made_eligible'[q][i] = Made_Eligible(pre_prepare[q][i])
                 \/ made_eligible'[q][i] = made_eligible[q][i]
      <4>1. CASE q = r
        BY <1>0, <3>2, <4>1 DEF SendsPrepares
      <4>2. CASE q # r
        BY <4>2 DEF SendsPrepares
      <4> QED
        BY <4>1, <4>2
    <3>3. msgs \subseteq msgs'
      BY DEF SendsPrepares
    <3> QED
      BY <3>1, <3>2, <3>3, EligibleStep DEF Made_Eligible, Larger
  <2>5. AcceptedCoversExecuted'
    <3>1. /\ ppARU'[r] = n
          /\ \A q \in Correct \ {r} : ppARU'[q] = ppARU[q]
      BY <1>0 DEF SendsPrepares
    <3>2. StopsAt(r, n)'
      BY DEF StopsAt, SendsPrepares, Follows, Made_Eligible, Larger
    <3>3. ARU'[r] <= n
      BY <2>1, <2>3, <3>2, AcceptedPassesExecutedNext
    <3>4. \A i \in 1 .. n : pre_prepare[r][i] # NoPP
      BY <1>0, <2>1 DEF SendsPrepares, Seqs
    <3> SUFFICES ASSUME NEW q \in Correct
                 PROVE  /\ ARU'[q] <= ppARU'[q]
                        /\ \A i \in 1 .. ppARU'[q] : pre_prepare[q][i] # NoPP
      BY DEF AcceptedCoversExecuted
    <3>5. CASE q = r
      BY <3>1, <3>3, <3>4, <3>5
    <3>6. CASE q # r
      BY <1>2, <3>1, <3>6 DEF AcceptedCoversExecuted
    <3> QED
      BY <3>5, <3>6
  <2> QED
    BY <1>3, <2>3, <2>4, <2>5
<1>5. CASE /\ made_eligible' = [made_eligible EXCEPT ![r] = me]
           /\ UNCHANGED <<ppARU, msgs>>
           /\ ARU'[r] = ARU[r]
  <2>1. ChainInv'
    BY <1>5, ChainStep
  <2>2. EligibleKnown'
    <3>1. made_eligible'[r] = me /\ \A q \in Correct \ {r} : made_eligible'[q] = made_eligible[q]
      BY <1>0, <1>5
    <3>2. \A q \in Correct : made_eligible'[q][0] = 0
      BY <3>1 DEF EligibleKnown
    <3>3. \A q \in Correct, i \in Seqs : made_eligible'[q][i] # Unpopulated =>
            \/ /\ pre_prepare[q][i] \in PrePrepare
               /\ made_eligible'[q][i] = Made_Eligible(pre_prepare[q][i])
            \/ made_eligible'[q][i] = made_eligible[q][i]
      BY <1>0, <3>1
    <3> QED
      BY <1>5, <3>2, <3>3, EligibleStep DEF Made_Eligible, Larger
  <2>3. AcceptedCoversExecuted'
    BY <1>2, <1>5 DEF AcceptedCoversExecuted
  <2> QED
    BY <1>3, <2>1, <2>2, <2>3
<1> QED
  BY <1>4, <1>5, ExecuteCommitSends

-----------------------------------------------------------------------------
(* Each action preserves ChainInv and ExecInv: the initial states first.   *)
LEMMA ExecInit ==
  ASSUME Init
  PROVE  ChainInv /\ ExecInv
<1>0. MaxSeq \in Nat \ {0} /\ 0 # Unpopulated
  BY OrderingBounds DEF POSeqs
<1>1. \A r \in Correct, s \in Seqs :
        /\ pre_prepare[r][s] = NoPP /\ prepare_certificate[r][s] = NoPP
        /\ missing[r][s] = {}
        /\ \A q \in Servers : prepare[r][s][q] = NoPP
  BY DEF Init, EmptySlots
<1>2. \A r \in Correct : /\ View[r] = 1 /\ ARU[r] = 0 /\ ppARU[r] = 0 /\ ordered[r] = {}
                         /\ made_eligible[r][0] = 0
                         /\ \A s \in Seqs : made_eligible[r][s] = Unpopulated
  BY <1>0 DEF Init, Seqs
<1>3. msgs = {}
  BY DEF Init
<1>4. ChainInv
  BY <1>1, <1>2, <1>3 DEF ChainInv, FirstView, SlotsSent, LeadersPropose, PreparesCompared,
     CountedPrepares, CertificatesBacked
<1>5. ExecInv
  BY <1>0, <1>1, <1>2 DEF ExecInv, EligibleKnown, AcceptedCoversExecuted, OrderedWaits,
     MissingToCome, NoLostWakeup
<1> QED
  BY <1>4, <1>5

(* What the first leader proposes next starts where its last one stops:    *)
(* made_eligible of the slot before is that of what it proposed there.     *)
LEMMA SendPrePrepareExec ==
  ASSUME OrdInv, OrdInv', ChainInv, ExecInv, NEW r \in Correct, ORDER_Send_One_Pre_Prepare(r)
  PROVE  ChainInv' /\ ExecInv'
<1> PICK a \in POSeqs :
      LET pp == [seq |-> seq[r], view |-> View[r],
                 last_executed |-> made_eligible[r][seq[r] - 1], proof_aru |-> a] IN
      /\ I_Am_Leader(r)
      /\ view_change_done[r]
      /\ seq[r] <= MaxSeq
      /\ msgs' = msgs \cup {Pre_Prepare(r, pp)}
      /\ made_eligible' = [made_eligible EXCEPT ![r][seq[r]] =
                             IF @ = Unpopulated THEN Made_Eligible(pp) ELSE @]
      /\ seq' = [seq EXCEPT ![r] = @ + 1]
      /\ UNCHANGED <<viewVars, slotVars, poVars, ARU, ppARU, Pending_Execution, missing>>
  BY DEF ORDER_Send_One_Pre_Prepare
<1> DEFINE pp == [seq |-> seq[r], view |-> View[r],
                  last_executed |-> made_eligible[r][seq[r] - 1], proof_aru |-> a]
           m0 == Pre_Prepare(r, pp)
           k == seq[r]
<1>0. /\ MaxSeq \in Nat \ {0} /\ k \in Seqs /\ k - 1 \in 0 .. MaxSeq
      /\ (k # 1 => k - 1 \in Seqs) /\ Seqs \subseteq Nat
      /\ seq \in [Correct -> 1 .. MaxSeq + 1]
      /\ made_eligible \in [Correct -> [0 .. MaxSeq -> POSeqs \cup {Unpopulated}]]
      /\ r \notin Byzantine
  BY OrderingBounds DEF OrdInv, TypeOK, Seqs, Correct
<1>1. UNCHANGED <<View, view_change_done, pre_prepare, prepare, prepare_certificate, ordered,
                  ARU, ppARU, Pending_Execution, missing, execute_queued, cum_aru>>
  BY DEF viewVars, slotVars, poVars
<1>2. View[r] = 1 /\ r = First_Leader
  BY DEF ChainInv, FirstView, First_Leader, I_Am_Leader
<1>3. /\ m0.type = "PRE_PREPARE" /\ m0.sender = r /\ m0.pp = pp
      /\ pp.seq = k /\ pp.view = 1 /\ pp.last_executed = made_eligible[r][k - 1]
      /\ msgs' = msgs \cup {m0}
  BY <1>2 DEF Pre_Prepare
<1>4. pp \in PrePrepare
  <2>1. made_eligible[r][k - 1] \in POSeqs
    BY <1>0 DEF OrdInv, LeaderPopulated
  <2> QED
    BY <1>0, <2>1 DEF OrdInv, TypeOK, PrePrepare
<1>5. seq'[r] = k + 1 /\ \A q \in Correct \ {r} : seq'[q] = seq[q]
  BY <1>0
<1> DEFINE after == [made_eligible[r] EXCEPT ![k] =
                       IF made_eligible[r][k] = Unpopulated
                       THEN Made_Eligible(pp) ELSE made_eligible[r][k]]
<1>6. made_eligible' = [made_eligible EXCEPT ![r] = after]
  BY <1>0
<1>7. /\ after[k] = IF made_eligible[r][k] = Unpopulated
                    THEN Made_Eligible(pp) ELSE made_eligible[r][k]
      /\ \A i \in 0 .. MaxSeq : i # k => after[i] = made_eligible[r][i]
  <2>1. k \in 0 .. MaxSeq /\ made_eligible[r] \in [0 .. MaxSeq -> POSeqs \cup {Unpopulated}]
    BY <1>0 DEF Seqs
  <2> HIDE DEF pp, k
  <2> QED
    BY <2>1
<1> HIDE DEF after, pp, m0, k
<1>8. made_eligible'[r] = after /\ \A q \in Correct \ {r} : made_eligible'[q] = made_eligible[q]
  BY <1>0, <1>6
<1>9. ASSUME NEW n \in msgs, n.type = "PRE_PREPARE", n.sender = r
      PROVE  LeaderProposes(n) /\ n.pp.seq < k /\ n.pp.seq \in Seqs
  <2>1. LeaderProposes(n)
    BY <1>0, <1>9 DEF ChainInv, LeadersPropose
  <2> QED
    BY <1>9, <2>1 DEF LeaderProposes, k, OrdInv, TypeOK, Message, PrePrepare
<1>10. ASSUME NEW s \in Seqs, pre_prepare[r][s] # NoPP
       PROVE  Pre_Prepare(r, pre_prepare[r][s]) \in msgs /\ pre_prepare[r][s].seq = s
  BY <1>0, <1>2, <1>10 DEF ChainInv, FirstView, SlotsSent, First_Leader, OrdInv, SlotsConsistent
<1>11. ASSUME NEW m \in msgs', m = m0 PROVE LeaderProposes(m)'
  <2>1. k = 1 => pp.last_executed = 0
    BY <1>3 DEF ExecInv, EligibleKnown
  <2>2. ASSUME NEW n \in msgs', ProposedAt(m0, n, k) PROVE n.pp = pp
    <3>1. n.type = "PRE_PREPARE" /\ n.sender = r /\ n.pp.seq = k
      BY <1>3, <2>2 DEF ProposedAt
    <3>2. CASE n \in msgs
      BY <1>0, <1>9, <3>1, <3>2
    <3> QED
      BY <1>3, <3>2
  <2>3. ASSUME NEW n \in msgs', ProposedAt(m0, n, k - 1)
        PROVE  pp.last_executed = Made_Eligible(n.pp)
    <3>1. n.type = "PRE_PREPARE" /\ n.sender = r /\ n.pp.seq = k - 1
      BY <1>3, <2>3 DEF ProposedAt
    <3>2. n \in msgs
      BY <1>0, <1>3, <3>1
    <3>3. k - 1 \in Seqs /\ LeaderProposes(n)
      BY <1>9, <3>1, <3>2
    <3>4. made_eligible[r][k - 1] # Unpopulated
      BY DEF OrdInv, LeaderPopulated, k
    <3>5. PICK b \in PrePrepare :
            /\ made_eligible[r][k - 1] = Made_Eligible(b)
            /\ \/ pre_prepare[r][k - 1] = b
               \/ b.seq = k - 1 /\ Pre_Prepare(r, b) \in msgs
      BY <3>3, <3>4 DEF ExecInv, EligibleKnown, Knows_Eligible
    <3>6. Pre_Prepare(r, b) \in msgs /\ b.seq = k - 1
      BY <1>10, <3>3, <3>5, OrderingBounds
    <3>7. ProposedAt(n, Pre_Prepare(r, b), n.pp.seq) /\ Pre_Prepare(r, b).pp = b
      BY <3>1, <3>6 DEF ProposedAt, Pre_Prepare
    <3>8. b = n.pp
      BY <3>3, <3>6, <3>7 DEF LeaderProposes
    <3> QED
      BY <1>3, <3>5, <3>8
  <2>4. k < seq'[r]
    BY <1>0, <1>5
  <2> QED
    BY <1>2, <1>3, <1>11, <2>1, <2>2, <2>3, <2>4 DEF LeaderProposes, ProposedAt, Made_Eligible, Larger
<1>12. LeadersPropose'
  <2> SUFFICES ASSUME NEW m \in msgs', m.type = "PRE_PREPARE", m.sender \notin Byzantine
               PROVE  LeaderProposes(m)'
    BY DEF LeadersPropose
  <2>1. CASE m = m0
    BY <1>11, <2>1
  <2>2. CASE m \in msgs
    <3>1. LeaderProposes(m) /\ m.sender = r /\ m.pp.seq < k /\ m.pp.seq \in Seqs
      <4>1. LeaderProposes(m)
        BY <2>2 DEF ChainInv, LeadersPropose
      <4> QED
        BY <1>2, <1>9, <2>2, <4>1 DEF LeaderProposes
    <3>2. ~ProposedAt(m, m0, m.pp.seq) /\ ~ProposedAt(m, m0, m.pp.seq - 1)
      BY <1>0, <1>3, <3>1 DEF ProposedAt
    <3>3. m.pp.seq < seq'[m.sender]
      <4>1. m.pp.seq \in Nat /\ k \in Nat
        BY <1>0, <3>1
      <4> QED
        BY <1>5, <3>1, <4>1
    <3> QED
      BY <1>3, <3>1, <3>2, <3>3 DEF LeaderProposes, ProposedAt, Made_Eligible, Larger
  <2> QED
    BY <1>3, <2>1, <2>2
<1>13. /\ FirstView' /\ CertificatesBacked'
       /\ SlotsSent' /\ CountedPrepares'
  BY <1>1, <1>3 DEF ChainInv, FirstView, CertificatesBacked, PrepareVotes, SlotsSent,
     CountedPrepares, Prepare, Pre_Prepare
<1>14. PreparesCompared'
  BY <1>1, <1>3 DEF ChainInv, PreparesCompared, Prepared, Made_Eligible, Larger
<1>15. EligibleKnown'
  <2>1. \A q \in Correct : made_eligible'[q][0] = 0
    BY <1>0, <1>7, <1>8 DEF ExecInv, EligibleKnown, Seqs
  <2>2. ASSUME NEW q \in Correct, NEW s \in Seqs, view_change_done[q],
               made_eligible'[q][s] # Unpopulated
        PROVE  Knows_Eligible(q, s, made_eligible[q][s])'
    <3>1. CASE made_eligible'[q][s] = made_eligible[q][s]
      <4>1. Knows_Eligible(q, s, made_eligible[q][s])
        BY <2>2, <3>1 DEF ExecInv, EligibleKnown
      <4> QED
        BY <1>1, <1>3, <3>1, <4>1 DEF Knows_Eligible, Made_Eligible, Larger, Pre_Prepare
    <3>2. CASE made_eligible'[q][s] # made_eligible[q][s]
      <4>1. q = r /\ s = k /\ made_eligible'[q][s] = Made_Eligible(pp)
        <5>1. s \in 0 .. MaxSeq
          BY <1>0 DEF Seqs
        <5> QED
          BY <1>7, <1>8, <3>2, <5>1
      <4>2. pre_prepare[r][k] = NoPP
        <5> SUFFICES ASSUME pre_prepare[r][k] # NoPP PROVE FALSE
          OBVIOUS
        <5> DEFINE n == Pre_Prepare(r, pre_prepare[r][k])
        <5>1. n \in msgs /\ pre_prepare[r][k].seq = k
          BY <1>0, <1>10
        <5>2. n.type = "PRE_PREPARE" /\ n.sender = r /\ n.pp.seq = k
          BY <5>1 DEF Pre_Prepare
        <5> HIDE DEF n
        <5> QED
          BY <1>0, <1>9, <5>1, <5>2
      <4>3. Pre_Prepare(r, pp) \in msgs'
        BY <1>3 DEF m0
      <4> QED
        BY <1>1, <1>3, <1>4, <4>1, <4>2, <4>3
           DEF Knows_Eligible, Made_Eligible, Larger, Pre_Prepare
    <3> QED
      BY <3>1, <3>2
  <2> QED
    BY <1>1, <2>1, <2>2 DEF EligibleKnown
<1>16. AcceptedCoversExecuted' /\ OrderedWaits' /\ MissingToCome' /\ NoLostWakeup'
  BY <1>1 DEF ExecInv, AcceptedCoversExecuted, OrderedWaits, MissingToCome, NoLostWakeup
<1> QED
  BY <1>12, <1>13, <1>14, <1>15, <1>16 DEF ChainInv, ExecInv

(* A Pre-Prepare is stored that its leader has sent; in the first view,    *)
(* at the leader, it is the one that made_eligible was filled in from.     *)
LEMMA ProcessPrePrepareExec ==
  ASSUME OrdInv, OrdInv', ChainInv, ExecInv, NEW r \in Correct,
         NEW m \in Arriving("PRE_PREPARE", r), ORDER_Process_Pre_Prepare(r, m)
  PROVE  ChainInv' /\ ExecInv'
<1> DEFINE pp == m.pp
           s == m.pp.seq
           pps == [pre_prepare[r] EXCEPT ![s] = pp]
           certified == Gets_Certificate(r, s, pp, prepare[r][s])
           sent == ORDER_Flood_Pre_Prepare(r, m) \cup
                   IF certified THEN Commit_After_Certificate(r, pp) ELSE {}
<1>1. m \in Message /\ m.type = "PRE_PREPARE" /\ (m.sender \notin Byzantine => m \in msgs)
  BY ArrivingType DEF OrdInv, TypeOK, MessageType
<1>2. pp \in PrePrepare /\ s \in Seqs /\ pp.seq = s /\ pp # NoPP
  BY <1>1, OrderingBounds DEF Message, PrePrepare
<1>3. /\ View_Permits(r, pp.view)
      /\ m.sender = UTIL_Leader_Of_View[pp.view]
      /\ pre_prepare[r][s] = NoPP
      /\ pre_prepare' = [pre_prepare EXCEPT ![r] = pps]
      /\ prepare_certificate' = [prepare_certificate EXCEPT ![r][s] =
                                   IF certified THEN pp ELSE @]
      /\ IF s = ppARU[r] + 1
         THEN ORDER_Send_Prepares(r, pps, made_eligible[r], sent)
         ELSE msgs' = msgs \cup sent /\ UNCHANGED <<ppARU, made_eligible>>
      /\ UNCHANGED <<viewVars, poVars, prepare, commit, ordered, seq, ARU,
                     Pending_Execution, missing>>
  BY DEF ORDER_Process_Pre_Prepare
<1>4. /\ pre_prepare \in [Correct -> [Seqs -> PrePrepare \cup {NoPP}]]
      /\ prepare_certificate \in [Correct -> [Seqs -> PrePrepare \cup {NoPP}]]
      /\ made_eligible[r] \in [0 .. MaxSeq -> POSeqs \cup {Unpopulated}]
      /\ ppARU \in [Correct -> 0 .. MaxSeq] /\ MaxSeq \in Nat
      /\ r \notin Byzantine
  BY OrderingBounds DEF OrdInv, TypeOK, Correct
<1>5. /\ pps \in [Seqs -> PrePrepare \cup {NoPP}]
      /\ pps[s] = pp
      /\ \A i \in Seqs \ {s} : pps[i] = pre_prepare[r][i]
  BY <1>2, <1>4
<1>6. \A x \in sent : x = m \/ x.type = "COMMIT"
  BY DEF ORDER_Flood_Pre_Prepare, Commit_After_Certificate, Commit
<1>7. certified => Cardinality(PrepareVotes(r, s, pp)) >= Quorum - 1
  BY DEF Gets_Certificate, ORDER_Prepare_Certificate_Ready, PrepareVotes
<1>8. m = Pre_Prepare(m.sender, pp)
  BY <1>1 DEF Message, Pre_Prepare
<1> HIDE DEF certified, sent, pps
<1>9. pre_prepare'[r] = pps /\ \A q \in Correct \ {r} : pre_prepare'[q] = pre_prepare[q]
  BY <1>3, <1>4
<1>10. \A q \in Correct, i \in Seqs :
         prepare_certificate'[q][i] # prepare_certificate[q][i] =>
           q = r /\ i = s /\ certified /\ prepare_certificate'[q][i] = pp
  BY <1>2, <1>3, <1>4
<1>11. view_change_done[r] => pp.view = 1
  BY <1>3 DEF View_Permits, ChainInv, FirstView
<1>12. SlotsWithEligible(r, pps, made_eligible[r])
  <2>1. SlotsWithEligible(r, pre_prepare[r], made_eligible[r])
    BY <1>4, SlotsAgree DEF ChainInv, ExecInv, EligibleKnown
  <2>2. ASSUME view_change_done[r], made_eligible[r][s] # Unpopulated
        PROVE  made_eligible[r][s] = Made_Eligible(pp)
    <3>1. PICK b \in PrePrepare :
            made_eligible[r][s] = Made_Eligible(b) /\ b.seq = s /\ Pre_Prepare(r, b) \in msgs
      BY <1>2, <1>3, <2>2, OrderingBounds DEF ExecInv, EligibleKnown, Knows_Eligible
    <3> DEFINE n == Pre_Prepare(r, b)
    <3>2. n.type = "PRE_PREPARE" /\ n.sender = r /\ n.pp = b /\ n \in msgs
      BY <3>1 DEF Pre_Prepare
    <3> HIDE DEF n
    <3>3. LeaderProposes(n)
      BY <1>4, <3>2 DEF ChainInv, LeadersPropose
    <3>4. m.sender = r /\ m \in msgs
      BY <1>1, <1>3, <1>4, <1>11, <2>2, <3>2, <3>3 DEF LeaderProposes, First_Leader
    <3>5. ProposedAt(n, m, n.pp.seq)
      BY <1>1, <1>2, <3>1, <3>2, <3>4 DEF ProposedAt
    <3> QED
      BY <3>1, <3>2, <3>3, <3>4, <3>5 DEF LeaderProposes
  <2> QED
    BY <1>2, <1>4, <1>5, <1>11, <2>1, <2>2 DEF SlotsWithEligible
<1>13. /\ UNCHANGED <<View, view_change_done, seq, prepare, ordered, ARU,
                      Pending_Execution, missing, execute_queued, cum_aru>>
  BY <1>3 DEF viewVars, poVars
<1>14. /\ msgs \cup sent \subseteq msgs'
       /\ \A x \in msgs' : x \notin msgs \cup sent => x.type = "PREPARE" /\ Prepared(x)'
       /\ \E n \in ppARU[r] .. MaxSeq : /\ ppARU' = [ppARU EXCEPT ![r] = n]
                                        /\ \A i \in Seqs : i <= n => pps[i] # NoPP
       /\ \A q \in Correct \ {r} : made_eligible'[q] = made_eligible[q]
       /\ made_eligible'[r][0] = 0
       /\ view_change_done[r] => \A i \in Seqs :
            made_eligible'[r][i] # Unpopulated =>
              IF pps[i] = NoPP THEN made_eligible'[r][i] = made_eligible[r][i]
                               ELSE made_eligible'[r][i] = Made_Eligible(pps[i])
  <2>1. CASE s = ppARU[r] + 1
    <3>1. ORDER_Send_Prepares(r, pps, made_eligible[r], sent)
      BY <1>3, <2>1
    <3> PICK n \in ppARU[r] .. MaxSeq : SendsPrepares(r, pps, made_eligible[r], sent, n)
      BY <1>12, <3>1, SendPreparesFollow
    <3>2. ASSUME NEW x \in msgs', x \notin msgs \cup sent
          PROVE  x.type = "PREPARE" /\ Prepared(x)'
      <4>1. PICK i \in Seqs : /\ x = Prepare(r, pps[i])
                              /\ pps[i] # NoPP
                              /\ pps[i].seq = i /\ pps[i].view = 1
                              /\ Follows(pps, i)
        BY <3>2 DEF SendsPrepares
      <4>2. x.sender = r /\ x.pp = pps[i] /\ x.type = "PREPARE"
        BY <4>1 DEF Prepare
      <4> QED
        BY <1>9, <4>1, <4>2 DEF Prepared, Follows, Made_Eligible, Larger
    <3> QED
      BY <3>2 DEF SendsPrepares
  <2>2. CASE s # ppARU[r] + 1
    <3>1. msgs' = msgs \cup sent /\ UNCHANGED <<ppARU, made_eligible>>
      BY <1>3, <2>2
    <3>2. ppARU[r] \in ppARU[r] .. MaxSeq /\ ppARU' = [ppARU EXCEPT ![r] = ppARU[r]]
      BY <1>4, <3>1
    <3>3. \A i \in Seqs : i <= ppARU[r] => pps[i] # NoPP
      BY <1>12 DEF SlotsWithEligible
    <3> QED
      BY <1>12, <3>1, <3>2, <3>3 DEF SlotsWithEligible
  <2> QED
    BY <2>1, <2>2
<1>15. ChainInv'
  <2>1. \A x \in msgs' \ msgs :
          /\ x.type = "PREPARE" => Prepared(x)'
          /\ x.type = "PRE_PREPARE" => x.sender \in Byzantine
    BY <1>1, <1>6, <1>14
  <2>2. \A q \in Correct, i \in Seqs :
          pre_prepare[q][i] # NoPP => pre_prepare'[q][i] = pre_prepare[q][i]
    BY <1>3, <1>5, <1>9
  <2>3. ASSUME NEW q \in Correct, NEW i \in Seqs, pre_prepare'[q][i] # pre_prepare[q][i]
        PROVE  LET l == UTIL_Leader_Of_View[pre_prepare'[q][i].view] IN
               /\ l \notin Byzantine => Pre_Prepare(l, pre_prepare'[q][i]) \in msgs
               /\ view_change_done[q] => pre_prepare'[q][i].view = 1
    <3>1. q = r /\ i = s /\ pre_prepare'[q][i] = pp
      BY <1>5, <1>9, <2>3
    <3> QED
      BY <1>1, <1>3, <1>8, <1>11, <3>1
  <2>4. ASSUME NEW q \in Correct, NEW i \in Seqs,
               prepare_certificate'[q][i] # prepare_certificate[q][i]
        PROVE  Cardinality(PrepareVotes(q, i, prepare_certificate[q][i])') >= Quorum - 1
    <3>1. PrepareVotes(q, i, prepare_certificate[q][i])' = PrepareVotes(r, s, pp)
      BY <1>10, <1>13, <2>4 DEF PrepareVotes
    <3> QED
      BY <1>7, <1>10, <2>4, <3>1
  <2>5. msgs \subseteq msgs'
    BY <1>14
  <2> QED
    BY <1>13, <2>1, <2>2, <2>3, <2>4, <2>5, ChainStep
<1>16. EligibleKnown'
  <2>1. \A q \in Correct : made_eligible'[q][0] = 0
    BY <1>14 DEF ExecInv, EligibleKnown
  <2>2. ASSUME NEW q \in Correct, NEW i \in Seqs, view_change_done[q],
               made_eligible'[q][i] # Unpopulated
        PROVE  \/ /\ pre_prepare'[q][i] \in PrePrepare
                  /\ made_eligible'[q][i] = Made_Eligible(pre_prepare'[q][i])
               \/ /\ made_eligible'[q][i] = made_eligible[q][i]
                  /\ pre_prepare'[q][i] = pre_prepare[q][i]
    <3>1. CASE q # r
      BY <1>9, <1>14, <3>1
    <3>2. CASE q = r /\ pps[i] # NoPP
      BY <1>5, <1>9, <1>14, <2>2, <3>2
    <3>3. CASE q = r /\ pps[i] = NoPP
      <4>1. i # s /\ pre_prepare[r][i] = NoPP
        BY <1>2, <1>5, <3>3
      <4> QED
        BY <1>9, <1>14, <2>2, <3>3, <4>1
    <3> QED
      BY <3>1, <3>2, <3>3
  <2>3. msgs \subseteq msgs'
    BY <1>14
  <2> QED
    BY <1>13, <2>1, <2>2, <2>3, EligibleStep DEF ExecInv
<1>17. AcceptedCoversExecuted'
  <2> PICK n \in ppARU[r] .. MaxSeq : /\ ppARU' = [ppARU EXCEPT ![r] = n]
                                      /\ \A i \in Seqs : i <= n => pps[i] # NoPP
    BY <1>14
  <2>1. ppARU'[r] = n /\ \A q \in Correct \ {r} : ppARU'[q] = ppARU[q]
    BY <1>4
  <2>2. ARU[r] <= n /\ \A i \in 1 .. n : pps[i] # NoPP
    <3>1. ARU[r] <= ppARU[r] /\ ARU[r] \in 0 .. MaxSeq
      BY DEF ExecInv, AcceptedCoversExecuted, OrdInv, TypeOK
    <3> QED
      BY <1>4, <3>1 DEF Seqs
  <2> SUFFICES ASSUME NEW q \in Correct
               PROVE  /\ ARU[q] <= ppARU'[q]
                      /\ \A i \in 1 .. ppARU'[q] : pre_prepare'[q][i] # NoPP
    BY <1>13 DEF AcceptedCoversExecuted
  <2>3. CASE q = r
    BY <1>9, <2>1, <2>2, <2>3
  <2>4. CASE q # r
    BY <1>9, <2>1, <2>4 DEF ExecInv, AcceptedCoversExecuted
  <2> QED
    BY <2>3, <2>4
<1>18. OrderedWaits' /\ MissingToCome' /\ NoLostWakeup'
  BY <1>13 DEF ExecInv, OrderedWaits, MissingToCome, NoLostWakeup
<1> QED
  BY <1>15, <1>16, <1>17, <1>18 DEF ExecInv

(* A step that leaves the slots, the messages and the execution alone      *)
(* keeps both invariants.                                                  *)
LEMMA NothingSentExec ==
  ASSUME OrdInv, OrdInv', ChainInv, ExecInv,
         UNCHANGED <<slotVars, execVars, poVars, seq, msgs>>,
         \A q \in Correct : view_change_done'[q] => view_change_done[q] /\ View'[q] = View[q]
  PROVE  ChainInv' /\ ExecInv'
<1>1. /\ UNCHANGED <<pre_prepare, prepare, prepare_certificate, ordered>>
      /\ UNCHANGED <<ARU, ppARU, made_eligible, Pending_Execution, missing>>
      /\ UNCHANGED <<cum_aru, execute_queued>>
  BY DEF slotVars, execVars, poVars
<1>2. ChainInv'
  BY <1>1, ChainStep
<1>3. EligibleKnown'
  BY <1>1, EligibleStep DEF ExecInv, EligibleKnown
<1>4. AcceptedCoversExecuted' /\ OrderedWaits' /\ MissingToCome' /\ NoLostWakeup'
  BY <1>1 DEF ExecInv, AcceptedCoversExecuted, OrderedWaits, MissingToCome, NoLostWakeup
<1> QED
  BY <1>2, <1>3, <1>4 DEF ExecInv

(* A Prepare is counted that was sent; a certificate has its quorum.       *)
LEMMA ProcessPrepareExec ==
  ASSUME OrdInv, OrdInv', ChainInv, ExecInv, NEW r \in Correct,
         NEW m \in Arriving("PREPARE", r), ORDER_Process_Prepare(r, m)
  PROVE  ChainInv' /\ ExecInv'
<1> DEFINE s == m.pp.seq
           votes == [prepare[r][s] EXCEPT ![m.sender] = m.pp]
           mine == pre_prepare[r][s]
           certified == Gets_Certificate(r, s, mine, votes)
<1>1. m \in Message /\ m.type = "PREPARE" /\ (m.sender \notin Byzantine => m \in msgs)
  BY ArrivingType DEF OrdInv, TypeOK, MessageType
<1>2. m.pp \in PrePrepare /\ s \in Seqs /\ m.sender \in Servers
  BY <1>1 DEF Message, PrePrepare
<1>3. /\ m.sender # UTIL_Leader_Of_View[m.pp.view]
      /\ prepare[r][s][m.sender] = NoPP
      /\ prepare' = [prepare EXCEPT ![r][s] = votes]
      /\ prepare_certificate' = [prepare_certificate EXCEPT ![r][s] =
                                   IF certified THEN mine ELSE @]
      /\ msgs' = msgs \cup IF certified THEN Commit_After_Certificate(r, mine) ELSE {}
      /\ UNCHANGED <<viewVars, execVars, poVars, pre_prepare, commit, ordered, seq>>
  BY DEF ORDER_Process_Prepare
<1>4. /\ prepare_certificate \in [Correct -> [Seqs -> PrePrepare \cup {NoPP}]]
      /\ prepare \in [Correct -> [Seqs -> [Servers -> PrePrepare \cup {NoPP}]]]
  BY DEF OrdInv, TypeOK
<1>5. /\ votes \in [Servers -> PrePrepare \cup {NoPP}]
      /\ votes[m.sender] = m.pp
      /\ \A q \in Servers \ {m.sender} : votes[q] = prepare[r][s][q]
  BY <1>2, <1>4
<1>6. certified => Cardinality({q \in Servers : votes[q] = mine}) >= Quorum - 1
  BY DEF Gets_Certificate, ORDER_Prepare_Certificate_Ready
<1>7. m = Prepare(m.sender, m.pp)
  BY <1>1 DEF Message, Prepare
<1>8. msgs \subseteq msgs' /\ \A x \in msgs' \ msgs : x.type = "COMMIT"
  BY <1>3 DEF Commit_After_Certificate, Commit
<1> HIDE DEF votes, mine, certified
<1>9. /\ prepare'[r][s] = votes
      /\ \A q \in Correct, i \in Seqs : ~(q = r /\ i = s) => prepare'[q][i] = prepare[q][i]
  BY <1>2, <1>3, <1>4, <1>5
<1>10. \A q \in Correct, i \in Seqs :
         prepare_certificate'[q][i] # prepare_certificate[q][i] =>
           q = r /\ i = s /\ certified /\ prepare_certificate'[q][i] = mine
  BY <1>2, <1>3, <1>4
<1>11. UNCHANGED <<View, view_change_done, pre_prepare, ordered, ARU, ppARU, made_eligible,
                   Pending_Execution, missing, cum_aru, execute_queued, seq>>
  BY <1>3 DEF viewVars, execVars, poVars
<1>12. ChainInv'
  <2>1. ASSUME NEW q \in Correct, NEW i \in Seqs, NEW t \in Servers,
               prepare'[q][i][t] # prepare[q][i][t]
        PROVE  /\ prepare[q][i][t] = NoPP
               /\ t # UTIL_Leader_Of_View[prepare'[q][i][t].view]
               /\ t \notin Byzantine => Prepare(t, prepare'[q][i][t]) \in msgs
    <3>1. q = r /\ i = s /\ t = m.sender /\ prepare'[q][i][t] = m.pp
      BY <1>5, <1>9, <2>1
    <3> QED
      BY <1>1, <1>3, <1>7, <3>1
  <2>2. ASSUME NEW q \in Correct, NEW i \in Seqs,
               prepare_certificate'[q][i] # prepare_certificate[q][i]
        PROVE  Cardinality(PrepareVotes(q, i, prepare_certificate[q][i])') >= Quorum - 1
    <3>1. PrepareVotes(q, i, prepare_certificate[q][i])' = {t \in Servers : votes[t] = mine}
      BY <1>9, <1>10, <2>2 DEF PrepareVotes
    <3> QED
      BY <1>6, <1>10, <2>2, <3>1
  <2> QED
    BY <1>8, <1>11, <2>1, <2>2, ChainStep
<1>13. EligibleKnown'
  BY <1>8, <1>11, EligibleStep DEF ExecInv, EligibleKnown
<1>14. AcceptedCoversExecuted' /\ OrderedWaits' /\ MissingToCome' /\ NoLostWakeup'
  BY <1>11 DEF ExecInv, AcceptedCoversExecuted, OrderedWaits, MissingToCome, NoLostWakeup
<1> QED
  BY <1>12, <1>13, <1>14 DEF ExecInv

(* A Commit is counted; the slot may be ordered, and slots executed.       *)
LEMMA ProcessCommitExec ==
  ASSUME OrdInv, OrdInv', ChainInv, ExecInv, NEW r \in Correct,
         NEW m \in Arriving("COMMIT", r), ORDER_Process_Commit(r, m)
  PROVE  ChainInv' /\ ExecInv'
<1> DEFINE s == m.pp.seq
           votes == [commit[r][s] EXCEPT ![m.sender] = m.pp]
           me == Populate(pre_prepare[r], made_eligible[r], {s})
<1>1. m \in Message /\ s \in Seqs
  BY ArrivingType DEF OrdInv, TypeOK, MessageType, Message, PrePrepare
<1>2. UNCHANGED <<View, view_change_done, pre_prepare, prepare, prepare_certificate, seq,
                  cum_aru, execute_queued>>
  BY DEF ORDER_Process_Commit, viewVars, poVars
<1>3. CASE /\ ORDER_Commit_Certificate_Ready(pre_prepare[r][s], votes)
           /\ ordered' = [ordered EXCEPT ![r] = @ \cup {s}]
           /\ ORDER_Execute_Commit(r, s, me)
  <2>1. pre_prepare[r][s] # NoPP
    BY <1>3 DEF ORDER_Commit_Certificate_Ready
  <2>2. /\ pre_prepare[r] \in [Seqs -> PrePrepare \cup {NoPP}]
        /\ made_eligible[r] \in [0 .. MaxSeq -> POSeqs \cup {Unpopulated}]
        /\ 0 \in 0 .. MaxSeq /\ 0 \notin {s} /\ Seqs \subseteq 0 .. MaxSeq
    BY <1>1, OrderingBounds DEF OrdInv, TypeOK, Seqs
  <2>3. me \in [0 .. MaxSeq -> POSeqs \cup {Unpopulated}]
    BY <1>1, <2>1, <2>2, PopulateType
  <2>4. /\ me[0] = 0
        /\ \A i \in Seqs : me[i] # Unpopulated =>
             \/ me[i] = made_eligible[r][i]
             \/ pre_prepare[r][i] # NoPP /\ me[i] = Made_Eligible(pre_prepare[r][i])
    <3>1. \A i \in 0 .. MaxSeq : me[i] = IF i \in {s} THEN
            Eligible_At(pre_prepare[r], made_eligible[r], i) ELSE made_eligible[r][i]
      BY DEF Populate
    <3> HIDE DEF me
    <3> QED
      BY <2>1, <2>2, <3>1 DEF Eligible_At, ExecInv, EligibleKnown
  <2>5. \A q \in Correct : ordered'[q] = IF q = r THEN ordered[q] \cup {s} ELSE ordered[q]
    BY <1>3 DEF OrdInv, TypeOK
  <2> HIDE DEF me
  <2> QED
    BY <1>1, <1>2, <1>3, <2>3, <2>4, <2>5, ExecuteStep
<1>4. CASE UNCHANGED <<ordered, execVars, msgs>>
  <2>1. UNCHANGED <<ordered, ARU, ppARU, made_eligible, Pending_Execution, missing, msgs>>
    BY <1>4 DEF execVars
  <2>2. ChainInv'
    BY <1>2, <2>1, ChainStep
  <2>3. EligibleKnown'
    BY <1>2, <2>1, EligibleStep DEF ExecInv, EligibleKnown
  <2>4. AcceptedCoversExecuted' /\ OrderedWaits' /\ MissingToCome' /\ NoLostWakeup'
    BY <1>2, <2>1 DEF ExecInv, AcceptedCoversExecuted, OrderedWaits, MissingToCome, NoLostWakeup
  <2> QED
    BY <2>2, <2>3, <2>4 DEF ExecInv
<1> QED
  BY <1>3, <1>4 DEF ORDER_Process_Commit

(* When the last PO-Request that a slot waits for arrives, an attempt is   *)
(* queued.                                                                 *)
LEMMA UpdateCumARUExec ==
  ASSUME OrdInv, OrdInv', ChainInv, ExecInv, NEW r \in Correct, PRE_ORDER_Update_Cum_ARU(r)
  PROVE  ChainInv' /\ ExecInv'
<1> PICK c \in POSeqs :
      /\ cum_aru' = [cum_aru EXCEPT ![r] = c]
      /\ missing' = [missing EXCEPT ![r] = [s \in Seqs |-> Still_Missing(r, c, s)]]
      /\ execute_queued' = [execute_queued EXCEPT ![r] = @ \/ Hole_Filled(r, c)]
      /\ UNCHANGED <<viewVars, slotVars, seq, ARU, ppARU, made_eligible,
                     Pending_Execution, msgs>>
  BY DEF PRE_ORDER_Update_Cum_ARU
<1>1. UNCHANGED <<View, view_change_done, pre_prepare, prepare, prepare_certificate, ordered,
                  seq, ARU, ppARU, made_eligible, Pending_Execution, msgs>>
  BY DEF viewVars, slotVars
<1>2. ChainInv'
  BY <1>1, ChainStep
<1>3. EligibleKnown'
  BY <1>1, EligibleStep DEF ExecInv, EligibleKnown
<1>4. AcceptedCoversExecuted' /\ OrderedWaits'
  BY <1>1 DEF ExecInv, AcceptedCoversExecuted, OrderedWaits
<1> DEFINE queued == execute_queued[r] \/ Hole_Filled(r, c)
<1>5. execute_queued' = [execute_queued EXCEPT ![r] = queued]
  OBVIOUS
<1> HIDE DEF queued
<1>6. /\ cum_aru'[r] = c
      /\ execute_queued'[r] = queued
      /\ \A s \in Seqs : missing'[r][s] = Still_Missing(r, c, s)
      /\ \A q \in Correct \ {r} : /\ cum_aru'[q] = cum_aru[q]
                                  /\ execute_queued'[q] = execute_queued[q]
                                  /\ missing'[q] = missing[q]
  BY <1>5 DEF OrdInv, TypeOK
<1>7. MissingToCome'
  BY <1>6 DEF ExecInv, MissingToCome, Still_Missing
<1>8. NoLostWakeup'
  <2> SUFFICES ASSUME NEW q \in Correct, NEW s \in ordered[q], s = ARU[q] + 1
               PROVE  /\ s \in Pending_Execution[q]
                      /\ \/ execute_queued'[q]
                         \/ missing'[q][s] # {} /\ \A x \in missing'[q][s] : x > cum_aru'[q]
    BY <1>1 DEF NoLostWakeup
  <2>0. s \in Seqs
    BY DEF OrdInv, TypeOK
  <2>1. /\ s \in Pending_Execution[q]
        /\ execute_queued[q] \/ missing[q][s] # {}
    BY DEF ExecInv, NoLostWakeup
  <2>2. \A x \in missing'[q][s] : x > cum_aru'[q]
    BY <1>7, <2>0 DEF MissingToCome
  <2>3. CASE q = r /\ Still_Missing(r, c, s) = {} /\ missing[r][s] # {}
    <3>1. Hole_Filled(r, c)
      BY <2>0, <2>3 DEF Hole_Filled
    <3> QED
      BY <1>6, <2>1, <2>3, <3>1 DEF queued
  <2>4. CASE q = r /\ ~(Still_Missing(r, c, s) = {} /\ missing[r][s] # {})
    BY <1>6, <2>0, <2>1, <2>2, <2>4 DEF queued
  <2>5. CASE q # r
    BY <1>6, <2>1, <2>2, <2>5
  <2> QED
    BY <2>3, <2>4, <2>5
<1> QED
  BY <1>2, <1>3, <1>4, <1>7, <1>8 DEF ExecInv

(* A queued attempt that finds nothing to execute was not needed.          *)
LEMMA AttemptToExecuteExec ==
  ASSUME OrdInv, OrdInv', ChainInv, ExecInv, NEW r \in Correct,
         ORDER_Attempt_To_Execute_Pending_Commits(r)
  PROVE  ChainInv' /\ ExecInv'
<1> DEFINE s == ARU[r] + 1
<1>1. /\ execute_queued' = [execute_queued EXCEPT ![r] = FALSE]
      /\ IF s \in Pending_Execution[r]
         THEN ORDER_Execute_Commit(r, s, made_eligible[r])
         ELSE UNCHANGED <<execVars, msgs>>
      /\ UNCHANGED <<View, view_change_done, pre_prepare, prepare, prepare_certificate,
                     ordered, cum_aru, seq>>
  BY DEF ORDER_Attempt_To_Execute_Pending_Commits, viewVars, slotVars
<1>2. \A q \in Correct \ {r} : execute_queued'[q] = execute_queued[q]
  BY <1>1 DEF OrdInv, TypeOK
<1>3. CASE s \in Pending_Execution[r]
  <2>1. s \in Seqs /\ s \in ordered[r]
    BY <1>3 DEF OrdInv, TypeOK, ExecutedOrdered
  <2>2. /\ made_eligible[r] \in [0 .. MaxSeq -> POSeqs \cup {Unpopulated}]
        /\ made_eligible[r][0] = 0
    BY DEF OrdInv, TypeOK, ExecInv, EligibleKnown
  <2>3. \A q \in Correct : ordered'[q] = IF q = r THEN ordered[q] \cup {s} ELSE ordered[q]
    BY <1>1, <2>1
  <2>4. ORDER_Execute_Commit(r, s, made_eligible[r])
    BY <1>1, <1>3
  <2>5. s = ARU[r] + 1
    OBVIOUS
  <2> HIDE DEF s
  <2> QED
    BY <1>1, <1>2, <2>1, <2>2, <2>3, <2>4, <2>5, ExecuteStep
<1>4. CASE s \notin Pending_Execution[r]
  <2>1. UNCHANGED <<ARU, ppARU, made_eligible, Pending_Execution, missing, msgs>>
    BY <1>1, <1>4 DEF execVars
  <2>2. ChainInv'
    BY <1>1, <2>1, ChainStep
  <2>3. EligibleKnown'
    BY <1>1, <2>1, EligibleStep DEF ExecInv, EligibleKnown
  <2>4. AcceptedCoversExecuted' /\ OrderedWaits' /\ MissingToCome'
    BY <1>1, <2>1 DEF ExecInv, AcceptedCoversExecuted, OrderedWaits, MissingToCome
  <2>5. NoLostWakeup'
    BY <1>1, <1>2, <1>4, <2>1 DEF ExecInv, NoLostWakeup
  <2> QED
    BY <2>2, <2>3, <2>4, <2>5 DEF ExecInv
<1> QED
  BY <1>3, <1>4

-----------------------------------------------------------------------------
(* Every step keeps both invariants.                                       *)
LEMMA ExecStep ==
  ASSUME OrdInv, OrdInv', ChainInv, ExecInv, [Next]_vars
  PROVE  ChainInv' /\ ExecInv'
<1>1. CASE UNCHANGED vars
  BY <1>1, NothingSentExec DEF vars, viewVars
<1>2. CASE Next
  <2> PICK r \in Correct : Step(r)
    BY <1>2 DEF Next
  <2>1. CASE \E m \in Arriving("PRE_PREPARE", r) : Inconsistent_Pre_Prepare(r, m)
    BY <2>1, NothingSentExec DEF Inconsistent_Pre_Prepare
  <2>2. CASE VIEW_Start_View_Change(r)
    <3>1. PICK v \in Views :
            /\ View' = [View EXCEPT ![r] = v]
            /\ view_change_done' = [view_change_done EXCEPT ![r] = FALSE]
            /\ UNCHANGED <<slotVars, execVars, poVars, seq, msgs>>
      BY <2>2 DEF VIEW_Start_View_Change
    <3>2. \A q \in Correct : view_change_done'[q] => view_change_done[q] /\ View'[q] = View[q]
      BY <3>1 DEF OrdInv, TypeOK
    <3> QED
      BY <3>1, <3>2, NothingSentExec
  <2> QED
    BY <2>1, <2>2, SendPrePrepareExec, ProcessPrePrepareExec, ProcessPrepareExec,
       ProcessCommitExec, UpdateCumARUExec, AttemptToExecuteExec DEF Step
<1> QED
  BY <1>1, <1>2

(* The invariant behind the three theorems below.                          *)
THEOREM ExecInvariant == Spec => [](OrdInv /\ ChainInv /\ ExecInv)
<1>1. Init => ChainInv /\ ExecInv
  BY ExecInit
<1>2. OrdInv /\ OrdInv' /\ ChainInv /\ ExecInv /\ [Next]_vars => ChainInv' /\ ExecInv'
  BY ExecStep
<1> QED
  BY <1>1, <1>2, OrdInvariant, PTL DEF Spec

(* Executed slots follow each other at every replica, although only the    *)
(* replicas that send a Prepare compare them: no PO-Request is executed    *)
(* twice and none is skipped.                                              *)
THEOREM OrdNoRequestTwiceOrSkipped == Spec => []NoRequestTwiceOrSkipped
<1>1. OrdInv /\ ChainInv => NoRequestTwiceOrSkipped
  <2> SUFFICES ASSUME OrdInv, ChainInv, NEW r \in Correct, NEW s \in Seqs, s <= ARU[r]
               PROVE  pre_prepare[r][s].last_executed =
                        (IF s = 1 THEN 0 ELSE Made_Eligible(pre_prepare[r][s - 1]))
    BY DEF NoRequestTwiceOrSkipped
  <2>1. s \in ordered[r]
    BY DEF OrdInv, ExecutedOrdered
  <2>2. CASE s = 1
    BY <2>1, <2>2, OrderedFollows
  <2>3. CASE s # 1
    <3>1. s > 1 /\ s - 1 \in Seqs /\ s - 1 <= ARU[r]
      BY <2>3, OrderingBounds DEF Seqs, OrdInv, TypeOK
    <3>2. s - 1 \in ordered[r]
      BY <3>1 DEF OrdInv, ExecutedOrdered
    <3> QED
      BY <2>1, <2>3, <3>1, <3>2, OrderedFollows
  <2> QED
    BY <2>2, <2>3
<1> QED
  BY <1>1, ExecInvariant, PTL

(* The assertions of ORDER_Send_Prepares and ORDER_Periodic_Retrans hold:  *)
(* ppARU keeps up with ARU, and the slots up to it have their Pre-Prepares.*)
THEOREM OrdAcceptedCoversExecuted == Spec => []AcceptedCoversExecuted
<1>1. ExecInv => AcceptedCoversExecuted
  BY DEF ExecInv
<1> QED
  BY <1>1, ExecInvariant, PTL

(* A slot that can be executed next is being executed or waits for a       *)
(* PO-Request whose arrival queues the attempt.                            *)
THEOREM OrdNoLostWakeup == Spec => []NoLostWakeup
<1>1. ExecInv => NoLostWakeup
  BY DEF ExecInv
<1> QED
  BY <1>1, ExecInvariant, PTL
=============================================================================
