--------------------------- MODULE OrderingProofs ---------------------------
(***************************************************************************)
(* Proofs about Ordering, for every number of replicas, views, sequence    *)
(* numbers and PO-Requests and for whatever the Byzantine servers send.    *)
(***************************************************************************)
EXTENDS Ordering, PrimeConfigProofs

(* A slot holds a Pre-Prepare for its own sequence number, and its         *)
(* certificate, once there, is for that Pre-Prepare.                       *)
SlotsConsistent ==
  \A r \in Correct, s \in Seqs :
    /\ pre_prepare[r][s] # NoPP => pre_prepare[r][s].seq = s
    /\ prepare_certificate[r][s] \in {NoPP, pre_prepare[r][s]}

(* A correct replica has a certificate for what it commits: since the      *)
(* certificate of a slot never changes, it commits one thing per slot.     *)
CommitsCertified ==
  \A m \in msgs :
    m.type = "COMMIT" =>
      m.sender \in Correct /\ prepare_certificate[m.sender][m.pp.seq] = m.pp

(* A stored Commit was sent, unless its sender is Byzantine.               *)
CountedCommits ==
  \A r \in Correct, s \in Seqs, q \in Servers \ Byzantine :
    commit[r][s][q] # NoPP =>
      Commit(q, commit[r][s][q]) \in msgs /\ commit[r][s][q].seq = s

CommitVotes(r, s) == {q \in Servers : commit[r][s][q] = pre_prepare[r][s]}

(* What is ordered has a commit certificate.                               *)
OrderedBacked ==
  \A r \in Correct, s \in Seqs :
    s \in ordered[r] =>
      pre_prepare[r][s] # NoPP /\ Cardinality(CommitVotes(r, s)) >= Quorum

(* What is executed, or waits for execution, is ordered.                   *)
ExecutedOrdered ==
  \A r \in Correct, s \in Seqs :
    s <= ARU[r] \/ s \in Pending_Execution[r] => s \in ordered[r]

(* The slot a leader's next Pre-Prepare builds on has its made_eligible.   *)
LeaderPopulated ==
  \A r \in Correct : made_eligible[r][seq[r] - 1] # Unpopulated

(* A replica that has reported is in a view change and commits nothing     *)
(* more; each of its reports covers all that it has committed.             *)
CommitsReported ==
  /\ \A r \in Correct : view_change_done[r] => report[r] = {}
  /\ \A m \in msgs :
       m.type = "COMMIT" =>
         \A rep \in report[m.sender] : rep.execARU >= m.pp.seq \/ m.pp \in rep.pc_set

OrdInv ==
  /\ TypeOK
  /\ SlotsConsistent
  /\ CommitsCertified
  /\ CountedCommits
  /\ OrderedBacked
  /\ ExecutedOrdered
  /\ LeaderPopulated
  /\ CommitsReported

-----------------------------------------------------------------------------
(* What a Pre-Prepare makes eligible is a PO-Request number, whether read  *)
(* from the slot or computed.                                              *)
LEMMA EligibleType ==
  ASSUME NEW pp \in PrePrepare
  PROVE  Made_Eligible(pp) \in POSeqs
BY OrderingBounds DEF PrePrepare, Made_Eligible, Larger

(* Populate fills in what is not there and leaves the rest.                *)
LEMMA PopulateType ==
  ASSUME NEW pps \in [Seqs -> PrePrepare \cup {NoPP}],
         NEW me \in [0 .. MaxSeq -> POSeqs \cup {Unpopulated}],
         NEW slots \in SUBSET Seqs,
         \A s \in slots : pps[s] # NoPP
  PROVE  /\ Populate(pps, me, slots) \in [0 .. MaxSeq -> POSeqs \cup {Unpopulated}]
         /\ \A s \in 0 .. MaxSeq : me[s] # Unpopulated => Populate(pps, me, slots)[s] # Unpopulated
<1>1. \A s \in slots : Made_Eligible(pps[s]) \in POSeqs
  BY EligibleType
<1>2. \A s \in slots : Eligible_At(pps, me, s) \in POSeqs
  BY <1>1, OrderingBounds DEF Eligible_At, Seqs
<1> QED
  BY <1>2, OrderingBounds DEF Populate

(* ORDER_Send_Prepares only moves ppARU, fills in made_eligible and sends  *)
(* Prepares.                                                               *)
LEMMA SendPreparesEffect ==
  ASSUME TypeOK, NEW r \in Correct, NEW sent,
         NEW pps \in [Seqs -> PrePrepare \cup {NoPP}],
         NEW me \in [0 .. MaxSeq -> POSeqs \cup {Unpopulated}],
         ORDER_Send_Prepares(r, pps, me, sent)
  PROVE  /\ ppARU' \in [Correct -> 0 .. MaxSeq]
         /\ made_eligible' \in [Correct -> [0 .. MaxSeq -> POSeqs \cup {Unpopulated}]]
         /\ \A q \in Correct \ {r} : made_eligible'[q] = made_eligible[q]
         /\ \A s \in 0 .. MaxSeq : me[s] # Unpopulated => made_eligible'[r][s] # Unpopulated
         /\ msgs \cup sent \subseteq msgs'
         /\ \A m \in msgs' : m \in msgs \cup sent \/ (m \in Message /\ m.type = "PREPARE")
<1> PICK n \in ppARU[r] .. MaxSeq :
      /\ \A s \in ppARU[r] + 1 .. n : May_Prepare(r, pps, me, s)
      /\ ppARU' = [ppARU EXCEPT ![r] = n]
      /\ made_eligible' = [made_eligible EXCEPT ![r] =
                             IF view_change_done[r]
                             THEN Populate(pps, me, ppARU[r] + 1 .. n) ELSE me]
      /\ msgs' = msgs \cup sent \cup
                 {Prepare(r, pps[s]) :
                    s \in IF view_change_done[r] /\ ~I_Am_Leader(r)
                          THEN ppARU[r] + 1 .. n ELSE {}}
  BY DEF ORDER_Send_Prepares
<1> DEFINE new == ppARU[r] + 1 .. n
<1>1. ppARU[r] \in 0 .. MaxSeq /\ MaxSeq \in Nat /\ n \in 0 .. MaxSeq
  BY OrderingBounds DEF TypeOK
<1>2. new \in SUBSET Seqs
  BY <1>1 DEF Seqs
<1>3. \A s \in new : pps[s] # NoPP
  BY DEF May_Prepare
<1>4. /\ Populate(pps, me, new) \in [0 .. MaxSeq -> POSeqs \cup {Unpopulated}]
      /\ \A s \in 0 .. MaxSeq : me[s] # Unpopulated => Populate(pps, me, new)[s] # Unpopulated
  BY <1>2, <1>3, PopulateType
<1>5. ppARU' \in [Correct -> 0 .. MaxSeq]
  BY <1>1 DEF TypeOK
<1>6. \A s \in new : Prepare(r, pps[s]) \in Message /\ Prepare(r, pps[s]).type = "PREPARE"
  BY <1>2, <1>3, FaultModel DEF Prepare, Message, MessageType, Correct
<1>7. /\ made_eligible' \in [Correct -> [0 .. MaxSeq -> POSeqs \cup {Unpopulated}]]
      /\ \A q \in Correct \ {r} : made_eligible'[q] = made_eligible[q]
      /\ \A s \in 0 .. MaxSeq : me[s] # Unpopulated => made_eligible'[r][s] # Unpopulated
  <2> HIDE DEF new
  <2>1. made_eligible \in [Correct -> [0 .. MaxSeq -> POSeqs \cup {Unpopulated}]]
    BY DEF TypeOK
  <2>2. CASE view_change_done[r]
    <3>1. made_eligible' = [made_eligible EXCEPT ![r] = Populate(pps, me, new)]
      BY <2>2 DEF new
    <3> QED BY <2>1, <3>1, <1>4
  <2>3. CASE ~view_change_done[r]
    <3>1. made_eligible' = [made_eligible EXCEPT ![r] = me]
      BY <2>3
    <3> QED BY <2>1, <3>1
  <2> QED BY <2>2, <2>3
<1>8. \A m \in msgs' : m \in msgs \cup sent \/ (m \in Message /\ m.type = "PREPARE")
  BY <1>6
<1> QED
  BY <1>5, <1>7, <1>8

(* ORDER_Execute_Commit executes nothing, and makes nothing wait, but what *)
(* waited already and the slot it is called for; it sends only Prepares.   *)
LEMMA ExecuteCommitEffect ==
  ASSUME TypeOK, NEW r \in Correct, NEW s \in Seqs,
         NEW me \in [0 .. MaxSeq -> POSeqs \cup {Unpopulated}],
         \A i \in Pending_Execution[r] \cup {s} : pre_prepare[r][i] # NoPP,
         ORDER_Execute_Commit(r, s, me)
  PROVE  /\ ARU' \in [Correct -> 0 .. MaxSeq]
         /\ ppARU' \in [Correct -> 0 .. MaxSeq]
         /\ Pending_Execution' \in [Correct -> SUBSET Seqs]
         /\ missing' \in [Correct -> [Seqs -> SUBSET POSeqs]]
         /\ made_eligible' \in [Correct -> [0 .. MaxSeq -> POSeqs \cup {Unpopulated}]]
         /\ \A q \in Correct \ {r} : made_eligible'[q] = made_eligible[q]
         /\ \A i \in 0 .. MaxSeq : me[i] # Unpopulated => made_eligible'[r][i] # Unpopulated
         /\ \A q \in Correct, i \in Seqs :
              i <= ARU'[q] \/ i \in Pending_Execution'[q] =>
                i <= ARU[q] \/ i \in Pending_Execution[q] \/ (q = r /\ i = s)
         /\ msgs \subseteq msgs'
         /\ \A m \in msgs' : m \in msgs \/ (m \in Message /\ m.type = "PREPARE")
<1> DEFINE waiting == Pending_Execution[r] \cup {s}
<1>0. /\ waiting \in SUBSET Seqs
      /\ ARU[r] \in 0 .. MaxSeq
      /\ MaxSeq \in Nat
      /\ MaxPO \in Nat
  BY OrderingBounds DEF TypeOK
<1>1. CASE s # ARU[r] + 1
  <2>1. /\ Pending_Execution' = [Pending_Execution EXCEPT ![r] = waiting]
        /\ made_eligible' = [made_eligible EXCEPT ![r] = me]
        /\ UNCHANGED <<ARU, ppARU, missing, msgs>>
    BY <1>1 DEF ORDER_Execute_Commit
  <2> HIDE DEF waiting
  <2>2. Pending_Execution' \in [Correct -> SUBSET Seqs]
    BY <1>0, <2>1 DEF TypeOK
  <2>3. made_eligible' \in [Correct -> [0 .. MaxSeq -> POSeqs \cup {Unpopulated}]]
    BY <2>1 DEF TypeOK
  <2>4. \A q \in Correct \ {r} : made_eligible'[q] = made_eligible[q]
    BY <2>1 DEF TypeOK
  <2>5. made_eligible'[r] = me
    BY <2>1 DEF TypeOK
  <2>6. \A q \in Correct, i \in Seqs :
          i <= ARU'[q] \/ i \in Pending_Execution'[q] =>
            i <= ARU[q] \/ i \in Pending_Execution[q] \/ (q = r /\ i = s)
    BY <2>1 DEF TypeOK, waiting
  <2> QED
    BY <2>1, <2>2, <2>3, <2>4, <2>5, <2>6 DEF TypeOK
<1>2. CASE s = ARU[r] + 1
  <2> PICK n \in ARU[r] .. MaxSeq :
        /\ \A i \in ARU[r] + 1 .. n : Ready_To_Execute(r, waiting, i, me)
        /\ ARU' = [ARU EXCEPT ![r] = n]
        /\ Pending_Execution' = [Pending_Execution EXCEPT ![r] = waiting \ (1 .. n)]
        /\ missing' = [missing EXCEPT ![r] = [i \in Seqs |->
             IF i = n + 1 /\ i \in waiting /\ missing[r][i] = {}
             THEN Lacking(r, i, me) ELSE missing[r][i]]]
        /\ IF n > ARU[r]
           THEN ORDER_Send_Prepares(r, pre_prepare[r], me, {})
           ELSE /\ made_eligible' = [made_eligible EXCEPT ![r] = me]
                /\ UNCHANGED <<ppARU, msgs>>
    BY <1>2 DEF ORDER_Execute_Commit
  <2> HIDE DEF waiting
  <2>1. n \in 0 .. MaxSeq /\ n >= ARU[r]
    BY <1>0
  <2>2. ARU' \in [Correct -> 0 .. MaxSeq]
    BY <2>1 DEF TypeOK
  <2>3. Pending_Execution' \in [Correct -> SUBSET Seqs]
    BY <1>0 DEF TypeOK
  <2>4. missing' \in [Correct -> [Seqs -> SUBSET POSeqs]]
    <3>1. \A i \in waiting : Lacking(r, i, me) \in SUBSET POSeqs
      BY DEF Lacking
    <3> DEFINE after == [i \in Seqs |->
             IF i = n + 1 /\ i \in waiting /\ missing[r][i] = {}
             THEN Lacking(r, i, me) ELSE missing[r][i]]
    <3>2. missing[r] \in [Seqs -> SUBSET POSeqs]
      BY DEF TypeOK
    <3>3. after \in [Seqs -> SUBSET POSeqs]
      BY <3>1, <3>2
    <3>4. missing' = [missing EXCEPT ![r] = after]
      OBVIOUS
    <3> HIDE DEF after
    <3> QED
      BY <3>3, <3>4 DEF TypeOK
  <2>5. \A q \in Correct, i \in Seqs :
          i <= ARU'[q] \/ i \in Pending_Execution'[q] =>
            i <= ARU[q] \/ i \in Pending_Execution[q] \/ (q = r /\ i = s)
    <3> SUFFICES ASSUME NEW q \in Correct, NEW i \in Seqs,
                        i <= ARU'[q] \/ i \in Pending_Execution'[q]
                 PROVE  i <= ARU[q] \/ i \in Pending_Execution[q] \/ (q = r /\ i = s)
      OBVIOUS
    <3>1. CASE q # r
      BY <3>1 DEF TypeOK
    <3>2. CASE q = r
      <4>1. ARU'[r] = n /\ Pending_Execution'[r] = waiting \ (1 .. n)
        BY DEF TypeOK
      <4>2. i <= ARU[r] \/ i \in waiting
        <5>1. CASE i <= n
          <6>1. i <= ARU[r] \/ i \in ARU[r] + 1 .. n
            BY <5>1, <2>1, <1>0 DEF Seqs
          <6> QED
            BY <6>1 DEF Ready_To_Execute
        <5> QED
          BY <3>2, <4>1, <5>1
      <4> QED
        BY <3>2, <4>2 DEF waiting
    <3> QED
      BY <3>1, <3>2
  <2>6. CASE n > ARU[r]
    <3>1. pre_prepare[r] \in [Seqs -> PrePrepare \cup {NoPP}]
      BY DEF TypeOK
    <3>2. ORDER_Send_Prepares(r, pre_prepare[r], me, {})
      BY <2>6
    <3>3. /\ ppARU' \in [Correct -> 0 .. MaxSeq]
          /\ made_eligible' \in [Correct -> [0 .. MaxSeq -> POSeqs \cup {Unpopulated}]]
          /\ \A q \in Correct \ {r} : made_eligible'[q] = made_eligible[q]
          /\ \A i \in 0 .. MaxSeq : me[i] # Unpopulated => made_eligible'[r][i] # Unpopulated
          /\ msgs \cup {} \subseteq msgs'
          /\ \A m \in msgs' : m \in msgs \cup {} \/ (m \in Message /\ m.type = "PREPARE")
      BY <3>1, <3>2, SendPreparesEffect
    <3> QED
      BY <2>2, <2>3, <2>4, <2>5, <3>3
  <2>7. CASE ~(n > ARU[r])
    <3>1. made_eligible' = [made_eligible EXCEPT ![r] = me] /\ UNCHANGED <<ppARU, msgs>>
      BY <2>7
    <3>2. /\ made_eligible' \in [Correct -> [0 .. MaxSeq -> POSeqs \cup {Unpopulated}]]
          /\ \A q \in Correct \ {r} : made_eligible'[q] = made_eligible[q]
          /\ made_eligible'[r] = me
      BY <3>1 DEF TypeOK
    <3> QED
      BY <2>2, <2>3, <2>4, <2>5, <3>1, <3>2 DEF TypeOK
  <2> QED
    BY <2>6, <2>7
<1> QED
  BY <1>1, <1>2

-----------------------------------------------------------------------------
(* What a handler sends keeps the Commits certified and reported if each   *)
(* new Commit comes from a replica outside a view change with the          *)
(* certificate for it, and no certificate is ever replaced.                *)
LEMMA CommitsStep ==
  ASSUME OrdInv, msgs \subseteq msgs',
         \A m \in msgs' \ msgs :
           /\ m \in Message
           /\ m.type = "COMMIT" =>
                /\ m.sender \in Correct
                /\ view_change_done[m.sender]
                /\ prepare_certificate'[m.sender][m.pp.seq] = m.pp,
         \A q \in Correct, s \in Seqs :
           prepare_certificate[q][s] # NoPP =>
             prepare_certificate'[q][s] = prepare_certificate[q][s],
         UNCHANGED <<view_change_done, report>>
  PROVE  msgs' \subseteq Message /\ CommitsCertified' /\ CommitsReported'
<1>1. msgs' \subseteq Message
  BY DEF OrdInv, TypeOK
<1>2. CommitsCertified'
  <2> SUFFICES ASSUME NEW m \in msgs', m.type = "COMMIT"
               PROVE  m.sender \in Correct /\ prepare_certificate'[m.sender][m.pp.seq] = m.pp
    BY DEF CommitsCertified
  <2>1. m.pp \in PrePrepare /\ m.pp.seq \in Seqs
    BY <1>1 DEF Message, PrePrepare
  <2>2. m.pp # NoPP
    BY <2>1, OrderingBounds
  <2> QED
    BY <2>1, <2>2 DEF OrdInv, CommitsCertified
<1>3. CommitsReported'
  <2> SUFFICES ASSUME NEW m \in msgs', m.type = "COMMIT", NEW rep \in report[m.sender]
               PROVE  rep.execARU >= m.pp.seq \/ m.pp \in rep.pc_set
    BY DEF OrdInv, CommitsReported
  <2> QED
    BY DEF OrdInv, CommitsReported
<1> QED
  BY <1>1, <1>2, <1>3

(* Counted Commits stay counted as the messages grow.                      *)
LEMMA CountedStep ==
  ASSUME OrdInv, msgs \subseteq msgs',
         \A r \in Correct, s \in Seqs, q \in Servers \ Byzantine :
           \/ commit'[r][s][q] = commit[r][s][q]
           \/ /\ Commit(q, commit'[r][s][q]) \in msgs
              /\ commit'[r][s][q].seq = s
  PROVE  CountedCommits'
<1> SUFFICES ASSUME NEW r \in Correct, NEW s \in Seqs, NEW q \in Servers \ Byzantine,
                    commit'[r][s][q] # NoPP
             PROVE  /\ Commit(q, commit'[r][s][q]) \in msgs'
                    /\ commit'[r][s][q].seq = s
  BY DEF CountedCommits, Commit
<1>1. CASE commit'[r][s][q] = commit[r][s][q]
  BY <1>1 DEF OrdInv, CountedCommits
<1>2. CASE Commit(q, commit'[r][s][q]) \in msgs /\ commit'[r][s][q].seq = s
  BY <1>2
<1> QED
  BY <1>1, <1>2

(* What is ordered stays backed while slots and stored votes are only      *)
(* filled in, and what becomes ordered has its own certificate.            *)
LEMMA BackedStep ==
  ASSUME OrdInv,
         \A r \in Correct, s \in Seqs :
           pre_prepare[r][s] # NoPP => pre_prepare'[r][s] = pre_prepare[r][s],
         \A r \in Correct, s \in Seqs, q \in Servers :
           commit[r][s][q] # NoPP => commit'[r][s][q] = commit[r][s][q],
         \A r \in Correct, s \in Seqs :
           s \in ordered'[r] =>
             \/ s \in ordered[r]
             \/ pre_prepare'[r][s] # NoPP /\ Cardinality(CommitVotes(r, s)') >= Quorum
  PROVE  OrderedBacked'
<1> SUFFICES ASSUME NEW r \in Correct, NEW s \in Seqs, s \in ordered'[r]
             PROVE  pre_prepare'[r][s] # NoPP /\ Cardinality(CommitVotes(r, s)') >= Quorum
  BY DEF OrderedBacked
<1>1. CASE s \in ordered[r]
  <2>1. pre_prepare[r][s] # NoPP /\ Cardinality(CommitVotes(r, s)) >= Quorum
    BY <1>1 DEF OrdInv, OrderedBacked
  <2>2. CommitVotes(r, s) \subseteq CommitVotes(r, s)'
    BY <2>1 DEF CommitVotes
  <2>3. CommitVotes(r, s) \in SUBSET Servers /\ CommitVotes(r, s)' \in SUBSET Servers
    BY DEF CommitVotes
  <2>4. /\ Cardinality(CommitVotes(r, s)) \in Nat
        /\ Cardinality(CommitVotes(r, s)') \in Nat
        /\ Cardinality(CommitVotes(r, s)) <= Cardinality(CommitVotes(r, s)')
    <3> DEFINE A == CommitVotes(r, s)
               B == CommitVotes(r, s)'
    <3>1. A \in SUBSET Servers /\ B \in SUBSET Servers /\ A \subseteq B
      BY <2>2, <2>3
    <3> HIDE DEF A, B
    <3>2. Cardinality(A) \in Nat /\ Cardinality(B) \in Nat /\ Cardinality(A) <= Cardinality(B)
      BY <3>1, VotersMonotone
    <3> QED
      BY <3>2 DEF A, B
  <2> QED
    BY <2>1, <2>4, FaultModel DEF Quorum
<1> QED
  BY <1>1

(* What a step that leaves the slots and the execution alone preserves.    *)
LEMMA SameSlots ==
  ASSUME OrdInv, UNCHANGED <<slotVars, ARU, Pending_Execution, made_eligible, seq>>
  PROVE  SlotsConsistent' /\ OrderedBacked' /\ ExecutedOrdered' /\ LeaderPopulated'
<1>1. /\ UNCHANGED <<pre_prepare, commit, prepare_certificate, ordered>>
      /\ UNCHANGED <<ARU, Pending_Execution, made_eligible, seq>>
  BY DEF slotVars
<1>2. SlotsConsistent'
  BY <1>1 DEF OrdInv, SlotsConsistent
<1>3. OrderedBacked'
  BY <1>1, BackedStep
<1>4. ExecutedOrdered'
  BY <1>1 DEF OrdInv, ExecutedOrdered
<1>5. LeaderPopulated'
  BY <1>1 DEF OrdInv, LeaderPopulated
<1> QED
  BY <1>2, <1>3, <1>4, <1>5

(* Only a Byzantine server's messages arrive without having been sent.     *)
LEMMA ArrivingType ==
  ASSUME msgs \subseteq Message, NEW type \in MessageType, NEW r, NEW m \in Arriving(type, r)
  PROVE  /\ m \in Message
         /\ m.type = type
         /\ m.sender \notin Byzantine => m \in msgs
<1>1. CASE m \in msgs
  BY <1>1 DEF Arriving, Message
<1>2. CASE m \notin msgs
  <2> PICK b \in Byzantine, lie \in Lies :
        lie.type = type /\ m = [type |-> type, sender |-> b, pp |-> lie.pp]
    BY <1>2 DEF Arriving
  <2>1. lie.pp \in PrePrepare
    BY OrderingBounds
  <2> QED
    BY <2>1, FaultModel DEF Message
<1> QED
  BY <1>1, <1>2

-----------------------------------------------------------------------------
(* Each action preserves OrdInv: the initial states first.                 *)
LEMMA OrdInit ==
  ASSUME Init
  PROVE  OrdInv
<1>0. MaxSeq \in Nat \ {0} /\ MaxPO \in Nat /\ MaxView \in Nat \ {0} /\ PreOrdered \in POSeqs
  BY OrderingBounds
<1>1. TypeOK
  <2>1. made_eligible \in [Correct -> [0 .. MaxSeq -> POSeqs \cup {Unpopulated}]]
    <3>1. 0 \in POSeqs
      BY <1>0 DEF POSeqs
    <3> QED
      BY <3>1 DEF Init
  <2>2. View \in [Correct -> Views]
    BY <1>0 DEF Init, Views
  <2>3. /\ seq \in [Correct -> 1 .. MaxSeq + 1]
        /\ ARU \in [Correct -> 0 .. MaxSeq]
        /\ ppARU \in [Correct -> 0 .. MaxSeq]
    BY <1>0 DEF Init
  <2>4. /\ pre_prepare \in [Correct -> [Seqs -> PrePrepare \cup {NoPP}]]
        /\ prepare_certificate \in [Correct -> [Seqs -> PrePrepare \cup {NoPP}]]
    BY DEF Init, EmptySlots
  <2>5. /\ prepare \in [Correct -> [Seqs -> [Servers -> PrePrepare \cup {NoPP}]]]
        /\ commit \in [Correct -> [Seqs -> [Servers -> PrePrepare \cup {NoPP}]]]
    BY DEF Init
  <2>6. /\ view_change_done \in [Correct -> BOOLEAN]
        /\ leader_suspected \in [Correct -> BOOLEAN]
        /\ execute_queued \in [Correct -> BOOLEAN]
    BY DEF Init
  <2>7. /\ ordered \in [Correct -> SUBSET Seqs]
        /\ Pending_Execution \in [Correct -> SUBSET Seqs]
        /\ missing \in [Correct -> [Seqs -> SUBSET POSeqs]]
        /\ cum_aru \in [Correct -> POSeqs]
        /\ report \in [Correct -> SUBSET Report]
        /\ msgs \subseteq Message
    BY <1>0 DEF Init
  <2> QED
    BY <2>1, <2>2, <2>3, <2>4, <2>5, <2>6, <2>7 DEF TypeOK
<1>2. SlotsConsistent
  BY DEF Init, SlotsConsistent, EmptySlots
<1>3. CommitsCertified /\ CommitsReported
  BY DEF Init, CommitsCertified, CommitsReported
<1>4. CountedCommits
  <2>1. \A r \in Correct, s \in Seqs, q \in Servers : commit[r][s][q] = NoPP
    BY DEF Init
  <2> QED
    BY <2>1 DEF CountedCommits
<1>5. OrderedBacked
  BY DEF Init, OrderedBacked
<1>6. ExecutedOrdered
  BY <1>0 DEF Init, ExecutedOrdered, Seqs
<1>7. LeaderPopulated
  <2>1. 0 # Unpopulated
    BY OrderingBounds DEF POSeqs
  <2> QED
    BY <1>0, <2>1 DEF Init, LeaderPopulated
<1> QED
  BY <1>1, <1>2, <1>3, <1>4, <1>5, <1>6, <1>7 DEF OrdInv

(* A new proposal changes made_eligible and the messages only.             *)
LEMMA SendPrePrepareStep ==
  ASSUME OrdInv, NEW r \in Correct, ORDER_Send_One_Pre_Prepare(r)
  PROVE  OrdInv'
<1> PICK a \in POSeqs :
      LET pp == [seq |-> seq[r], view |-> View[r],
                 last_executed |-> made_eligible[r][seq[r] - 1], proof_aru |-> a] IN
      /\ seq[r] <= MaxSeq
      /\ msgs' = msgs \cup {Pre_Prepare(r, pp)}
      /\ made_eligible' = [made_eligible EXCEPT ![r][seq[r]] =
                             IF @ = Unpopulated THEN Made_Eligible(pp) ELSE @]
      /\ seq' = [seq EXCEPT ![r] = @ + 1]
      /\ UNCHANGED <<viewVars, slotVars, poVars, ARU, ppARU, Pending_Execution, missing>>
  BY DEF ORDER_Send_One_Pre_Prepare
<1> DEFINE pp == [seq |-> seq[r], view |-> View[r],
                  last_executed |-> made_eligible[r][seq[r] - 1], proof_aru |-> a]
<1>0. MaxSeq \in Nat \ {0} /\ seq[r] \in Seqs /\ seq[r] - 1 \in 0 .. MaxSeq
  BY OrderingBounds DEF OrdInv, TypeOK, Seqs
<1>1. pp \in PrePrepare
  <2>1. made_eligible[r][seq[r] - 1] \in POSeqs
    BY <1>0 DEF OrdInv, TypeOK, LeaderPopulated
  <2> QED
    BY <1>0, <2>1 DEF OrdInv, TypeOK, PrePrepare
<1>2. Made_Eligible(pp) \in POSeqs
  BY <1>1, EligibleType
<1>3. /\ msgs' = msgs \cup {Pre_Prepare(r, pp)}
      /\ made_eligible' = [made_eligible EXCEPT ![r] = [made_eligible[r] EXCEPT ![seq[r]] =
           IF made_eligible[r][seq[r]] = Unpopulated
           THEN Made_Eligible(pp) ELSE made_eligible[r][seq[r]]]]
  <2>1. made_eligible \in [Correct -> [0 .. MaxSeq -> POSeqs \cup {Unpopulated}]]
    BY DEF OrdInv, TypeOK
  <2> QED
    BY <2>1
<1>4. Pre_Prepare(r, pp) \in Message /\ Pre_Prepare(r, pp).type # "COMMIT"
  BY <1>1, FaultModel DEF Pre_Prepare, Message, MessageType, Correct
<1> HIDE DEF pp
<1>5. msgs' \subseteq Message /\ CommitsCertified' /\ CommitsReported'
  BY <1>3, <1>4, CommitsStep DEF viewVars, slotVars
<1>6. CountedCommits'
  BY <1>3, CountedStep DEF slotVars
<1>7. OrderedBacked' /\ SlotsConsistent' /\ ExecutedOrdered'
  BY DEF OrdInv, OrderedBacked, SlotsConsistent, ExecutedOrdered, CommitVotes, slotVars
<1> DEFINE after == [made_eligible[r] EXCEPT ![seq[r]] =
           IF made_eligible[r][seq[r]] = Unpopulated
           THEN Made_Eligible(pp) ELSE made_eligible[r][seq[r]]]
<1>8. after \in [0 .. MaxSeq -> POSeqs \cup {Unpopulated}] /\ after[seq[r]] # Unpopulated
  <2>1. made_eligible[r] \in [0 .. MaxSeq -> POSeqs \cup {Unpopulated}]
    BY DEF OrdInv, TypeOK
  <2>2. seq[r] \in 0 .. MaxSeq
    BY <1>0 DEF Seqs
  <2> QED
    BY <2>1, <2>2, <1>2, OrderingBounds
<1>9. made_eligible' = [made_eligible EXCEPT ![r] = after]
  BY <1>3
<1> HIDE DEF after
<1>10. seq' \in [Correct -> 1 .. MaxSeq + 1] /\ seq'[r] - 1 = seq[r]
  BY <1>0 DEF OrdInv, TypeOK, Seqs
<1>11. LeaderPopulated'
  <2> SUFFICES ASSUME NEW q \in Correct
               PROVE  made_eligible'[q][seq'[q] - 1] # Unpopulated
    BY DEF LeaderPopulated
  <2>1. CASE q = r
    BY <2>1, <1>8, <1>9, <1>10 DEF OrdInv, TypeOK
  <2>2. CASE q # r
    BY <2>2, <1>9 DEF OrdInv, TypeOK, LeaderPopulated
  <2> QED
    BY <2>1, <2>2
<1>12. TypeOK'
  <2>1. made_eligible' \in [Correct -> [0 .. MaxSeq -> POSeqs \cup {Unpopulated}]]
    BY <1>8, <1>9 DEF OrdInv, TypeOK
  <2> QED
    BY <2>1, <1>5, <1>10 DEF OrdInv, TypeOK, viewVars, slotVars, poVars
<1> QED
  BY <1>5, <1>6, <1>7, <1>11, <1>12 DEF OrdInv

(* Storing a Pre-Prepare fills an empty slot; a certificate and a Commit   *)
(* may follow, and Prepares.                                               *)
LEMMA ProcessPrePrepareStep ==
  ASSUME OrdInv, NEW r \in Correct, NEW m \in Arriving("PRE_PREPARE", r),
         ORDER_Process_Pre_Prepare(r, m)
  PROVE  OrdInv'
<1> DEFINE pp == m.pp
           s == m.pp.seq
           pps == [pre_prepare[r] EXCEPT ![s] = pp]
           certified == Gets_Certificate(r, s, pp, prepare[r][s])
           sent == ORDER_Flood_Pre_Prepare(r, m) \cup
                   IF certified THEN Commit_After_Certificate(r, pp) ELSE {}
           certificate == [prepare_certificate[r] EXCEPT ![s] = IF certified THEN pp ELSE @]
<1>1. m \in Message /\ m.type = "PRE_PREPARE"
  BY ArrivingType DEF OrdInv, TypeOK, MessageType
<1>2. pp \in PrePrepare /\ s \in Seqs /\ pp.seq = s /\ pp # NoPP
  BY <1>1, OrderingBounds DEF Message, PrePrepare
<1>3. /\ pre_prepare[r][s] = NoPP
      /\ pre_prepare' = [pre_prepare EXCEPT ![r] = pps]
      /\ prepare_certificate' = [prepare_certificate EXCEPT ![r][s] =
                                   IF certified THEN pp ELSE @]
      /\ IF s = ppARU[r] + 1
         THEN ORDER_Send_Prepares(r, pps, made_eligible[r], sent)
         ELSE msgs' = msgs \cup sent /\ UNCHANGED <<ppARU, made_eligible>>
      /\ UNCHANGED <<viewVars, poVars, prepare, commit, ordered, seq, ARU,
                     Pending_Execution, missing>>
  BY DEF ORDER_Process_Pre_Prepare
<1>4. /\ pre_prepare[r] \in [Seqs -> PrePrepare \cup {NoPP}]
      /\ prepare_certificate[r] \in [Seqs -> PrePrepare \cup {NoPP}]
      /\ made_eligible[r] \in [0 .. MaxSeq -> POSeqs \cup {Unpopulated}]
      /\ prepare_certificate \in [Correct -> [Seqs -> PrePrepare \cup {NoPP}]]
      /\ pre_prepare \in [Correct -> [Seqs -> PrePrepare \cup {NoPP}]]
  BY DEF OrdInv, TypeOK
<1>5. prepare_certificate' = [prepare_certificate EXCEPT ![r] = certificate]
  BY <1>3, <1>4
<1>6. prepare_certificate[r][s] = NoPP
  BY <1>2, <1>3 DEF OrdInv, SlotsConsistent
<1>7. /\ pps \in [Seqs -> PrePrepare \cup {NoPP}]
      /\ pps[s] = pp
      /\ \A i \in Seqs \ {s} : pps[i] = pre_prepare[r][i]
  BY <1>2, <1>4
<1>8. /\ certificate \in [Seqs -> PrePrepare \cup {NoPP}]
      /\ certificate[s] \in {NoPP, pp}
      /\ certified => certificate[s] = pp
      /\ \A i \in Seqs \ {s} : certificate[i] = prepare_certificate[r][i]
  <2> HIDE DEF certified
  <2> QED
    BY <1>2, <1>4, <1>6
<1>9. \A x \in sent :
        /\ x \in Message
        /\ x.type = "COMMIT" => x = Commit(r, pp) /\ certified /\ view_change_done[r]
  <2>1. Commit(r, pp) \in Message
    BY <1>2, FaultModel DEF Commit, Message, MessageType, Correct
  <2> HIDE DEF certified
  <2> QED
    BY <1>1, <2>1 DEF ORDER_Flood_Pre_Prepare, Commit_After_Certificate
<1>10. Commit(r, pp).sender = r /\ Commit(r, pp).pp = pp
  BY DEF Commit
<1> HIDE DEF pps, certificate, certified, sent
<1>11. /\ ppARU' \in [Correct -> 0 .. MaxSeq]
       /\ made_eligible' \in [Correct -> [0 .. MaxSeq -> POSeqs \cup {Unpopulated}]]
       /\ \A q \in Correct, i \in 0 .. MaxSeq :
            made_eligible[q][i] # Unpopulated => made_eligible'[q][i] # Unpopulated
       /\ msgs \cup sent \subseteq msgs'
       /\ \A x \in msgs' : x \in msgs \cup sent \/ (x \in Message /\ x.type = "PREPARE")
  <2>1. CASE s = ppARU[r] + 1
    <3>1. ORDER_Send_Prepares(r, pps, made_eligible[r], sent)
      BY <2>1, <1>3
    <3>2. /\ ppARU' \in [Correct -> 0 .. MaxSeq]
          /\ made_eligible' \in [Correct -> [0 .. MaxSeq -> POSeqs \cup {Unpopulated}]]
          /\ \A q \in Correct \ {r} : made_eligible'[q] = made_eligible[q]
          /\ \A i \in 0 .. MaxSeq :
               made_eligible[r][i] # Unpopulated => made_eligible'[r][i] # Unpopulated
          /\ msgs \cup sent \subseteq msgs'
          /\ \A x \in msgs' : x \in msgs \cup sent \/ (x \in Message /\ x.type = "PREPARE")
      BY <3>1, <1>4, <1>7, SendPreparesEffect DEF OrdInv
    <3> QED
      BY <3>2
  <2>2. CASE s # ppARU[r] + 1
    BY <2>2, <1>3 DEF OrdInv, TypeOK
  <2> QED
    BY <2>1, <2>2
<1>12. prepare_certificate'[r] = certificate /\ pre_prepare'[r] = pps
  BY <1>3, <1>4, <1>5
<1>13. \A q \in Correct \ {r} : /\ prepare_certificate'[q] = prepare_certificate[q]
                                /\ pre_prepare'[q] = pre_prepare[q]
  BY <1>3, <1>4, <1>5
<1>14. \A q \in Correct, i \in Seqs :
         /\ prepare_certificate[q][i] # NoPP =>
              prepare_certificate'[q][i] = prepare_certificate[q][i]
         /\ pre_prepare[q][i] # NoPP => pre_prepare'[q][i] = pre_prepare[q][i]
  BY <1>3, <1>6, <1>7, <1>8, <1>12, <1>13
<1>15. msgs' \subseteq Message /\ CommitsCertified' /\ CommitsReported'
  <2>1. \A x \in msgs' \ msgs :
           /\ x \in Message
           /\ x.type = "COMMIT" =>
                /\ x.sender \in Correct
                /\ view_change_done[x.sender]
                /\ prepare_certificate'[x.sender][x.pp.seq] = x.pp
    BY <1>2, <1>8, <1>9, <1>10, <1>11, <1>12
  <2> QED
    BY <2>1, <1>3, <1>11, <1>14, CommitsStep DEF viewVars
<1>16. CountedCommits'
  BY <1>3, <1>11, CountedStep
<1>17. OrderedBacked'
  <2>1. commit' = commit /\ ordered' = ordered
    BY <1>3
  <2> QED
    BY <1>14, <2>1, BackedStep
<1>18. SlotsConsistent'
  <2> SUFFICES ASSUME NEW q \in Correct, NEW i \in Seqs
               PROVE  /\ pre_prepare'[q][i] # NoPP => pre_prepare'[q][i].seq = i
                      /\ prepare_certificate'[q][i] \in {NoPP, pre_prepare'[q][i]}
    BY DEF SlotsConsistent
  <2>1. CASE q = r /\ i = s
    BY <2>1, <1>2, <1>7, <1>8, <1>12
  <2>2. CASE ~(q = r /\ i = s)
    <3>1. /\ pre_prepare'[q][i] = pre_prepare[q][i]
          /\ prepare_certificate'[q][i] = prepare_certificate[q][i]
      BY <2>2, <1>7, <1>8, <1>12, <1>13
    <3> QED
      BY <3>1 DEF OrdInv, SlotsConsistent
  <2> QED
    BY <2>1, <2>2
<1>19. ExecutedOrdered'
  BY <1>3 DEF OrdInv, ExecutedOrdered
<1>20. LeaderPopulated'
  <2>1. \A q \in Correct : seq[q] - 1 \in 0 .. MaxSeq
    BY OrderingBounds DEF OrdInv, TypeOK
  <2> QED
    BY <2>1, <1>3, <1>11 DEF OrdInv, LeaderPopulated
<1>21. TypeOK'
  <2>1. pre_prepare' \in [Correct -> [Seqs -> PrePrepare \cup {NoPP}]]
    BY <1>3, <1>4, <1>7
  <2>2. prepare_certificate' \in [Correct -> [Seqs -> PrePrepare \cup {NoPP}]]
    BY <1>4, <1>5, <1>8
  <2> QED
    BY <2>1, <2>2, <1>3, <1>11, <1>15 DEF OrdInv, TypeOK, viewVars, poVars
<1> QED
  BY <1>15, <1>16, <1>17, <1>18, <1>19, <1>20, <1>21 DEF OrdInv

(* Suspecting the leader changes nothing that the invariant reads.         *)
LEMMA InconsistentPrePrepareStep ==
  ASSUME OrdInv, NEW r \in Correct, NEW m \in Arriving("PRE_PREPARE", r),
         Inconsistent_Pre_Prepare(r, m)
  PROVE  OrdInv'
<1>1. /\ leader_suspected' = [leader_suspected EXCEPT ![r] = TRUE]
      /\ UNCHANGED <<View, view_change_done, report, slotVars, execVars, poVars, seq, msgs>>
  BY DEF Inconsistent_Pre_Prepare
<1>2. TypeOK'
  BY <1>1 DEF OrdInv, TypeOK, slotVars, execVars, poVars
<1>3. SlotsConsistent' /\ OrderedBacked' /\ ExecutedOrdered' /\ LeaderPopulated'
  BY <1>1, SameSlots DEF execVars
<1>4. CommitsCertified' /\ CountedCommits' /\ CommitsReported'
  BY <1>1 DEF OrdInv, CommitsCertified, CountedCommits, CommitsReported, Commit, slotVars
<1> QED
  BY <1>2, <1>3, <1>4 DEF OrdInv

(* A Prepare may complete the certificate of a slot, and a Commit follows. *)
LEMMA ProcessPrepareStep ==
  ASSUME OrdInv, NEW r \in Correct, NEW m \in Arriving("PREPARE", r),
         ORDER_Process_Prepare(r, m)
  PROVE  OrdInv'
<1> DEFINE s == m.pp.seq
           votes == [prepare[r][s] EXCEPT ![m.sender] = m.pp]
           mine == pre_prepare[r][s]
           certified == Gets_Certificate(r, s, mine, votes)
           certificate == [prepare_certificate[r] EXCEPT ![s] = IF certified THEN mine ELSE @]
           sent == IF certified THEN Commit_After_Certificate(r, mine) ELSE {}
<1>1. m \in Message
  BY ArrivingType DEF OrdInv, TypeOK, MessageType
<1>2. m.pp \in PrePrepare /\ s \in Seqs /\ m.sender \in Servers
  BY <1>1 DEF Message, PrePrepare
<1>3. /\ prepare' = [prepare EXCEPT ![r][s] = votes]
      /\ prepare_certificate' = [prepare_certificate EXCEPT ![r][s] =
                                   IF certified THEN mine ELSE @]
      /\ msgs' = msgs \cup sent
      /\ UNCHANGED <<viewVars, execVars, poVars, pre_prepare, commit, ordered, seq>>
  BY DEF ORDER_Process_Prepare
<1>4. /\ prepare_certificate \in [Correct -> [Seqs -> PrePrepare \cup {NoPP}]]
      /\ prepare \in [Correct -> [Seqs -> [Servers -> PrePrepare \cup {NoPP}]]]
      /\ mine \in PrePrepare \cup {NoPP}
      /\ prepare_certificate[r][s] \in {NoPP, mine}
  BY <1>2 DEF OrdInv, TypeOK, SlotsConsistent
<1>5. votes \in [Servers -> PrePrepare \cup {NoPP}]
  BY <1>2, <1>4
<1>6. certified => prepare_certificate[r][s] = NoPP /\ mine # NoPP
  BY DEF Gets_Certificate, ORDER_Prepare_Certificate_Ready
<1>7. mine # NoPP => mine.seq = s
  BY <1>2 DEF OrdInv, SlotsConsistent
<1>8. prepare_certificate' = [prepare_certificate EXCEPT ![r] = certificate]
  <2> HIDE DEF certified, mine
  <2> QED
    BY <1>3, <1>4
<1> HIDE DEF votes, certified, mine
<1>9. /\ certificate \in [Seqs -> PrePrepare \cup {NoPP}]
      /\ certificate[s] \in {NoPP, mine}
      /\ certified => certificate[s] = mine
      /\ \A i \in Seqs : prepare_certificate[r][i] # NoPP =>
           certificate[i] = prepare_certificate[r][i]
      /\ \A i \in Seqs \ {s} : certificate[i] = prepare_certificate[r][i]
  BY <1>2, <1>4, <1>6
<1>10. \A x \in sent : /\ x = Commit(r, mine) /\ x \in Message
                       /\ certified /\ view_change_done[r]
  <2>1. certified => Commit(r, mine) \in Message
    BY <1>4, <1>6, FaultModel DEF Commit, Message, MessageType, Correct
  <2> QED
    BY <2>1 DEF Commit_After_Certificate
<1>11. Commit(r, mine).sender = r /\ Commit(r, mine).pp = mine
  BY DEF Commit
<1> HIDE DEF certificate, sent
<1>12. /\ prepare_certificate'[r] = certificate
       /\ \A q \in Correct \ {r} : prepare_certificate'[q] = prepare_certificate[q]
       /\ prepare_certificate' \in [Correct -> [Seqs -> PrePrepare \cup {NoPP}]]
  BY <1>4, <1>8, <1>9
<1>13. msgs' \subseteq Message /\ CommitsCertified' /\ CommitsReported'
  <2>1. \A x \in msgs' \ msgs :
           /\ x \in Message
           /\ x.type = "COMMIT" =>
                /\ x.sender \in Correct
                /\ view_change_done[x.sender]
                /\ prepare_certificate'[x.sender][x.pp.seq] = x.pp
    BY <1>3, <1>6, <1>7, <1>9, <1>10, <1>11, <1>12
  <2>2. \A q \in Correct, i \in Seqs :
          prepare_certificate[q][i] # NoPP =>
            prepare_certificate'[q][i] = prepare_certificate[q][i]
    BY <1>9, <1>12
  <2> QED
    BY <2>1, <2>2, <1>3, CommitsStep DEF viewVars
<1>14. CountedCommits'
  BY <1>3, CountedStep
<1>15. OrderedBacked' /\ ExecutedOrdered' /\ LeaderPopulated'
  BY <1>3 DEF OrdInv, OrderedBacked, CommitVotes, ExecutedOrdered, LeaderPopulated, execVars
<1>16. SlotsConsistent'
  <2> SUFFICES ASSUME NEW q \in Correct, NEW i \in Seqs
               PROVE  /\ pre_prepare[q][i] # NoPP => pre_prepare[q][i].seq = i
                      /\ prepare_certificate'[q][i] \in {NoPP, pre_prepare[q][i]}
    BY <1>3 DEF SlotsConsistent
  <2>1. CASE q = r /\ i = s
    BY <2>1, <1>9, <1>12 DEF mine, OrdInv, SlotsConsistent
  <2>2. CASE ~(q = r /\ i = s)
    BY <2>2, <1>9, <1>12 DEF OrdInv, SlotsConsistent
  <2> QED
    BY <2>1, <2>2
<1>17. TypeOK'
  <2>1. prepare' \in [Correct -> [Seqs -> [Servers -> PrePrepare \cup {NoPP}]]]
    BY <1>2, <1>3, <1>4, <1>5
  <2> QED
    BY <2>1, <1>3, <1>12, <1>13 DEF OrdInv, TypeOK, viewVars, execVars, poVars
<1> QED
  BY <1>13, <1>14, <1>15, <1>16, <1>17 DEF OrdInv

(* A Commit is counted; the slot may be ordered, and slots executed.       *)
LEMMA ProcessCommitStep ==
  ASSUME OrdInv, NEW r \in Correct, NEW m \in Arriving("COMMIT", r),
         ORDER_Process_Commit(r, m)
  PROVE  OrdInv'
<1> DEFINE s == m.pp.seq
           votes == [commit[r][s] EXCEPT ![m.sender] = m.pp]
           me == Populate(pre_prepare[r], made_eligible[r], {s})
<1>1. m \in Message /\ m.type = "COMMIT" /\ (m.sender \notin Byzantine => m \in msgs)
  BY ArrivingType DEF OrdInv, TypeOK, MessageType
<1>2. m.pp \in PrePrepare /\ s \in Seqs /\ m.sender \in Servers
  BY <1>1 DEF Message, PrePrepare
<1>3. /\ commit[r][s][m.sender] = NoPP
      /\ commit' = [commit EXCEPT ![r][s] = votes]
      /\ UNCHANGED <<viewVars, poVars, pre_prepare, prepare, prepare_certificate, seq>>
  BY DEF ORDER_Process_Commit
<1>4. \/ /\ ORDER_Commit_Certificate_Ready(pre_prepare[r][s], votes)
         /\ ordered' = [ordered EXCEPT ![r] = @ \cup {s}]
         /\ ORDER_Execute_Commit(r, s, me)
      \/ UNCHANGED <<ordered, execVars, msgs>>
  BY DEF ORDER_Process_Commit
<1>5. /\ commit \in [Correct -> [Seqs -> [Servers -> PrePrepare \cup {NoPP}]]]
      /\ pre_prepare[r] \in [Seqs -> PrePrepare \cup {NoPP}]
      /\ made_eligible[r] \in [0 .. MaxSeq -> POSeqs \cup {Unpopulated}]
  BY DEF OrdInv, TypeOK
<1>6. /\ votes \in [Servers -> PrePrepare \cup {NoPP}]
      /\ votes[m.sender] = m.pp
      /\ \A q \in Servers \ {m.sender} : votes[q] = commit[r][s][q]
  BY <1>2, <1>5
<1> HIDE DEF votes
<1>7. /\ commit' \in [Correct -> [Seqs -> [Servers -> PrePrepare \cup {NoPP}]]]
      /\ commit'[r][s] = votes
      /\ \A q \in Correct, i \in Seqs : ~(q = r /\ i = s) => commit'[q][i] = commit[q][i]
  BY <1>2, <1>3, <1>5, <1>6
<1>8. m.sender \notin Byzantine => Commit(m.sender, m.pp) \in msgs
  <2>1. Commit(m.sender, m.pp) = m
    BY <1>1 DEF Commit, Message
  <2> QED
    BY <1>1, <2>1
<1>9. /\ ARU' \in [Correct -> 0 .. MaxSeq]
      /\ ppARU' \in [Correct -> 0 .. MaxSeq]
      /\ ordered' \in [Correct -> SUBSET Seqs]
      /\ Pending_Execution' \in [Correct -> SUBSET Seqs]
      /\ missing' \in [Correct -> [Seqs -> SUBSET POSeqs]]
      /\ made_eligible' \in [Correct -> [0 .. MaxSeq -> POSeqs \cup {Unpopulated}]]
      /\ \A q \in Correct, i \in 0 .. MaxSeq :
           made_eligible[q][i] # Unpopulated => made_eligible'[q][i] # Unpopulated
      /\ msgs \subseteq msgs'
      /\ \A x \in msgs' : x \in msgs \/ (x \in Message /\ x.type = "PREPARE")
      /\ ExecutedOrdered'
      /\ \A q \in Correct, i \in Seqs :
           i \in ordered'[q] =>
             \/ i \in ordered[q]
             \/ q = r /\ i = s /\ ORDER_Commit_Certificate_Ready(pre_prepare[r][s], votes)
  <2>1. CASE /\ ORDER_Commit_Certificate_Ready(pre_prepare[r][s], votes)
             /\ ordered' = [ordered EXCEPT ![r] = @ \cup {s}]
             /\ ORDER_Execute_Commit(r, s, me)
    <3>1. pre_prepare[r][s] # NoPP
      BY <2>1 DEF ORDER_Commit_Certificate_Ready
    <3>2. /\ me \in [0 .. MaxSeq -> POSeqs \cup {Unpopulated}]
          /\ \A i \in 0 .. MaxSeq : made_eligible[r][i] # Unpopulated => me[i] # Unpopulated
      BY <1>2, <1>5, <3>1, PopulateType
    <3>3. \A i \in Pending_Execution[r] \cup {s} : pre_prepare[r][i] # NoPP
      BY <3>1 DEF OrdInv, TypeOK, ExecutedOrdered, OrderedBacked
    <3> HIDE DEF me
    <3>4. /\ ARU' \in [Correct -> 0 .. MaxSeq]
          /\ ppARU' \in [Correct -> 0 .. MaxSeq]
          /\ Pending_Execution' \in [Correct -> SUBSET Seqs]
          /\ missing' \in [Correct -> [Seqs -> SUBSET POSeqs]]
          /\ made_eligible' \in [Correct -> [0 .. MaxSeq -> POSeqs \cup {Unpopulated}]]
          /\ \A q \in Correct \ {r} : made_eligible'[q] = made_eligible[q]
          /\ \A i \in 0 .. MaxSeq : me[i] # Unpopulated => made_eligible'[r][i] # Unpopulated
          /\ \A q \in Correct, i \in Seqs :
               i <= ARU'[q] \/ i \in Pending_Execution'[q] =>
                 i <= ARU[q] \/ i \in Pending_Execution[q] \/ (q = r /\ i = s)
          /\ msgs \subseteq msgs'
          /\ \A x \in msgs' : x \in msgs \/ (x \in Message /\ x.type = "PREPARE")
      BY <1>2, <2>1, <3>2, <3>3, ExecuteCommitEffect DEF OrdInv
    <3>5. /\ ordered' \in [Correct -> SUBSET Seqs]
          /\ \A q \in Correct : ordered'[q] = IF q = r THEN ordered[q] \cup {s} ELSE ordered[q]
      BY <1>2, <2>1 DEF OrdInv, TypeOK
    <3>6. ExecutedOrdered'
      BY <3>4, <3>5 DEF OrdInv, ExecutedOrdered
    <3>7. \A q \in Correct, i \in 0 .. MaxSeq :
            made_eligible[q][i] # Unpopulated => made_eligible'[q][i] # Unpopulated
      BY <3>2, <3>4
    <3> QED
      BY <2>1, <3>4, <3>5, <3>6, <3>7
  <2>2. CASE UNCHANGED <<ordered, execVars, msgs>>
    BY <2>2 DEF OrdInv, TypeOK, execVars, ExecutedOrdered
  <2> QED
    BY <1>4, <2>1, <2>2
<1>10. msgs' \subseteq Message /\ CommitsCertified' /\ CommitsReported'
  BY <1>3, <1>9, CommitsStep DEF viewVars
<1>11. CountedCommits'
  <2>1. \A p \in Correct, i \in Seqs, q \in Servers \ Byzantine :
           \/ commit'[p][i][q] = commit[p][i][q]
           \/ Commit(q, commit'[p][i][q]) \in msgs /\ commit'[p][i][q].seq = i
    BY <1>6, <1>7, <1>8
  <2> QED
    BY <2>1, <1>9, CountedStep
<1>12. OrderedBacked'
  <2>1. \A p \in Correct, i \in Seqs, q \in Servers :
          commit[p][i][q] # NoPP => commit'[p][i][q] = commit[p][i][q]
    BY <1>3, <1>6, <1>7
  <2>2. ORDER_Commit_Certificate_Ready(pre_prepare[r][s], votes) =>
          pre_prepare'[r][s] # NoPP /\ Cardinality(CommitVotes(r, s)') >= Quorum
    <3>1. CommitVotes(r, s)' = {q \in Servers : votes[q] = pre_prepare[r][s]}
      BY <1>3, <1>7 DEF CommitVotes
    <3> QED
      BY <3>1, <1>3 DEF ORDER_Commit_Certificate_Ready
  <2>3. \A q \in Correct, i \in Seqs :
          i \in ordered'[q] =>
            \/ i \in ordered[q]
            \/ pre_prepare'[q][i] # NoPP /\ Cardinality(CommitVotes(q, i)') >= Quorum
    BY <1>9, <2>2
  <2> QED
    BY <1>3, <2>1, <2>3, BackedStep
<1>13. SlotsConsistent'
  BY <1>3 DEF OrdInv, SlotsConsistent
<1>14. LeaderPopulated'
  <2>1. \A q \in Correct : seq[q] - 1 \in 0 .. MaxSeq
    BY OrderingBounds DEF OrdInv, TypeOK
  <2> QED
    BY <2>1, <1>3, <1>9 DEF OrdInv, LeaderPopulated
<1>15. TypeOK'
  BY <1>3, <1>7, <1>9, <1>10 DEF OrdInv, TypeOK, viewVars, poVars
<1> QED
  BY <1>9, <1>10, <1>11, <1>12, <1>13, <1>14, <1>15 DEF OrdInv

(* New PO-Requests touch only what the slots wait for.                     *)
LEMMA UpdateCumARUStep ==
  ASSUME OrdInv, NEW r \in Correct, PRE_ORDER_Update_Cum_ARU(r)
  PROVE  OrdInv'
<1> PICK c \in POSeqs :
      /\ cum_aru' = [cum_aru EXCEPT ![r] = c]
      /\ missing' = [missing EXCEPT ![r] = [s \in Seqs |-> Still_Missing(r, c, s)]]
      /\ execute_queued' = [execute_queued EXCEPT ![r] = @ \/ Hole_Filled(r, c)]
      /\ UNCHANGED <<viewVars, slotVars, seq, ARU, ppARU, made_eligible,
                     Pending_Execution, msgs>>
  BY DEF PRE_ORDER_Update_Cum_ARU
<1>1. missing' \in [Correct -> [Seqs -> SUBSET POSeqs]]
  <2>1. \A s \in Seqs : Still_Missing(r, c, s) \in SUBSET POSeqs
    BY DEF Still_Missing, OrdInv, TypeOK
  <2> QED
    BY <2>1 DEF OrdInv, TypeOK
<1>2. cum_aru' \in [Correct -> POSeqs]
  BY DEF OrdInv, TypeOK
<1>3. execute_queued' \in [Correct -> BOOLEAN]
  <2>1. Hole_Filled(r, c) \in BOOLEAN /\ execute_queued[r] \in BOOLEAN
    BY DEF Hole_Filled, OrdInv, TypeOK
  <2> QED
    BY <2>1, Zenon DEF OrdInv, TypeOK
<1>4. TypeOK'
  BY <1>1, <1>2, <1>3 DEF OrdInv, TypeOK, viewVars, slotVars
<1>5. SlotsConsistent' /\ OrderedBacked' /\ ExecutedOrdered' /\ LeaderPopulated'
  BY SameSlots
<1>6. CommitsCertified' /\ CountedCommits' /\ CommitsReported'
  BY DEF OrdInv, CommitsCertified, CountedCommits, CommitsReported, Commit, slotVars, viewVars
<1> QED
  BY <1>4, <1>5, <1>6 DEF OrdInv

(* Trying again executes only what was waiting.                            *)
LEMMA AttemptToExecuteStep ==
  ASSUME OrdInv, NEW r \in Correct, ORDER_Attempt_To_Execute_Pending_Commits(r)
  PROVE  OrdInv'
<1> DEFINE s == ARU[r] + 1
<1>1. /\ execute_queued' = [execute_queued EXCEPT ![r] = FALSE]
      /\ IF s \in Pending_Execution[r]
         THEN ORDER_Execute_Commit(r, s, made_eligible[r])
         ELSE UNCHANGED <<execVars, msgs>>
      /\ UNCHANGED <<viewVars, slotVars, cum_aru, seq>>
  BY DEF ORDER_Attempt_To_Execute_Pending_Commits
<1>2. /\ ARU' \in [Correct -> 0 .. MaxSeq]
      /\ ppARU' \in [Correct -> 0 .. MaxSeq]
      /\ Pending_Execution' \in [Correct -> SUBSET Seqs]
      /\ missing' \in [Correct -> [Seqs -> SUBSET POSeqs]]
      /\ made_eligible' \in [Correct -> [0 .. MaxSeq -> POSeqs \cup {Unpopulated}]]
      /\ \A q \in Correct, i \in 0 .. MaxSeq :
           made_eligible[q][i] # Unpopulated => made_eligible'[q][i] # Unpopulated
      /\ \A q \in Correct, i \in Seqs :
           i <= ARU'[q] \/ i \in Pending_Execution'[q] =>
             i <= ARU[q] \/ i \in Pending_Execution[q]
      /\ msgs \subseteq msgs'
      /\ \A x \in msgs' : x \in msgs \/ (x \in Message /\ x.type = "PREPARE")
  <2>1. CASE s \in Pending_Execution[r]
    <3>1. /\ s \in Seqs
          /\ made_eligible[r] \in [0 .. MaxSeq -> POSeqs \cup {Unpopulated}]
      BY <2>1 DEF OrdInv, TypeOK
    <3>2. \A i \in Pending_Execution[r] \cup {s} : pre_prepare[r][i] # NoPP
      BY <2>1 DEF OrdInv, TypeOK, ExecutedOrdered, OrderedBacked
    <3>3. ORDER_Execute_Commit(r, s, made_eligible[r])
      BY <1>1, <2>1
    <3> HIDE DEF s
    <3>4. /\ ARU' \in [Correct -> 0 .. MaxSeq]
          /\ ppARU' \in [Correct -> 0 .. MaxSeq]
          /\ Pending_Execution' \in [Correct -> SUBSET Seqs]
          /\ missing' \in [Correct -> [Seqs -> SUBSET POSeqs]]
          /\ made_eligible' \in [Correct -> [0 .. MaxSeq -> POSeqs \cup {Unpopulated}]]
          /\ \A q \in Correct \ {r} : made_eligible'[q] = made_eligible[q]
          /\ \A i \in 0 .. MaxSeq :
               made_eligible[r][i] # Unpopulated => made_eligible'[r][i] # Unpopulated
          /\ \A q \in Correct, i \in Seqs :
               i <= ARU'[q] \/ i \in Pending_Execution'[q] =>
                 i <= ARU[q] \/ i \in Pending_Execution[q] \/ (q = r /\ i = s)
          /\ msgs \subseteq msgs'
          /\ \A x \in msgs' : x \in msgs \/ (x \in Message /\ x.type = "PREPARE")
      BY <3>1, <3>2, <3>3, ExecuteCommitEffect DEF OrdInv
    <3> QED
      BY <2>1, <3>4
  <2>2. CASE s \notin Pending_Execution[r]
    BY <1>1, <2>2 DEF OrdInv, TypeOK, execVars
  <2> QED
    BY <2>1, <2>2
<1> HIDE DEF s
<1>3. msgs' \subseteq Message /\ CommitsCertified' /\ CommitsReported'
  BY <1>1, <1>2, CommitsStep DEF viewVars, slotVars
<1>4. CountedCommits'
  BY <1>1, <1>2, CountedStep DEF slotVars
<1>5. SlotsConsistent' /\ OrderedBacked'
  BY <1>1 DEF OrdInv, SlotsConsistent, OrderedBacked, CommitVotes, slotVars
<1>6. ExecutedOrdered'
  BY <1>1, <1>2 DEF OrdInv, ExecutedOrdered, slotVars
<1>7. LeaderPopulated'
  <2>1. \A q \in Correct : seq[q] - 1 \in 0 .. MaxSeq
    BY OrderingBounds DEF OrdInv, TypeOK
  <2> QED
    BY <2>1, <1>1, <1>2 DEF OrdInv, LeaderPopulated
<1>8. TypeOK'
  BY <1>1, <1>2, <1>3 DEF OrdInv, TypeOK, viewVars, slotVars
<1> QED
  BY <1>3, <1>4, <1>5, <1>6, <1>7, <1>8 DEF OrdInv

(* Leaving the view: the new report covers all Commits sent so far.        *)
LEMMA StartViewChangeStep ==
  ASSUME OrdInv, NEW r \in Correct, VIEW_Start_View_Change(r)
  PROVE  OrdInv'
<1> DEFINE certs == {prepare_certificate[r][s] : s \in ARU[r] + 1 .. MaxSeq} \ {NoPP}
<1> PICK v \in Views :
      /\ View' = [View EXCEPT ![r] = v]
      /\ view_change_done' = [view_change_done EXCEPT ![r] = FALSE]
      /\ leader_suspected' = [leader_suspected EXCEPT ![r] = FALSE]
      /\ report' = [report EXCEPT ![r] = @ \cup
                      {[view |-> v, execARU |-> ARU[r], pc_set |-> certs]}]
      /\ UNCHANGED <<slotVars, execVars, poVars, seq, msgs>>
  BY DEF VIEW_Start_View_Change
<1> DEFINE new == [view |-> v, execARU |-> ARU[r], pc_set |-> certs]
<1>1. ARU[r] \in 0 .. MaxSeq /\ MaxSeq \in Nat
  BY OrderingBounds DEF OrdInv, TypeOK
<1>2. certs \in SUBSET PrePrepare
  <2>1. \A s \in ARU[r] + 1 .. MaxSeq : s \in Seqs
    BY <1>1 DEF Seqs
  <2> QED
    BY <2>1 DEF OrdInv, TypeOK
<1>3. \A s \in Seqs : s > ARU[r] /\ prepare_certificate[r][s] # NoPP =>
                        prepare_certificate[r][s] \in certs
  BY <1>1 DEF Seqs
<1> HIDE DEF certs
<1>4. new \in Report /\ new.execARU = ARU[r] /\ new.pc_set = certs
  BY <1>1, <1>2 DEF Report
<1>5. report' = [report EXCEPT ![r] = @ \cup {new}]
  OBVIOUS
<1> HIDE DEF new
<1>6. /\ report' \in [Correct -> SUBSET Report]
      /\ report'[r] = report[r] \cup {new}
      /\ \A q \in Correct \ {r} : report'[q] = report[q]
  BY <1>4, <1>5 DEF OrdInv, TypeOK
<1>7. TypeOK'
  BY <1>6 DEF OrdInv, TypeOK, slotVars, execVars, poVars
<1>8. SlotsConsistent' /\ OrderedBacked' /\ ExecutedOrdered' /\ LeaderPopulated'
  BY SameSlots DEF execVars
<1>9. CommitsCertified' /\ CountedCommits'
  BY DEF OrdInv, CommitsCertified, CountedCommits, Commit, slotVars
<1>10. CommitsReported'
  <2>1. \A q \in Correct : view_change_done'[q] => report'[q] = {}
    BY <1>6 DEF OrdInv, TypeOK, CommitsReported
  <2>2. ASSUME NEW m \in msgs, m.type = "COMMIT", NEW rep \in report'[m.sender]
        PROVE  rep.execARU >= m.pp.seq \/ m.pp \in rep.pc_set
    <3>1. m.sender \in Correct /\ prepare_certificate[m.sender][m.pp.seq] = m.pp
      BY <2>2 DEF OrdInv, CommitsCertified
    <3>2. m.pp \in PrePrepare /\ m.pp.seq \in Seqs /\ m.pp # NoPP
      BY OrderingBounds DEF OrdInv, TypeOK, Message, PrePrepare
    <3>3. CASE rep \in report[m.sender]
      BY <2>2, <3>3 DEF OrdInv, CommitsReported
    <3>4. CASE rep \notin report[m.sender]
      <4>1. m.sender = r /\ rep = new
        BY <2>2, <3>1, <3>4, <1>6
      <4>2. ARU[r] >= m.pp.seq \/ m.pp.seq > ARU[r]
        BY <3>2, <1>1 DEF Seqs
      <4> QED
        BY <3>1, <3>2, <4>1, <4>2, <1>3, <1>4
    <3> QED
      BY <3>3, <3>4
  <2> QED
    BY <2>1, <2>2 DEF CommitsReported
<1> QED
  BY <1>7, <1>8, <1>9, <1>10 DEF OrdInv

-----------------------------------------------------------------------------
(* The invariant is preserved by every step.                               *)
LEMMA OrdStep ==
  ASSUME OrdInv, [Next]_vars
  PROVE  OrdInv'
<1>1. CASE Next
  BY <1>1, SendPrePrepareStep, ProcessPrePrepareStep, InconsistentPrePrepareStep,
     ProcessPrepareStep, ProcessCommitStep, UpdateCumARUStep, AttemptToExecuteStep,
     StartViewChangeStep DEF Next, Step
<1>2. CASE UNCHANGED vars
  <2>1. TypeOK'
    BY <1>2 DEF OrdInv, TypeOK, vars, viewVars, slotVars, execVars, poVars
  <2>2. SlotsConsistent' /\ OrderedBacked' /\ ExecutedOrdered' /\ LeaderPopulated'
    BY <1>2, SameSlots DEF vars, execVars
  <2>3. CommitsCertified' /\ CountedCommits' /\ CommitsReported'
    BY <1>2 DEF OrdInv, CommitsCertified, CountedCommits, CommitsReported, Commit,
       vars, viewVars, slotVars
  <2> QED
    BY <2>1, <2>2, <2>3 DEF OrdInv
<1> QED
  BY <1>1, <1>2

(* The inductive invariant of the ordering protocol.                       *)
THEOREM OrdInvariant == Spec => []OrdInv
BY OrdInit, OrdStep, PTL DEF Spec

(* Every variable of order.c's state keeps its type; in particular no      *)
(* certificate holds a Pre-Prepare that is not there.                      *)
THEOREM OrdTypeOK == Spec => []TypeOK
<1>1. OrdInv => TypeOK
  BY DEF OrdInv
<1> QED
  BY <1>1, OrdInvariant, PTL

(* A slot that is executed was committed by a quorum: any other quorum     *)
(* shares with it a correct replica that has the certificate for it.       *)
LEMMA ExecutedCertified ==
  ASSUME OrdInv, NEW r \in Correct, NEW s \in Seqs, s <= ARU[r],
         NEW Q \in SUBSET Servers, Cardinality(Q) >= Quorum
  PROVE  \E q \in Q \cap Correct :
           /\ q \in CommitVotes(r, s)
           /\ prepare_certificate[q][s] = pre_prepare[r][s]
           /\ Commit(q, pre_prepare[r][s]) \in msgs
           /\ pre_prepare[r][s].seq = s
<1>1. pre_prepare[r][s] # NoPP /\ Cardinality(CommitVotes(r, s)) >= Quorum
  BY DEF OrdInv, ExecutedOrdered, OrderedBacked
<1>2. CommitVotes(r, s) \in SUBSET Servers
  BY DEF CommitVotes
<1> PICK q \in Q \cap CommitVotes(r, s) : q \notin Byzantine
  BY <1>1, <1>2, QuorumsMeet
<1>3. commit[r][s][q] = pre_prepare[r][s] /\ q \in Servers \ Byzantine
  BY <1>2 DEF CommitVotes
<1>4. Commit(q, pre_prepare[r][s]) \in msgs /\ pre_prepare[r][s].seq = s
  BY <1>1, <1>3 DEF OrdInv, CountedCommits
<1>5. /\ Commit(q, pre_prepare[r][s]).type = "COMMIT"
      /\ Commit(q, pre_prepare[r][s]).sender = q
      /\ Commit(q, pre_prepare[r][s]).pp = pre_prepare[r][s]
  BY DEF Commit
<1>6. q \in Correct /\ prepare_certificate[q][s] = pre_prepare[r][s]
  BY <1>4, <1>5 DEF OrdInv, CommitsCertified
<1> QED
  BY <1>4, <1>6

(* Replicas execute the same, as two commit certificates share a correct   *)
(* replica, which has committed one thing per slot.                        *)
LEMMA ExecutedAgree == OrdInv => OrderAgreement
<1> SUFFICES ASSUME OrdInv, NEW r \in Correct, NEW p \in Correct, NEW s \in Seqs,
                    s <= ARU[r], s <= ARU[p]
             PROVE  pre_prepare[r][s] = pre_prepare[p][s]
  BY DEF OrderAgreement
<1>1. Cardinality(CommitVotes(r, s)) >= Quorum /\ CommitVotes(r, s) \in SUBSET Servers
  BY DEF OrdInv, ExecutedOrdered, OrderedBacked, CommitVotes
<1>2. pre_prepare[r][s] # NoPP
  BY DEF OrdInv, ExecutedOrdered, OrderedBacked
<1> PICK q \in CommitVotes(r, s) \cap Correct :
      prepare_certificate[q][s] = pre_prepare[p][s]
  BY <1>1, ExecutedCertified
<1>3. commit[r][s][q] = pre_prepare[r][s] /\ q \in Servers \ Byzantine
  BY DEF CommitVotes, Correct
<1>4. Commit(q, pre_prepare[r][s]) \in msgs /\ pre_prepare[r][s].seq = s
  BY <1>2, <1>3 DEF OrdInv, CountedCommits
<1>5. prepare_certificate[q][s] = pre_prepare[r][s]
  BY <1>4 DEF OrdInv, CommitsCertified, Commit
<1> QED
  BY <1>5

(* Agreement of ORDER_Execute_Commit, for every number of replicas, views, *)
(* sequence numbers and requests.                                          *)
THEOREM OrdAgreement == Spec => []OrderAgreement
BY ExecutedAgree, OrdInvariant, PTL

(* What is executed is found again by every view change: in any quorum of  *)
(* reports for a later view there is one that covers it.                   *)
THEOREM OrdCommittedIsReported == Spec => []CommittedIsReported
<1>1. OrdInv => CommittedIsReported
  <2> SUFFICES ASSUME OrdInv, NEW r \in Correct, NEW s \in Seqs, NEW v \in Views,
                      s <= ARU[r],
                      NEW Q \in SUBSET {q \in Servers : q \in Correct =>
                                          \E rep \in report[q] : rep.view = v},
                      Cardinality(Q) >= Quorum
               PROVE  \E q \in Q \cap Correct : \E rep \in report[q] :
                        /\ rep.view = v
                        /\ rep.execARU >= s \/ pre_prepare[r][s] \in rep.pc_set
    BY DEF CommittedIsReported
  <2> PICK q \in Q \cap Correct :
        Commit(q, pre_prepare[r][s]) \in msgs /\ pre_prepare[r][s].seq = s
    BY ExecutedCertified
  <2> PICK rep \in report[q] : rep.view = v
    OBVIOUS
  <2>1. /\ Commit(q, pre_prepare[r][s]).type = "COMMIT"
        /\ Commit(q, pre_prepare[r][s]).sender = q
        /\ Commit(q, pre_prepare[r][s]).pp = pre_prepare[r][s]
    BY DEF Commit
  <2>2. rep.execARU >= s \/ pre_prepare[r][s] \in rep.pc_set
    BY <2>1 DEF OrdInv, CommitsReported
  <2> QED
    BY <2>2
<1> QED
  BY <1>1, OrdInvariant, PTL

-----------------------------------------------------------------------------
(* A step executes at one replica at most, and leaves every Pre-Prepare     *)
(* that is in its slot.                                                     *)
LEMMA StepExecutes ==
  ASSUME OrdInv, NEW r \in Correct, Step(r)
  PROVE  /\ \E n \in ARU[r] .. MaxSeq : ARU' = [ARU EXCEPT ![r] = n]
         /\ \A q \in Correct, s \in Seqs :
              pre_prepare[q][s] # NoPP => pre_prepare'[q][s] = pre_prepare[q][s]
<1> DEFINE Executes == \E n \in ARU[r] .. MaxSeq : ARU' = [ARU EXCEPT ![r] = n]
<1>1. /\ ARU \in [Correct -> 0 .. MaxSeq] /\ MaxSeq \in Nat
      /\ pre_prepare \in [Correct -> [Seqs -> PrePrepare \cup {NoPP}]]
  BY OrderingBounds DEF OrdInv, TypeOK
<1>2. ARU' = ARU => Executes
  <2>1. ARU[r] \in ARU[r] .. MaxSeq /\ ARU = [ARU EXCEPT ![r] = ARU[r]]
    BY <1>1
  <2> QED
    BY <2>1
<1>3. ASSUME NEW s, NEW me, ORDER_Execute_Commit(r, s, me) PROVE Executes
  BY <1>2, <1>3 DEF ORDER_Execute_Commit
<1>4. CASE \E m \in Arriving("PRE_PREPARE", r) : ORDER_Process_Pre_Prepare(r, m)
  <2> PICK m \in Arriving("PRE_PREPARE", r) : ORDER_Process_Pre_Prepare(r, m)
    BY <1>4
  <2>1. /\ pre_prepare[r][m.pp.seq] = NoPP
        /\ pre_prepare' = [pre_prepare EXCEPT ![r] = [pre_prepare[r] EXCEPT ![m.pp.seq] = m.pp]]
        /\ ARU' = ARU
    BY DEF ORDER_Process_Pre_Prepare
  <2> QED
    BY <1>1, <1>2, <2>1
<1>5. CASE \E m \in Arriving("COMMIT", r) : ORDER_Process_Commit(r, m)
  BY <1>2, <1>3, <1>5 DEF ORDER_Process_Commit, execVars
<1>6. CASE ORDER_Attempt_To_Execute_Pending_Commits(r)
  BY <1>2, <1>3, <1>6 DEF ORDER_Attempt_To_Execute_Pending_Commits, execVars, slotVars
<1>7. CASE \/ ORDER_Send_One_Pre_Prepare(r)
           \/ \E m \in Arriving("PRE_PREPARE", r) : Inconsistent_Pre_Prepare(r, m)
           \/ \E m \in Arriving("PREPARE", r) : ORDER_Process_Prepare(r, m)
           \/ PRE_ORDER_Update_Cum_ARU(r)
           \/ VIEW_Start_View_Change(r)
  <2>1. ARU' = ARU /\ pre_prepare' = pre_prepare
    BY <1>7 DEF ORDER_Send_One_Pre_Prepare, Inconsistent_Pre_Prepare, ORDER_Process_Prepare,
       PRE_ORDER_Update_Cum_ARU, VIEW_Start_View_Change, slotVars, execVars
  <2> QED
    BY <1>2, <2>1
<1> QED
  BY <1>4, <1>5, <1>6, <1>7 DEF Step

(* The log has what any replica has executed, and nothing else.             *)
LogFacts ==
  \A s \in Seqs :
    /\ Executed_Log[s] \in PrePrepare \cup {NoPP}
    /\ \A r \in Correct : s <= ARU[r] =>
         Executed_Log[s] = pre_prepare[r][s] /\ Executed_Log[s] # NoPP
    /\ (\A r \in Correct : ~(s <= ARU[r])) => Executed_Log[s] = NoPP

(* By agreement, whoever is asked for an executed slot answers the same.    *)
LEMMA LogHolds == OrdInv => LogFacts
<1> SUFFICES ASSUME OrdInv, NEW s \in Seqs
             PROVE  /\ Executed_Log[s] \in PrePrepare \cup {NoPP}
                    /\ \A r \in Correct : s <= ARU[r] =>
                         Executed_Log[s] = pre_prepare[r][s] /\ Executed_Log[s] # NoPP
                    /\ (\A r \in Correct : ~(s <= ARU[r])) => Executed_Log[s] = NoPP
  BY DEF LogFacts
<1> DEFINE at == Executed_At(s)
<1>1. Executed_Log[s] = IF at = {} THEN NoPP ELSE CHOOSE pp \in at : TRUE
  BY DEF Executed_Log
<1>2. CASE \A r \in Correct : ~(s <= ARU[r])
  <2>1. at = {}
    BY <1>2 DEF Executed_At
  <2> QED
    BY <1>1, <1>2, <2>1
<1>3. CASE \E r \in Correct : s <= ARU[r]
  <2>1. at # {}
    BY <1>3 DEF Executed_At
  <2>2. Executed_Log[s] \in at
    BY <1>1, <2>1
  <2>3. PICK q \in Correct : s <= ARU[q] /\ Executed_Log[s] = pre_prepare[q][s]
    BY <2>2 DEF Executed_At
  <2>4. \A r \in Correct : s <= ARU[r] => pre_prepare[r][s] = pre_prepare[q][s]
    BY <2>3, ExecutedAgree DEF OrderAgreement
  <2>5. pre_prepare[q][s] # NoPP /\ pre_prepare[q][s] \in PrePrepare \cup {NoPP}
    BY <2>3 DEF OrdInv, ExecutedOrdered, OrderedBacked, TypeOK
  <2> QED
    BY <1>3, <2>3, <2>4, <2>5
<1> QED
  BY <1>2, <1>3

(* In the initial state nothing is decided.                                 *)
LEMMA LogStarts ==
  ASSUME Init, LogFacts
  PROVE  Log!LogInit
<1>1. \A s \in Seqs : Executed_Log[s] = NoPP
  <2>1. \A s \in Seqs, r \in Correct : ~(s <= ARU[r])
    BY OrderingBounds DEF Init, Seqs
  <2> QED
    BY <2>1 DEF LogFacts
<1>2. Executed_Log = [s \in 1 .. MaxSeq |-> NoPP]
  BY <1>1 DEF Executed_Log, Seqs
<1> QED
  BY <1>2 DEF Log!LogInit, Init

(* A step of a replica that executes is a step of the log; any other        *)
(* changes neither the log nor how far it was executed.                     *)
LEMMA LogStep ==
  ASSUME OrdInv, LogFacts, LogFacts', [Next]_vars
  PROVE  [Log!LogNext]_<<Executed_Log, ARU>>
<1>1. CASE UNCHANGED vars
  BY <1>1 DEF vars, slotVars, execVars, Executed_Log, Executed_At
<1>2. CASE Next
  <2> PICK r \in Correct : Step(r)
    BY <1>2 DEF Next
  <2>1. PICK n \in ARU[r] .. MaxSeq : ARU' = [ARU EXCEPT ![r] = n]
    BY StepExecutes
  <2>2. \A q \in Correct, s \in Seqs :
          pre_prepare[q][s] # NoPP => pre_prepare'[q][s] = pre_prepare[q][s]
    BY StepExecutes
  <2>3. ARU \in [Correct -> 0 .. MaxSeq] /\ MaxSeq \in Nat /\ Seqs = 1 .. MaxSeq
    BY OrderingBounds DEF OrdInv, TypeOK, Seqs
  <2>4. \A q \in Correct : ARU'[q] \in Nat /\ ARU[q] \in Nat /\ ARU[q] <= ARU'[q]
    BY <2>1, <2>3
  <2>5. ASSUME NEW s \in Seqs, Executed_Log[s] # NoPP
        PROVE  Executed_Log'[s] = Executed_Log[s]
    <3>1. PICK q \in Correct : s <= ARU[q]
      BY <2>5 DEF LogFacts
    <3>2. s <= ARU'[q]
      BY <2>3, <2>4, <3>1
    <3>3. Executed_Log[s] = pre_prepare[q][s] /\ Executed_Log'[s] = pre_prepare'[q][s]
      BY <3>1, <3>2 DEF LogFacts
    <3> QED
      BY <2>2, <2>5, <3>3
  <2>6. ASSUME NEW s \in Seqs, s > n, Executed_Log[s] = NoPP
        PROVE  Executed_Log'[s] = NoPP
    <3>1. \A q \in Correct : ~(s <= ARU[q])
      BY <2>6 DEF LogFacts
    <3>2. \A q \in Correct : ~(s <= ARU'[q])
      BY <2>1, <2>3, <2>6, <3>1
    <3> QED
      BY <3>2 DEF LogFacts
  <2>7. ASSUME NEW s \in Seqs, s <= n PROVE Executed_Log'[s] # NoPP
    <3>1. s <= ARU'[r]
      BY <2>1, <2>3, <2>7
    <3> QED
      BY <3>1 DEF LogFacts
  <2>8. CASE n = ARU[r]
    <3>1. ARU' = ARU
      BY <2>1, <2>3, <2>8
    <3>2. \A s \in Seqs : Executed_Log'[s] = Executed_Log[s]
      <4> SUFFICES ASSUME NEW s \in Seqs, Executed_Log[s] = NoPP
                   PROVE  Executed_Log'[s] = NoPP
        BY <2>5
      <4>1. \A q \in Correct : ~(s <= ARU'[q])
        BY <3>1 DEF LogFacts
      <4> QED
        BY <4>1 DEF LogFacts
    <3>3. Executed_Log' = Executed_Log
      BY <3>2 DEF Executed_Log
    <3> QED
      BY <3>1, <3>3
  <2>9. CASE n # ARU[r]
    <3>1. n > ARU[r] /\ n \in 1 .. MaxSeq
      BY <2>1, <2>3, <2>9
    <3>2. Executed_Log' \in [1 .. MaxSeq -> LogEntry \cup {NoPP}]
      <4>1. \A s \in Seqs : Executed_Log'[s] \in LogEntry \cup {NoPP}
        <5>1. PrePrepare \subseteq LogEntry
          BY OrderingBounds DEF PrePrepare, LogEntry, Views
        <5> QED
          BY <5>1 DEF LogFacts
      <4>2. Executed_Log' = [s \in Seqs |-> Executed_Log'[s]]
        BY DEF Executed_Log
      <4> QED
        BY <2>3, <4>1, <4>2
    <3>3. Log!Execute(r, n)
      BY <2>1, <2>3, <2>5, <2>6, <2>7, <3>1, <3>2 DEF Log!Execute
    <3> QED
      BY <3>1, <3>3 DEF Log!LogNext
  <2> QED
    BY <2>8, <2>9
<1> QED
  BY <1>1, <1>2

(* The ordering protocol implements the agreed log, for every number of     *)
(* replicas, views, sequence numbers and requests.                          *)
THEOREM OrdImplementsLog == Spec => ImplementsLog
<1>1. OrdInv => LogFacts
  BY LogHolds
<1>2. Init /\ LogFacts => Log!LogInit
  BY LogStarts
<1>3. OrdInv /\ LogFacts /\ LogFacts' /\ [Next]_vars => [Log!LogNext]_<<Executed_Log, ARU>>
  BY LogStep
<1> QED
  BY <1>1, <1>2, <1>3, OrdInvariant, PTL DEF Spec, ImplementsLog, Log!LogSpec
=============================================================================
