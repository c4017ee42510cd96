-------------------------- MODULE ViewChangeProofs --------------------------
(***************************************************************************)
(* Proofs about ViewChange.  After a Replay the facts that the proofs of   *)
(* Ordering rest on are no longer true: a slot may hold a no-op of view 0, *)
(* be executed without being ordered, or have lost its certificate.  So    *)
(* the steps of Ordering are described here once more, by what each may do *)
(* to the slots of the replica that takes it (Acts), under weaker types.   *)
(***************************************************************************)
EXTENDS ViewChange, OrderingExecProofs, WellFoundedInduction

(* The types of the variables of Ordering that the proofs speak of *)
SlotTypes ==
  /\ View \in [Correct -> Views]
  /\ view_change_done \in [Correct -> BOOLEAN]
  /\ seq \in [Correct -> 1 .. MaxSeq + 1]
  /\ ARU \in [Correct -> 0 .. MaxSeq]
  /\ ppARU \in [Correct -> 0 .. MaxSeq]
  /\ pre_prepare \in [Correct -> [Seqs -> LogEntry \cup {NoPP}]]
  /\ prepare \in [Correct -> [Seqs -> [Servers -> PrePrepare \cup {NoPP}]]]
  /\ commit \in [Correct -> [Seqs -> [Servers -> PrePrepare \cup {NoPP}]]]
  /\ prepare_certificate \in [Correct -> [Seqs -> PrePrepare \cup {NoPP}]]
  /\ ordered \in [Correct -> SUBSET Seqs]
  /\ made_eligible \in [Correct -> [0 .. MaxSeq -> POSeqs \cup {Unpopulated}]]
  /\ Pending_Execution \in [Correct -> SUBSET Seqs]
  /\ report \in [Correct -> SUBSET Report]
  /\ msgs \subseteq Message

RoundTypes ==
  /\ vc_partial_sig \in [Views -> SUBSET (Replay \X Correct)]
  /\ replay \in [Views -> Replay \cup {NoReplay}]
  /\ replay_prepare \in [Views -> SUBSET Correct]
  /\ replay_commit \in [Views -> SUBSET Correct]
  /\ aborted \subseteq Correct

(* Slot s of r holds a Pre-Prepare, and what it makes eligible is known.   *)
Filled_In(r, s) ==
  pre_prepare[r][s] # NoPP /\ made_eligible[r][s] # Unpopulated

(* What executing and preparing rely on in the slots of r: nothing is of a *)
(* later view; the slots up to ARU, those that wait, and outside a view    *)
(* change those up to ppARU are filled in; outside a view change what      *)
(* comes after the Replay is of the view; and a leader knows where its     *)
(* next Pre-Prepare starts.                                                *)
SlotsOf(r) ==
  /\ made_eligible[r][0] = 0
  /\ \A s \in Seqs : pre_prepare[r][s] # NoPP =>
       pre_prepare[r][s].seq = s /\ pre_prepare[r][s].view <= View[r]
  /\ \A s \in Seqs : prepare_certificate[r][s] # NoPP =>
       prepare_certificate[r][s].view <= View[r]
  /\ \A s \in Seqs : s <= ARU[r] \/ s \in Pending_Execution[r] => Filled_In(r, s)
  /\ view_change_done[r] =>
       /\ r \notin aborted
       /\ \A s \in Seqs : s <= ppARU[r] => Filled_In(r, s)
       /\ \A s \in Seqs :
            (s > ARU[r] \/ s > ppARU[r]) /\ pre_prepare[r][s] # NoPP =>
              pre_prepare[r][s].view = View[r]
       /\ I_Am_Leader(r) => made_eligible[r][seq[r] - 1] # Unpopulated

VCSlots ==
  /\ SlotTypes
  /\ RoundTypes
  /\ \A r \in Correct : SlotsOf(r)

-----------------------------------------------------------------------------
(* What a step of Ordering other than VIEW_Start_View_Change may do to the *)
(* slots of the replica r that takes it, one idea at a time.               *)

(* A Pre-Prepare is accepted in an empty slot that is not executed. *)
Accepts(r) ==
  \A s \in Seqs :
    \/ pre_prepare'[r][s] = pre_prepare[r][s]
    \/ /\ pre_prepare[r][s] = NoPP
       /\ s > ARU[r]
       /\ pre_prepare'[r][s] \in PrePrepare
       /\ pre_prepare'[r][s].seq = s
       /\ View_Permits(r, pre_prepare'[r][s].view)
       /\ LET l == UTIL_Leader_Of_View[pre_prepare'[r][s].view] IN
          l \notin Byzantine => Pre_Prepare(l, pre_prepare'[r][s]) \in msgs

(* A vote is stored where there was none; a replica that is not Byzantine  *)
(* has sent it, and it is not the leader's Prepare.                        *)
CountsPrepares(r) ==
  \A s \in Seqs, q \in Servers :
    \/ prepare'[r][s][q] = prepare[r][s][q]
    \/ /\ prepare[r][s][q] = NoPP
       /\ s > ARU[r]
       /\ prepare'[r][s][q].seq = s
       /\ q # UTIL_Leader_Of_View[prepare'[r][s][q].view]
       /\ q \notin Byzantine => Prepare(q, prepare'[r][s][q]) \in msgs

CountsCommits(r) ==
  \A s \in Seqs, q \in Servers :
    \/ commit'[r][s][q] = commit[r][s][q]
    \/ /\ commit[r][s][q] = NoPP
       /\ s > ARU[r]
       /\ commit'[r][s][q].seq = s
       /\ q \notin Byzantine => Commit(q, commit'[r][s][q]) \in msgs

(* A certificate is made where there was none, of the slot's Pre-Prepare   *)
(* and 2f+k Prepares for it.                                               *)
Certifies(r) ==
  \A s \in Seqs :
    \/ prepare_certificate'[r][s] = prepare_certificate[r][s]
    \/ /\ prepare_certificate[r][s] = NoPP
       /\ s > ARU[r]
       /\ prepare_certificate'[r][s] # NoPP
       /\ prepare_certificate'[r][s] = pre_prepare'[r][s]
       /\ Cardinality({q \in Servers : prepare'[r][s][q] = prepare_certificate'[r][s]})
            >= Quorum - 1

(* A slot is ordered with 2f+k+1 Commits for its Pre-Prepare. *)
Orders(r) ==
  /\ ordered[r] \subseteq ordered'[r]
  /\ \A s \in ordered'[r] \ ordered[r] :
       /\ s > ARU[r]
       /\ pre_prepare'[r][s] # NoPP
       /\ made_eligible'[r][s] # Unpopulated
       /\ Cardinality({q \in Servers : commit'[r][s][q] = pre_prepare'[r][s]}) >= Quorum

(* What is executed or waits has waited, or is ordered now. *)
Executes(r) ==
  /\ ARU'[r] >= ARU[r]
  /\ \A s \in Seqs :
       s <= ARU'[r] \/ s \in Pending_Execution'[r] =>
         \/ s <= ARU[r]
         \/ s \in Pending_Execution[r]
         \/ s \in ordered'[r] \ ordered[r]

(* n is a Prepare that r sends outside a view change for a Pre-Prepare     *)
(* that starts where the slot before it stops.                             *)
NewPrepare(r, pps, n) ==
  /\ n \in Message
  /\ n.type = "PREPARE"
  /\ n.sender = r
  /\ view_change_done[r]
  /\ ~I_Am_Leader(r)
  /\ n.pp.seq > ppARU[r]
  /\ n.pp.seq <= ppARU'[r]
  /\ n.pp = pps[n.pp.seq]
  /\ n.pp.last_executed = made_eligible'[r][n.pp.seq - 1]

(* made_eligible[r] becomes me, with more slots filled in from pps.        *)
FillsIn(r, pps, me) ==
  \A s \in 0 .. MaxSeq :
    \/ made_eligible'[r][s] = me[s]
    \/ /\ me[s] = Unpopulated
       /\ s \in Seqs
       /\ pps[s] # NoPP
       /\ made_eligible'[r][s] = Made_Eligible(pps[s])

(* ORDER_Send_Prepares, or nothing of it: ppARU goes up over slots of pps, *)
(* which are filled in and prepared outside a view change.                 *)
Prepares(r, pps, me, sent) ==
  /\ ppARU' \in [Correct -> 0 .. MaxSeq]
  /\ made_eligible' \in [Correct -> [0 .. MaxSeq -> POSeqs \cup {Unpopulated}]]
  /\ \A q \in Correct \ {r} : ppARU'[q] = ppARU[q] /\ made_eligible'[q] = made_eligible[q]
  /\ ppARU'[r] >= ppARU[r]
  /\ \A s \in Seqs : s > ppARU[r] /\ s <= ppARU'[r] =>
       pps[s] # NoPP /\ (view_change_done[r] => made_eligible'[r][s] # Unpopulated)
  /\ FillsIn(r, pps, me)
  /\ msgs \cup sent \subseteq msgs'
  /\ \A n \in msgs' : n \in msgs \cup sent \/ NewPrepare(r, pps, n)

(* n is the Pre-Prepare that r sends as the leader: it starts where the    *)
(* slot before it stops, and its own slot is filled in with it.            *)
Proposal(r, n) ==
  /\ n \in Message
  /\ n.type = "PRE_PREPARE"
  /\ n.sender = r
  /\ view_change_done[r]
  /\ I_Am_Leader(r)
  /\ n.pp.seq = seq[r]
  /\ n.pp.view = View[r]
  /\ n.pp.last_executed = made_eligible[r][seq[r] - 1]
  /\ seq'[r] = seq[r] + 1
  /\ made_eligible'[r][seq[r]] \in {made_eligible[r][seq[r]], Made_Eligible(n.pp)}
  /\ made_eligible'[r][seq[r]] # Unpopulated

(* n is a Byzantine leader's Pre-Prepare, flooded. *)
Flooded(n) ==
  n \in Message /\ n.type = "PRE_PREPARE" /\ n.sender \in Byzantine

(* n is the Commit that follows a certificate r has just made outside a    *)
(* view change.                                                            *)
NewCommit(r, n) ==
  /\ n \in Message
  /\ n.type = "COMMIT"
  /\ n.sender = r
  /\ view_change_done[r]
  /\ n.pp.seq > ARU[r]
  /\ prepare_certificate[r][n.pp.seq] = NoPP
  /\ prepare_certificate'[r][n.pp.seq] = n.pp

Sends(r) ==
  /\ msgs \subseteq msgs'
  /\ \A n \in msgs' :
       \/ n \in msgs
       \/ Flooded(n)
       \/ Proposal(r, n)
       \/ NewPrepare(r, pre_prepare'[r], n)
       \/ NewCommit(r, n)

(* The leader's next number goes up with each proposal. *)
Counts_Up(r) ==
  \/ seq'[r] = seq[r]
  \/ \E n \in msgs' : Proposal(r, n)

Populates(r) ==
  \A s \in 0 .. MaxSeq :
    \/ made_eligible'[r][s] = made_eligible[r][s]
    \/ /\ made_eligible[r][s] = Unpopulated
       /\ s \in Seqs
       /\ \/ /\ pre_prepare'[r][s] # NoPP
             /\ made_eligible'[r][s] = Made_Eligible(pre_prepare'[r][s])
          \/ \E n \in msgs' : /\ Proposal(r, n) /\ n.pp.seq = s
                              /\ made_eligible'[r][s] = Made_Eligible(n.pp)

(* ppARU goes up over slots with a Pre-Prepare, and outside a view change  *)
(* they are filled in.                                                     *)
GoesUp(r) ==
  /\ ppARU'[r] >= ppARU[r]
  /\ \A s \in Seqs : s > ppARU[r] /\ s <= ppARU'[r] =>
       /\ pre_prepare'[r][s] # NoPP
       /\ view_change_done[r] => made_eligible'[r][s] # Unpopulated

(* The slots of q stay as they are. *)
Rests(q) ==
  /\ seq'[q] = seq[q] /\ ARU'[q] = ARU[q] /\ ppARU'[q] = ppARU[q]
  /\ pre_prepare'[q] = pre_prepare[q]
  /\ prepare'[q] = prepare[q] /\ commit'[q] = commit[q]
  /\ prepare_certificate'[q] = prepare_certificate[q]
  /\ ordered'[q] = ordered[q]
  /\ made_eligible'[q] = made_eligible[q]
  /\ Pending_Execution'[q] = Pending_Execution[q]

Acts(r) ==
  /\ SlotTypes'
  /\ UNCHANGED <<View, view_change_done, report>>
  /\ \A q \in Correct \ {r} : Rests(q)
  /\ Accepts(r) /\ CountsPrepares(r) /\ CountsCommits(r)
  /\ Certifies(r) /\ Orders(r) /\ Executes(r)
  /\ Populates(r) /\ GoesUp(r) /\ Counts_Up(r) /\ Sends(r)

-----------------------------------------------------------------------------
(* A Pre-Prepare that a leader sent is a log entry, and neither is NoPP.   *)
LEMMA EntryType ==
  /\ PrePrepare \subseteq LogEntry
  /\ NoPP \notin PrePrepare
  /\ NoPP \notin LogEntry
  /\ \A pp \in LogEntry :
       /\ Made_Eligible(pp) \in POSeqs
       /\ pp.view >= 1 => pp \in PrePrepare
<1>1. PrePrepare \subseteq LogEntry
  BY OrderingBounds DEF PrePrepare, LogEntry, Views
<1>2. \A pp \in LogEntry : Made_Eligible(pp) \in POSeqs
  BY OrderingBounds DEF LogEntry, Made_Eligible, Larger
<1>3. \A pp \in LogEntry : pp.view >= 1 => pp \in PrePrepare
  BY OrderingBounds DEF PrePrepare, LogEntry, Views
<1> QED
  BY <1>1, <1>2, <1>3, ViewChangeBounds, OrderingBounds

(* ORDER_Send_Prepares, in terms of the above. *)
LEMMA SendPreparesActs ==
  ASSUME NEW r, NEW pps, NEW me, NEW sent, ORDER_Send_Prepares(r, pps, me, sent),
         SlotTypes, r \in Correct,
         pps \in [Seqs -> LogEntry \cup {NoPP}],
         me \in [0 .. MaxSeq -> POSeqs \cup {Unpopulated}],
         me[0] # Unpopulated,
         view_change_done[r] =>
           /\ \A s \in Seqs : s <= ppARU[r] => me[s] # Unpopulated
           /\ \A s \in Seqs : s > ppARU[r] /\ pps[s] # NoPP =>
                pps[s] \in PrePrepare /\ pps[s].seq = s
  PROVE  Prepares(r, pps, me, sent)
<1> PICK n \in ppARU[r] .. MaxSeq :
      /\ \A s \in ppARU[r] + 1 .. n : May_Prepare(r, pps, me, s)
      /\ ppARU' = [ppARU EXCEPT ![r] = n]
      /\ made_eligible' = [made_eligible EXCEPT ![r] =
                             IF view_change_done[r]
                             THEN Populate(pps, me, ppARU[r] + 1 .. n) ELSE me]
      /\ msgs' = msgs \cup sent \cup
                 {Prepare(r, pps[s]) :
                    s \in IF view_change_done[r] /\ ~I_Am_Leader(r)
                          THEN ppARU[r] + 1 .. n ELSE {}}
  BY DEF ORDER_Send_Prepares
<1> DEFINE new == ppARU[r] + 1 .. n
           after == IF view_change_done[r] THEN Populate(pps, me, new) ELSE me
<1>1. ppARU[r] \in 0 .. MaxSeq /\ MaxSeq \in Nat /\ n \in 0 .. MaxSeq /\ n >= ppARU[r]
  BY OrderingBounds DEF SlotTypes
<1>2. new \subseteq Seqs /\ \A s \in new : s > ppARU[r] /\ s <= n
  BY <1>1 DEF Seqs
<1>3. \A s \in Seqs : s > ppARU[r] /\ s <= n => s \in new
  BY <1>1 DEF Seqs
<1>4. \A s \in new : pps[s] # NoPP /\ pps[s] \in LogEntry /\ Made_Eligible(pps[s]) \in POSeqs
  BY <1>2, EntryType DEF May_Prepare
<1>5. \A s \in 0 .. MaxSeq : Populate(pps, me, new)[s] =
        IF s \in new /\ me[s] = Unpopulated THEN Made_Eligible(pps[s]) ELSE me[s]
  BY DEF Populate, Eligible_At
<1>6. DOMAIN Populate(pps, me, new) = 0 .. MaxSeq
  BY DEF Populate
<1>7. Populate(pps, me, new) \in [0 .. MaxSeq -> POSeqs \cup {Unpopulated}]
  <2>1. \A s \in 0 .. MaxSeq : Populate(pps, me, new)[s] \in POSeqs \cup {Unpopulated}
    BY <1>4, <1>5
  <2> QED
    BY <2>1 DEF Populate
<1>8. after \in [0 .. MaxSeq -> POSeqs \cup {Unpopulated}] /\ made_eligible' = [made_eligible EXCEPT ![r] = after]
  BY <1>7
<1>9. \A s \in 0 .. MaxSeq :
        \/ after[s] = me[s]
        \/ me[s] = Unpopulated /\ s \in new /\ after[s] = Made_Eligible(pps[s])
  BY <1>5
<1>10. view_change_done[r] => \A s \in new : after[s] # Unpopulated
  <2>0. /\ \A s \in new : s \in 0 .. MaxSeq
        /\ Unpopulated \notin POSeqs
    BY <1>1, <1>2, OrderingBounds DEF Seqs
  <2>1. ASSUME NEW s \in new PROVE Populate(pps, me, new)[s] # Unpopulated
    <3>1. CASE me[s] = Unpopulated
      <4>1. Populate(pps, me, new)[s] = Made_Eligible(pps[s])
        BY <1>5, <2>0, <3>1
      <4> QED
        BY <1>4, <2>0, <4>1
    <3>2. CASE me[s] # Unpopulated
      BY <1>5, <2>0, <3>2
    <3> QED
      BY <3>1, <3>2
  <2> QED
    BY <2>1
<1>11. view_change_done[r] => \A s \in new : pps[s].last_executed = after[s - 1]
  <2> SUFFICES ASSUME view_change_done[r], NEW s \in new
               PROVE  pps[s].last_executed = after[s - 1]
    OBVIOUS
  <2>1. pps[s].last_executed = IF me[s - 1] # Unpopulated THEN me[s - 1] ELSE Made_Eligible(pps[s - 1])
    BY DEF May_Prepare, Eligible_At
  <2>2. s - 1 \in 0 .. MaxSeq /\ s \in Int
    BY <1>1, <1>2 DEF Seqs
  <2>3. CASE s - 1 \in new
    BY <2>1, <2>2, <2>3, <1>5
  <2>4. CASE s - 1 \notin new
    <3>1. s - 1 = 0 \/ (s - 1 \in Seqs /\ s - 1 <= ppARU[r])
      BY <2>2, <2>4, <1>1 DEF Seqs
    <3> QED
      BY <2>1, <2>2, <2>4, <3>1, <1>5
  <2> QED
    BY <2>3, <2>4
<1> HIDE DEF after, new
<1>12. /\ made_eligible' \in [Correct -> [0 .. MaxSeq -> POSeqs \cup {Unpopulated}]]
       /\ \A q \in Correct \ {r} : made_eligible'[q] = made_eligible[q]
       /\ made_eligible'[r] = after
  BY <1>8 DEF SlotTypes
<1>13. /\ ppARU' \in [Correct -> 0 .. MaxSeq]
       /\ \A q \in Correct \ {r} : ppARU'[q] = ppARU[q]
       /\ ppARU'[r] = n
  BY <1>1 DEF SlotTypes
<1>14. FillsIn(r, pps, me)
  BY <1>2, <1>4, <1>9, <1>12 DEF FillsIn
<1>15. \A m \in msgs' : m \in msgs \cup sent \/ NewPrepare(r, pps, m)
  <2> SUFFICES ASSUME NEW m \in msgs', m \notin msgs \cup sent
               PROVE  NewPrepare(r, pps, m)
    OBVIOUS
  <2>1. PICK s \in new : m = Prepare(r, pps[s]) /\ view_change_done[r] /\ ~I_Am_Leader(r)
    BY DEF new
  <2>2. pps[s] \in PrePrepare /\ pps[s].seq = s
    BY <1>2, <1>4, <2>1
  <2>3. m \in Message /\ m.type = "PREPARE" /\ m.sender = r /\ m.pp = pps[s]
    BY <2>1, <2>2, FaultModel DEF Prepare, Message, MessageType, Correct
  <2> QED
    BY <2>1, <2>2, <2>3, <1>2, <1>11, <1>12, <1>13 DEF NewPrepare
<1> QED
  BY <1>1, <1>3, <1>4, <1>10, <1>12, <1>13, <1>14, <1>15 DEF Prepares

(* The same where ORDER_Send_Prepares is not called *)
LEMMA NoPreparesActs ==
  ASSUME NEW r, NEW pps, NEW me, NEW sent,
         made_eligible' = [made_eligible EXCEPT ![r] = me],
         msgs' = msgs \cup sent, ppARU' = ppARU,
         SlotTypes, r \in Correct,
         me \in [0 .. MaxSeq -> POSeqs \cup {Unpopulated}]
  PROVE  Prepares(r, pps, me, sent)
<1>1. /\ made_eligible' \in [Correct -> [0 .. MaxSeq -> POSeqs \cup {Unpopulated}]]
      /\ \A q \in Correct \ {r} : made_eligible'[q] = made_eligible[q]
      /\ made_eligible'[r] = me
  BY DEF SlotTypes
<1>2. ppARU' \in [Correct -> 0 .. MaxSeq] /\ ppARU[r] \in Int
  BY DEF SlotTypes
<1>3. \A s \in Seqs : ~(s > ppARU[r] /\ s <= ppARU'[r])
  BY <1>2 DEF Seqs
<1>4. FillsIn(r, pps, me)
  BY <1>1 DEF FillsIn
<1> QED
  BY <1>1, <1>2, <1>3, <1>4 DEF Prepares

(* ORDER_Execute_Commit(s), given what waits, is ordered and filled in.    *)
LEMMA ExecuteCommitActs ==
  ASSUME NEW r, NEW s, NEW me, ORDER_Execute_Commit(r, s, me),
         SlotTypes, r \in Correct, SlotsOf(r), s \in Seqs,
         me \in [0 .. MaxSeq -> POSeqs \cup {Unpopulated}],
         \A i \in 0 .. MaxSeq : made_eligible[r][i] # Unpopulated => me[i] = made_eligible[r][i],
         UNCHANGED pre_prepare
  PROVE  /\ ARU' \in [Correct -> 0 .. MaxSeq]
         /\ Pending_Execution' \in [Correct -> SUBSET Seqs]
         /\ \A q \in Correct \ {r} :
              ARU'[q] = ARU[q] /\ Pending_Execution'[q] = Pending_Execution[q]
         /\ ARU'[r] >= ARU[r]
         /\ \A i \in Seqs : i <= ARU'[r] \/ i \in Pending_Execution'[r] =>
              i <= ARU[r] \/ i \in Pending_Execution[r] \/ i = s
         /\ Prepares(r, pre_prepare[r], me, {})
<1> DEFINE waiting == Pending_Execution[r] \cup {s}
<1>0. /\ waiting \in SUBSET Seqs
      /\ ARU[r] \in 0 .. MaxSeq
      /\ MaxSeq \in Nat
      /\ ARU \in [Correct -> 0 .. MaxSeq]
      /\ Pending_Execution \in [Correct -> SUBSET Seqs]
  BY OrderingBounds DEF SlotTypes
<1>1. CASE s # ARU[r] + 1
  <2>1. /\ Pending_Execution' = [Pending_Execution EXCEPT ![r] = waiting]
        /\ made_eligible' = [made_eligible EXCEPT ![r] = me]
        /\ UNCHANGED <<ARU, ppARU, missing, msgs>>
    BY <1>1 DEF ORDER_Execute_Commit
  <2>2. Prepares(r, pre_prepare[r], me, {})
    BY <2>1, NoPreparesActs
  <2> QED
    BY <1>0, <2>1, <2>2
<1>2. CASE s = ARU[r] + 1
  <2> PICK n \in ARU[r] .. MaxSeq :
        /\ \A i \in ARU[r] + 1 .. n : Ready_To_Execute(r, waiting, i, me)
        /\ ARU' = [ARU EXCEPT ![r] = n]
        /\ Pending_Execution' = [Pending_Execution EXCEPT ![r] = waiting \ (1 .. n)]
        /\ IF n > ARU[r]
           THEN ORDER_Send_Prepares(r, pre_prepare[r], me, {})
           ELSE /\ made_eligible' = [made_eligible EXCEPT ![r] = me]
                /\ UNCHANGED <<ppARU, msgs>>
    BY <1>2 DEF ORDER_Execute_Commit
  <2>1. n \in 0 .. MaxSeq /\ n >= ARU[r]
    BY <1>0
  <2>2. Prepares(r, pre_prepare[r], me, {})
    <3>1. CASE n > ARU[r]
      <4>1. pre_prepare[r] \in [Seqs -> LogEntry \cup {NoPP}]
        BY DEF SlotTypes
      <4>2. me[0] # Unpopulated
        BY <1>0, OrderingBounds DEF SlotsOf, POSeqs
      <4>3. view_change_done[r] => \A i \in Seqs : i <= ppARU[r] => me[i] # Unpopulated
        BY DEF SlotsOf, Filled_In, Seqs
      <4>4. view_change_done[r] =>
              \A i \in Seqs : i > ppARU[r] /\ pre_prepare[r][i] # NoPP =>
                pre_prepare[r][i] \in PrePrepare /\ pre_prepare[r][i].seq = i
        <5> SUFFICES ASSUME view_change_done[r], NEW i \in Seqs, i > ppARU[r], pre_prepare[r][i] # NoPP
                     PROVE  pre_prepare[r][i] \in PrePrepare /\ pre_prepare[r][i].seq = i
          OBVIOUS
        <5>1. pre_prepare[r][i].view = View[r] /\ pre_prepare[r][i].seq = i
          BY DEF SlotsOf
        <5>2. View[r] >= 1
          BY DEF SlotTypes, Views
        <5> QED
          BY <4>1, <5>1, <5>2, EntryType
      <4> QED
        BY <3>1, <4>1, <4>2, <4>3, <4>4, SendPreparesActs
    <3>2. CASE ~(n > ARU[r])
      BY <3>2, NoPreparesActs
    <3> QED
      BY <3>1, <3>2
  <2>3. ARU'[r] = n /\ Pending_Execution'[r] = waiting \ (1 .. n)
    BY <1>0
  <2>4. \A i \in Seqs : i <= n => i <= ARU[r] \/ i \in waiting
    <3> SUFFICES ASSUME NEW i \in Seqs, i <= n, ~(i <= ARU[r])
                 PROVE  i \in waiting
      OBVIOUS
    <3>1. i \in ARU[r] + 1 .. n
      BY <1>0, <2>1 DEF Seqs
    <3> QED
      BY <3>1 DEF Ready_To_Execute
  <2>5. Pending_Execution' \in [Correct -> SUBSET Seqs]
    BY <1>0
  <2>6. ARU' \in [Correct -> 0 .. MaxSeq]
    BY <1>0, <2>1
  <2>7. \A q \in Correct \ {r} :
              ARU'[q] = ARU[q] /\ Pending_Execution'[q] = Pending_Execution[q]
    BY <1>0
  <2> QED
    BY <2>1, <2>2, <2>3, <2>4, <2>5, <2>6, <2>7
<1> QED
  BY <1>1, <1>2

-----------------------------------------------------------------------------
(* A handler that leaves slotVars alone accepts, counts and orders nothing. *)
LEMMA SameSlotVars ==
  ASSUME NEW r, UNCHANGED slotVars
  PROVE  /\ Accepts(r) /\ CountsPrepares(r) /\ CountsCommits(r)
         /\ Certifies(r) /\ Orders(r)
<1>1. UNCHANGED <<pre_prepare, prepare, commit, prepare_certificate, ordered>>
  BY DEF slotVars
<1> QED
  BY <1>1 DEF Accepts, CountsPrepares, CountsCommits, Certifies, Orders

(* A handler that leaves ARU and Pending_Execution alone executes nothing. *)
LEMMA SameExecution ==
  ASSUME NEW r, UNCHANGED <<ARU, Pending_Execution>>, SlotTypes, r \in Correct
  PROVE  Executes(r)
BY DEF Executes, SlotTypes

(* A handler that leaves ppARU alone takes no slot for accepted. *)
LEMMA SameAccepted ==
  ASSUME NEW r, UNCHANGED ppARU, SlotTypes, r \in Correct
  PROVE  GoesUp(r)
<1>1. ppARU[r] \in Int /\ ppARU'[r] = ppARU[r]
  BY DEF SlotTypes
<1>2. \A s \in Seqs : ~(s > ppARU[r] /\ s <= ppARU'[r])
  BY <1>1 DEF Seqs
<1> QED
  BY <1>1, <1>2 DEF GoesUp

(* me is made_eligible[r], with more slots filled in from pps. *)
FilledFrom(r, pps, me) ==
  \A s \in 0 .. MaxSeq :
    \/ me[s] = made_eligible[r][s]
    \/ /\ made_eligible[r][s] = Unpopulated
       /\ s \in Seqs
       /\ pps[s] # NoPP
       /\ me[s] = Made_Eligible(pps[s])

(* What Prepares leaves of Acts, for a handler that proposes nothing and   *)
(* sends in sent only what it floods or commits.                           *)
LEMMA PreparesActs ==
  ASSUME NEW r, NEW pps, NEW me, NEW sent, Prepares(r, pps, me, sent),
         SlotTypes, r \in Correct,
         pps = pre_prepare'[r],
         seq' = seq,
         FilledFrom(r, pps, me),
         \A n \in sent : n \in msgs \/ Flooded(n) \/ NewCommit(r, n)
  PROVE  /\ Populates(r) /\ GoesUp(r) /\ Counts_Up(r) /\ Sends(r)
         /\ msgs' \subseteq Message
         /\ ppARU' \in [Correct -> 0 .. MaxSeq]
         /\ made_eligible' \in [Correct -> [0 .. MaxSeq -> POSeqs \cup {Unpopulated}]]
         /\ \A q \in Correct \ {r} : ppARU'[q] = ppARU[q] /\ made_eligible'[q] = made_eligible[q]
<1>1. Populates(r)
  BY DEF Prepares, FillsIn, FilledFrom, Populates
<1>2. GoesUp(r)
  BY DEF Prepares, GoesUp
<1>3. Counts_Up(r)
  BY DEF Counts_Up
<1>4. Sends(r)
  BY DEF Prepares, Sends
<1>5. msgs' \subseteq Message
  BY <1>4 DEF Sends, SlotTypes, Flooded, Proposal, NewPrepare, NewCommit
<1> QED
  BY <1>1, <1>2, <1>3, <1>4, <1>5 DEF Prepares

(* ORDER_Send_One_Pre_Prepare *)
LEMMA SendPrePrepareActs ==
  ASSUME NEW r, ORDER_Send_One_Pre_Prepare(r), SlotTypes, r \in Correct, SlotsOf(r)
  PROVE  Acts(r)
<1> PICK a \in POSeqs :
      LET pp == [seq |-> seq[r], view |-> View[r],
                 last_executed |-> made_eligible[r][seq[r] - 1], proof_aru |-> a] IN
      /\ I_Am_Leader(r)
      /\ view_change_done[r]
      /\ seq[r] <= MaxSeq
      /\ msgs' = msgs \cup {Pre_Prepare(r, pp)}
      /\ made_eligible' = [made_eligible EXCEPT ![r][seq[r]] =
                             IF @ = Unpopulated THEN Made_Eligible(pp) ELSE @]
      /\ seq' = [seq EXCEPT ![r] = @ + 1]
      /\ UNCHANGED <<viewVars, slotVars, poVars, ARU, ppARU, Pending_Execution, missing>>
  BY DEF ORDER_Send_One_Pre_Prepare
<1> DEFINE pp == [seq |-> seq[r], view |-> View[r],
                  last_executed |-> made_eligible[r][seq[r] - 1], proof_aru |-> a]
           e == IF made_eligible[r][seq[r]] = Unpopulated THEN Made_Eligible(pp)
                ELSE made_eligible[r][seq[r]]
           n == Pre_Prepare(r, pp)
<1>1. seq[r] \in Seqs /\ seq[r] - 1 \in 0 .. MaxSeq /\ seq[r] \in 0 .. MaxSeq /\ MaxSeq \in Nat
  BY OrderingBounds DEF SlotTypes, Seqs
<1>2. made_eligible[r][seq[r] - 1] \in POSeqs
  BY <1>1 DEF SlotTypes, SlotsOf
<1>3. pp \in PrePrepare
  BY <1>1, <1>2 DEF PrePrepare, SlotTypes
<1>4. e \in POSeqs /\ e \in {made_eligible[r][seq[r]], Made_Eligible(pp)} /\ e # Unpopulated
  <2>1. Made_Eligible(pp) \in POSeqs
    BY <1>3, EligibleType
  <2> HIDE DEF pp
  <2> QED
    BY <1>1, <2>1, OrderingBounds DEF SlotTypes
<1>5. /\ n \in Message
      /\ n.type = "PRE_PREPARE" /\ n.sender = r /\ n.pp = pp
  BY <1>3, FaultModel DEF Pre_Prepare, Message, MessageType, Correct
<1>6. made_eligible' = [made_eligible EXCEPT ![r][seq[r]] = e]
  OBVIOUS
<1> HIDE DEF e
<1>7. /\ made_eligible' \in [Correct -> [0 .. MaxSeq -> POSeqs \cup {Unpopulated}]]
      /\ \A q \in Correct \ {r} : made_eligible'[q] = made_eligible[q]
      /\ made_eligible'[r][seq[r]] = e
      /\ \A s \in 0 .. MaxSeq : s # seq[r] => made_eligible'[r][s] = made_eligible[r][s]
  BY <1>1, <1>4, <1>6 DEF SlotTypes
<1>8. /\ seq' \in [Correct -> 1 .. MaxSeq + 1]
      /\ \A q \in Correct \ {r} : seq'[q] = seq[q]
      /\ seq'[r] = seq[r] + 1
  BY <1>1 DEF SlotTypes
<1>9. n \in msgs' /\ msgs' = msgs \cup {n}
  OBVIOUS
<1>10. n.pp.seq = seq[r] /\ n.pp.view = View[r] /\ n.pp.last_executed = made_eligible[r][seq[r] - 1]
  BY <1>5
<1>10a. view_change_done[r] /\ I_Am_Leader(r)
  OBVIOUS
<1>10b. e \in {made_eligible[r][seq[r]], Made_Eligible(n.pp)}
  BY <1>4, <1>5
<1> HIDE DEF pp, n
<1>11. Proposal(r, n)
  BY <1>4, <1>5, <1>7, <1>8, <1>10, <1>10a, <1>10b DEF Proposal
<1>12. Populates(r)
  <2> SUFFICES ASSUME NEW s \in 0 .. MaxSeq, made_eligible'[r][s] # made_eligible[r][s]
               PROVE  /\ made_eligible[r][s] = Unpopulated
                      /\ s \in Seqs
                      /\ \E m \in msgs' : /\ Proposal(r, m) /\ m.pp.seq = s
                                          /\ made_eligible'[r][s] = Made_Eligible(m.pp)
    BY DEF Populates
  <2>1. s = seq[r]
    BY <1>7
  <2>2. made_eligible[r][s] = Unpopulated /\ e = Made_Eligible(pp)
    BY <2>1, <1>7 DEF e
  <2> QED
    BY <1>1, <1>5, <1>7, <1>9, <1>10, <1>11, <2>1, <2>2
<1>13. Sends(r) /\ Counts_Up(r)
  BY <1>9, <1>11 DEF Sends, Counts_Up
<1>14. GoesUp(r)
  BY SameAccepted
<1>15. SlotTypes'
  BY <1>5, <1>7, <1>8, <1>9 DEF SlotTypes, viewVars, slotVars
<1>16. \A q \in Correct \ {r} : Rests(q)
  BY <1>7, <1>8 DEF Rests, slotVars
<1>17. UNCHANGED <<View, view_change_done, report>> /\ UNCHANGED slotVars
  BY DEF viewVars
<1> QED
  BY <1>12, <1>13, <1>14, <1>15, <1>16, <1>17, SameSlotVars, SameExecution DEF Acts

(* Inconsistent_Pre_Prepare and PRE_ORDER_Update_Cum_ARU touch none of the slots. *)
LEMMA NoSlotsActs ==
  ASSUME NEW r, UNCHANGED <<View, view_change_done, report, slotVars, seq, ARU, ppARU,
                            made_eligible, Pending_Execution, msgs>>,
         SlotTypes, r \in Correct
  PROVE  Acts(r)
<1>1. SlotTypes'
  BY DEF SlotTypes, slotVars
<1>2. \A q \in Correct \ {r} : Rests(q)
  BY DEF Rests, slotVars
<1>3. Populates(r) /\ Counts_Up(r) /\ Sends(r)
  BY DEF Populates, Counts_Up, Sends
<1>4. GoesUp(r)
  BY SameAccepted
<1> QED
  BY <1>1, <1>2, <1>3, <1>4, SameSlotVars, SameExecution DEF Acts

(* ORDER_Process_Pre_Prepare *)
LEMMA ProcessPrePrepareActs ==
  ASSUME NEW r, NEW m, ORDER_Process_Pre_Prepare(r, m),
         m \in Arriving("PRE_PREPARE", r), SlotTypes, r \in Correct, SlotsOf(r)
  PROVE  Acts(r)
<1> DEFINE pp == m.pp
           s == m.pp.seq
           pps == [pre_prepare[r] EXCEPT ![s] = pp]
           certified == Gets_Certificate(r, s, pp, prepare[r][s])
           sent == ORDER_Flood_Pre_Prepare(r, m) \cup
                   IF certified THEN Commit_After_Certificate(r, pp) ELSE {}
           certificate == [prepare_certificate[r] EXCEPT ![s] = IF certified THEN pp ELSE @]
<1>1. m \in Message /\ m.type = "PRE_PREPARE" /\ (m.sender \notin Byzantine => m \in msgs)
  BY ArrivingType DEF SlotTypes, MessageType
<1>2. pp \in PrePrepare /\ s \in Seqs /\ pp.seq = s /\ pp # NoPP /\ m.sender \in Servers
  BY <1>1, OrderingBounds DEF Message, PrePrepare
<1>3. /\ ~Done_With_Slot(r, s)
      /\ View_Permits(r, pp.view)
      /\ m.sender = UTIL_Leader_Of_View[pp.view]
      /\ pre_prepare[r][s] = NoPP
      /\ pre_prepare' = [pre_prepare EXCEPT ![r] = pps]
      /\ prepare_certificate' = [prepare_certificate EXCEPT ![r][s] = IF certified THEN pp ELSE @]
      /\ IF s = ppARU[r] + 1
         THEN ORDER_Send_Prepares(r, pps, made_eligible[r], sent)
         ELSE /\ msgs' = msgs \cup sent
              /\ UNCHANGED <<ppARU, made_eligible>>
      /\ UNCHANGED <<viewVars, poVars, prepare, commit, ordered, seq, ARU,
                     Pending_Execution, missing>>
  BY DEF ORDER_Process_Pre_Prepare
<1>4. /\ ARU[r] \in 0 .. MaxSeq /\ MaxSeq \in Nat
      /\ pre_prepare[r] \in [Seqs -> LogEntry \cup {NoPP}]
      /\ made_eligible[r] \in [0 .. MaxSeq -> POSeqs \cup {Unpopulated}]
      /\ prepare_certificate[r] \in [Seqs -> PrePrepare \cup {NoPP}]
  BY OrderingBounds DEF SlotTypes
<1>5. s > ARU[r]
  <2>1. s >= ARU[r]
    BY <1>2, <1>3, <1>4 DEF Done_With_Slot, Seqs
  <2>2. s # ARU[r]
    BY <1>2, <1>3, <1>4 DEF SlotsOf, Filled_In, Seqs
  <2> QED
    BY <1>2, <1>4, <2>1, <2>2 DEF Seqs
<1>6. /\ pps \in [Seqs -> LogEntry \cup {NoPP}]
      /\ pps[s] = pp
      /\ \A i \in Seqs : i # s => pps[i] = pre_prepare[r][i]
  BY <1>2, <1>4, EntryType
<1>7. prepare_certificate' = [prepare_certificate EXCEPT ![r] = certificate]
  BY <1>3 DEF SlotTypes
<1>8. /\ certificate \in [Seqs -> PrePrepare \cup {NoPP}]
      /\ \A i \in Seqs : i # s => certificate[i] = prepare_certificate[r][i]
      /\ certified => certificate[s] = pp
      /\ ~certified => certificate[s] = prepare_certificate[r][s]
  <2> HIDE DEF certified, pp
  <2> QED
    BY <1>2, <1>4
<1>9. certified => /\ prepare_certificate[r][s] = NoPP
                   /\ Cardinality({q \in Servers : prepare[r][s][q] = pp}) >= Quorum - 1
  BY DEF Gets_Certificate, ORDER_Prepare_Certificate_Ready
<1> HIDE DEF pps, certificate, certified
<1>10. /\ pre_prepare' \in [Correct -> [Seqs -> LogEntry \cup {NoPP}]]
       /\ pre_prepare'[r] = pps
       /\ \A q \in Correct \ {r} : pre_prepare'[q] = pre_prepare[q]
  BY <1>3, <1>6 DEF SlotTypes
<1>11. /\ prepare_certificate' \in [Correct -> [Seqs -> PrePrepare \cup {NoPP}]]
       /\ prepare_certificate'[r] = certificate
       /\ \A q \in Correct \ {r} : prepare_certificate'[q] = prepare_certificate[q]
  BY <1>7, <1>8 DEF SlotTypes
<1>12. \A n \in sent : n \in msgs \/ Flooded(n) \/ NewCommit(r, n)
  <2> SUFFICES ASSUME NEW n \in sent, n \notin msgs
               PROVE  Flooded(n) \/ NewCommit(r, n)
    OBVIOUS
  <2>1. CASE n = m
    BY <1>1, <2>1 DEF Flooded
  <2>2. CASE n # m
    <3>1. certified /\ view_change_done[r] /\ n = Commit(r, pp)
      BY <2>2 DEF ORDER_Flood_Pre_Prepare, Commit_After_Certificate
    <3>2. n \in Message /\ n.type = "COMMIT" /\ n.sender = r /\ n.pp = pp
      BY <3>1, <1>2, FaultModel DEF Commit, Message, MessageType, Correct
    <3> QED
      BY <3>1, <3>2, <1>2, <1>5, <1>8, <1>9, <1>11 DEF NewCommit
  <2> QED
    BY <2>1, <2>2
<1> HIDE DEF sent
<1>13. Prepares(r, pps, made_eligible[r], sent)
  <2>1. CASE s = ppARU[r] + 1
    <3>1. ORDER_Send_Prepares(r, pps, made_eligible[r], sent)
      BY <1>3, <2>1
    <3>2. made_eligible[r][0] # Unpopulated
      BY OrderingBounds DEF SlotsOf, POSeqs
    <3>3. view_change_done[r] => \A i \in Seqs : i <= ppARU[r] => made_eligible[r][i] # Unpopulated
      BY DEF SlotsOf, Filled_In
    <3>4. view_change_done[r] =>
            \A i \in Seqs : i > ppARU[r] /\ pps[i] # NoPP => pps[i] \in PrePrepare /\ pps[i].seq = i
      <4> SUFFICES ASSUME view_change_done[r], NEW i \in Seqs, i > ppARU[r], pps[i] # NoPP
                   PROVE  pps[i] \in PrePrepare /\ pps[i].seq = i
        OBVIOUS
      <4>1. CASE i = s
        BY <4>1, <1>2, <1>6
      <4>2. CASE i # s
        <5>1. pre_prepare[r][i].view = View[r] /\ pre_prepare[r][i].seq = i
          BY <4>2, <1>6 DEF SlotsOf
        <5>2. View[r] >= 1
          BY DEF SlotTypes, Views
        <5> QED
          BY <1>4, <1>6, <4>2, <5>1, <5>2, EntryType
      <4> QED
        BY <4>1, <4>2
    <3> QED
      BY <3>1, <3>2, <3>3, <3>4, <1>4, <1>6, SendPreparesActs
  <2>2. CASE s # ppARU[r] + 1
    <3>1. msgs' = msgs \cup sent /\ UNCHANGED <<ppARU, made_eligible>>
      BY <1>3, <2>2
    <3>2. made_eligible' = [made_eligible EXCEPT ![r] = made_eligible[r]]
      BY <3>1 DEF SlotTypes
    <3> QED
      BY <1>4, <3>1, <3>2, NoPreparesActs
  <2> QED
    BY <2>1, <2>2
<1>14. /\ Populates(r) /\ GoesUp(r) /\ Counts_Up(r) /\ Sends(r)
       /\ msgs' \subseteq Message
       /\ ppARU' \in [Correct -> 0 .. MaxSeq]
       /\ made_eligible' \in [Correct -> [0 .. MaxSeq -> POSeqs \cup {Unpopulated}]]
       /\ \A q \in Correct \ {r} : ppARU'[q] = ppARU[q] /\ made_eligible'[q] = made_eligible[q]
  BY <1>3, <1>10, <1>12, <1>13, PreparesActs DEF FilledFrom
<1>15. Accepts(r)
  <2>1. UTIL_Leader_Of_View[pp.view] \notin Byzantine =>
          Pre_Prepare(UTIL_Leader_Of_View[pp.view], pp) \in msgs
    BY <1>1, <1>3 DEF Pre_Prepare, Message
  <2> QED
    BY <2>1, <1>2, <1>3, <1>5, <1>6, <1>10 DEF Accepts
<1>16. CountsPrepares(r) /\ CountsCommits(r)
  BY <1>3 DEF CountsPrepares, CountsCommits
<1>17. Certifies(r)
  <2> SUFFICES ASSUME NEW i \in Seqs, prepare_certificate'[r][i] # prepare_certificate[r][i]
               PROVE  /\ prepare_certificate[r][i] = NoPP
                      /\ i > ARU[r]
                      /\ prepare_certificate'[r][i] # NoPP
                      /\ prepare_certificate'[r][i] = pre_prepare'[r][i]
                      /\ Cardinality({q \in Servers : prepare'[r][i][q] = prepare_certificate'[r][i]})
                           >= Quorum - 1
    BY DEF Certifies
  <2>1. i = s /\ certified
    BY <1>8, <1>11
  <2>2. prepare_certificate'[r][i] = pp /\ pre_prepare'[r][i] = pp /\ prepare' = prepare
    BY <2>1, <1>3, <1>6, <1>8, <1>10, <1>11
  <2> QED
    BY <2>1, <2>2, <1>2, <1>5, <1>9
<1>18. Orders(r)
  BY <1>3 DEF Orders
<1>19. Executes(r)
  BY <1>3, SameExecution
<1>20. UNCHANGED <<View, view_change_done, report>>
  BY <1>3 DEF viewVars
<1>21. SlotTypes'
  BY <1>3, <1>10, <1>11, <1>14, <1>20 DEF SlotTypes
<1>22. \A q \in Correct \ {r} : Rests(q)
  BY <1>3, <1>10, <1>11, <1>14 DEF Rests
<1> QED
  BY <1>14, <1>15, <1>16, <1>17, <1>18, <1>19, <1>20, <1>21, <1>22 DEF Acts

(* More than nobody has voted: a certificate is made of typed votes. *)
LEMMA SomeoneVoted ==
  ASSUME NEW votes, NEW pp, Cardinality({q \in Servers : votes[q] = pp}) >= Quorum - 1
  PROVE  \E q \in Servers : votes[q] = pp
<1>1. Quorum - 1 >= 1
  BY FaultModel DEF Quorum
<1>2. Cardinality({}) = 0
  BY FS_EmptySet
<1>3. CASE {q \in Servers : votes[q] = pp} = {}
  BY <1>1, <1>2, <1>3, FaultModel DEF Quorum
<1> QED
  BY <1>3

(* ORDER_Process_Prepare *)
LEMMA ProcessPrepareActs ==
  ASSUME NEW r, NEW m, ORDER_Process_Prepare(r, m),
         m \in Arriving("PREPARE", r), SlotTypes, r \in Correct, SlotsOf(r)
  PROVE  Acts(r)
<1> DEFINE pp == m.pp
           s == m.pp.seq
           votes == [prepare[r][s] EXCEPT ![m.sender] = pp]
           mine == pre_prepare[r][s]
           certified == Gets_Certificate(r, s, mine, votes)
           sent == IF certified THEN Commit_After_Certificate(r, mine) ELSE {}
           certificate == [prepare_certificate[r] EXCEPT ![s] = IF certified THEN mine ELSE @]
           prepares == [prepare[r] EXCEPT ![s] = votes]
<1>1. m \in Message /\ m.type = "PREPARE" /\ (m.sender \notin Byzantine => m \in msgs)
  BY ArrivingType DEF SlotTypes, MessageType
<1>2. pp \in PrePrepare /\ s \in Seqs /\ pp.seq = s /\ m.sender \in Servers
  BY <1>1 DEF Message, PrePrepare
<1>3. /\ s > ARU[r]
      /\ m.sender # UTIL_Leader_Of_View[pp.view]
      /\ prepare[r][s][m.sender] = NoPP
      /\ prepare' = [prepare EXCEPT ![r][s] = votes]
      /\ prepare_certificate' = [prepare_certificate EXCEPT ![r][s] = IF certified THEN mine ELSE @]
      /\ msgs' = msgs \cup sent
      /\ UNCHANGED <<viewVars, execVars, poVars, pre_prepare, commit, ordered, seq>>
  BY DEF ORDER_Process_Prepare
<1>4. /\ prepare[r][s] \in [Servers -> PrePrepare \cup {NoPP}]
      /\ prepare[r] \in [Seqs -> [Servers -> PrePrepare \cup {NoPP}]]
      /\ made_eligible[r] \in [0 .. MaxSeq -> POSeqs \cup {Unpopulated}]
      /\ prepare_certificate[r] \in [Seqs -> PrePrepare \cup {NoPP}]
      /\ ARU[r] \in Int
  BY <1>2 DEF SlotTypes
<1>5. /\ votes \in [Servers -> PrePrepare \cup {NoPP}]
      /\ votes[m.sender] = pp
      /\ \A q \in Servers : q # m.sender => votes[q] = prepare[r][s][q]
  BY <1>2, <1>4
<1>6. certified =>
        /\ mine \in PrePrepare
        /\ prepare_certificate[r][s] = NoPP
        /\ Cardinality({q \in Servers : votes[q] = mine}) >= Quorum - 1
  <2> SUFFICES ASSUME certified
               PROVE  /\ mine \in PrePrepare
                      /\ prepare_certificate[r][s] = NoPP
                      /\ Cardinality({q \in Servers : votes[q] = mine}) >= Quorum - 1
    OBVIOUS
  <2>1. /\ mine # NoPP
        /\ prepare_certificate[r][s] = NoPP
        /\ Cardinality({q \in Servers : votes[q] = mine}) >= Quorum - 1
    BY DEF Gets_Certificate, ORDER_Prepare_Certificate_Ready
  <2> HIDE DEF votes, mine, certified
  <2>2. \E q \in Servers : votes[q] = mine
    BY <2>1, SomeoneVoted
  <2> QED
    BY <1>5, <2>1, <2>2
<1>7. /\ prepare_certificate' = [prepare_certificate EXCEPT ![r] = certificate]
      /\ prepare' = [prepare EXCEPT ![r] = prepares]
  BY <1>3 DEF SlotTypes
<1> HIDE DEF certified, mine, votes
<1>8. /\ certificate \in [Seqs -> PrePrepare \cup {NoPP}]
      /\ \A i \in Seqs : i # s => certificate[i] = prepare_certificate[r][i]
      /\ certified => certificate[s] = mine
      /\ ~certified => certificate[s] = prepare_certificate[r][s]
  BY <1>2, <1>4, <1>6
<1>9. /\ prepares \in [Seqs -> [Servers -> PrePrepare \cup {NoPP}]]
      /\ prepares[s] = votes
      /\ \A i \in Seqs : i # s => prepares[i] = prepare[r][i]
  BY <1>2, <1>4, <1>5
<1> HIDE DEF certificate, prepares
<1>10. /\ prepare' \in [Correct -> [Seqs -> [Servers -> PrePrepare \cup {NoPP}]]]
       /\ prepare'[r] = prepares
       /\ \A q \in Correct \ {r} : prepare'[q] = prepare[q]
  BY <1>7, <1>9 DEF SlotTypes
<1>11. /\ prepare_certificate' \in [Correct -> [Seqs -> PrePrepare \cup {NoPP}]]
       /\ prepare_certificate'[r] = certificate
       /\ \A q \in Correct \ {r} : prepare_certificate'[q] = prepare_certificate[q]
  BY <1>7, <1>8 DEF SlotTypes
<1>12. \A n \in sent : n \in msgs \/ Flooded(n) \/ NewCommit(r, n)
  <2> SUFFICES ASSUME NEW n \in sent
               PROVE  NewCommit(r, n)
    OBVIOUS
  <2>1. certified /\ view_change_done[r] /\ n = Commit(r, mine)
    BY DEF Commit_After_Certificate
  <2>2. mine.seq = s /\ mine \in PrePrepare
    BY <2>1, <1>2, <1>6, EntryType DEF SlotsOf, mine
  <2>3. n \in Message /\ n.type = "COMMIT" /\ n.sender = r /\ n.pp = mine
    BY <2>1, <2>2, FaultModel DEF Commit, Message, MessageType, Correct
  <2> QED
    BY <2>1, <2>2, <2>3, <1>2, <1>3, <1>6, <1>8, <1>11 DEF NewCommit
<1> HIDE DEF sent
<1>13. UNCHANGED <<ARU, ppARU, made_eligible, Pending_Execution, View, view_change_done, report>>
  BY <1>3 DEF execVars, viewVars
<1>14. Prepares(r, pre_prepare'[r], made_eligible[r], sent)
  <2>1. made_eligible' = [made_eligible EXCEPT ![r] = made_eligible[r]]
    BY <1>13 DEF SlotTypes
  <2> QED
    BY <1>3, <1>4, <1>13, <2>1, NoPreparesActs
<1>15. /\ Populates(r) /\ GoesUp(r) /\ Counts_Up(r) /\ Sends(r)
       /\ msgs' \subseteq Message
       /\ ppARU' \in [Correct -> 0 .. MaxSeq]
       /\ made_eligible' \in [Correct -> [0 .. MaxSeq -> POSeqs \cup {Unpopulated}]]
       /\ \A q \in Correct \ {r} : ppARU'[q] = ppARU[q] /\ made_eligible'[q] = made_eligible[q]
  BY <1>3, <1>12, <1>14, PreparesActs DEF FilledFrom
<1>16. Accepts(r) /\ CountsCommits(r) /\ Orders(r)
  BY <1>3 DEF Accepts, CountsCommits, Orders
<1>17. CountsPrepares(r)
  <2> SUFFICES ASSUME NEW i \in Seqs, NEW q \in Servers, prepare'[r][i][q] # prepare[r][i][q]
               PROVE  /\ prepare[r][i][q] = NoPP
                      /\ i > ARU[r]
                      /\ prepare'[r][i][q].seq = i
                      /\ q # UTIL_Leader_Of_View[prepare'[r][i][q].view]
                      /\ q \notin Byzantine => Prepare(q, prepare'[r][i][q]) \in msgs
    BY DEF CountsPrepares
  <2>1. i = s /\ q = m.sender /\ prepare'[r][i][q] = pp
    BY <1>5, <1>9, <1>10
  <2>2. m.sender \notin Byzantine => Prepare(m.sender, pp) \in msgs
    BY <1>1 DEF Prepare, Message
  <2> QED
    BY <2>1, <2>2, <1>2, <1>3
<1>18. Certifies(r)
  <2> SUFFICES ASSUME NEW i \in Seqs, prepare_certificate'[r][i] # prepare_certificate[r][i]
               PROVE  /\ prepare_certificate[r][i] = NoPP
                      /\ i > ARU[r]
                      /\ prepare_certificate'[r][i] # NoPP
                      /\ prepare_certificate'[r][i] = pre_prepare'[r][i]
                      /\ Cardinality({q \in Servers : prepare'[r][i][q] = prepare_certificate'[r][i]})
                           >= Quorum - 1
    BY DEF Certifies
  <2>1. i = s /\ certified
    BY <1>8, <1>11
  <2>2. prepare_certificate'[r][i] = mine /\ pre_prepare'[r][i] = mine /\ prepare'[r][i] = votes
    BY <2>1, <1>2, <1>3, <1>8, <1>9, <1>10, <1>11 DEF mine
  <2> QED
    BY <2>1, <2>2, <1>3, <1>6, EntryType
<1>19. Executes(r)
  BY <1>13, SameExecution
<1>20. SlotTypes'
  BY <1>3, <1>10, <1>11, <1>13, <1>15 DEF SlotTypes
<1>21. \A q \in Correct \ {r} : Rests(q)
  BY <1>3, <1>10, <1>11, <1>13 DEF Rests
<1> QED
  BY <1>13, <1>15, <1>16, <1>17, <1>18, <1>19, <1>20, <1>21 DEF Acts

(* ORDER_Process_Commit *)
LEMMA ProcessCommitActs ==
  ASSUME NEW r, NEW m, ORDER_Process_Commit(r, m),
         m \in Arriving("COMMIT", r), SlotTypes, r \in Correct, SlotsOf(r)
  PROVE  Acts(r)
<1> DEFINE pp == m.pp
           s == m.pp.seq
           votes == [commit[r][s] EXCEPT ![m.sender] = pp]
           ready == s \notin ordered[r] /\ ORDER_Commit_Certificate_Ready(pre_prepare[r][s], votes)
           me == Populate(pre_prepare[r], made_eligible[r], {s})
           commits == [commit[r] EXCEPT ![s] = votes]
<1>1. m \in Message /\ m.type = "COMMIT" /\ (m.sender \notin Byzantine => m \in msgs)
  BY ArrivingType DEF SlotTypes, MessageType
<1>2. pp \in PrePrepare /\ s \in Seqs /\ pp.seq = s /\ m.sender \in Servers
  BY <1>1 DEF Message, PrePrepare
<1>3. /\ s > ARU[r]
      /\ commit[r][s][m.sender] = NoPP
      /\ commit' = [commit EXCEPT ![r][s] = votes]
      /\ IF ready
         THEN /\ ordered' = [ordered EXCEPT ![r] = @ \cup {s}]
              /\ ORDER_Execute_Commit(r, s, me)
         ELSE UNCHANGED <<ordered, execVars, msgs>>
      /\ UNCHANGED <<viewVars, poVars, pre_prepare, prepare, prepare_certificate, seq>>
  BY DEF ORDER_Process_Commit
<1>4. /\ commit[r][s] \in [Servers -> PrePrepare \cup {NoPP}]
      /\ commit[r] \in [Seqs -> [Servers -> PrePrepare \cup {NoPP}]]
      /\ made_eligible[r] \in [0 .. MaxSeq -> POSeqs \cup {Unpopulated}]
      /\ pre_prepare[r] \in [Seqs -> LogEntry \cup {NoPP}]
      /\ ordered[r] \in SUBSET Seqs
      /\ ARU[r] \in Int /\ MaxSeq \in Nat
  BY <1>2, OrderingBounds DEF SlotTypes
<1>5. /\ votes \in [Servers -> PrePrepare \cup {NoPP}]
      /\ votes[m.sender] = pp
      /\ \A q \in Servers : q # m.sender => votes[q] = commit[r][s][q]
  BY <1>2, <1>4
<1>6. commit' = [commit EXCEPT ![r] = commits]
  BY <1>3 DEF SlotTypes
<1>7. ready =>
        /\ pre_prepare[r][s] # NoPP
        /\ s \notin ordered[r]
        /\ Cardinality({q \in Servers : votes[q] = pre_prepare[r][s]}) >= Quorum
  BY DEF ORDER_Commit_Certificate_Ready
<1> HIDE DEF votes
<1>8. /\ commits \in [Seqs -> [Servers -> PrePrepare \cup {NoPP}]]
      /\ commits[s] = votes
      /\ \A i \in Seqs : i # s => commits[i] = commit[r][i]
  BY <1>2, <1>4, <1>5
<1> HIDE DEF commits, ready
<1>9. /\ commit' \in [Correct -> [Seqs -> [Servers -> PrePrepare \cup {NoPP}]]]
      /\ commit'[r] = commits
      /\ \A q \in Correct \ {r} : commit'[q] = commit[q]
  BY <1>6, <1>8 DEF SlotTypes
<1>10. CountsCommits(r)
  <2> SUFFICES ASSUME NEW i \in Seqs, NEW q \in Servers, commit'[r][i][q] # commit[r][i][q]
               PROVE  /\ commit[r][i][q] = NoPP
                      /\ i > ARU[r]
                      /\ commit'[r][i][q].seq = i
                      /\ q \notin Byzantine => Commit(q, commit'[r][i][q]) \in msgs
    BY DEF CountsCommits
  <2>1. i = s /\ q = m.sender /\ commit'[r][i][q] = pp
    BY <1>5, <1>8, <1>9
  <2>2. m.sender \notin Byzantine => Commit(m.sender, pp) \in msgs
    BY <1>1 DEF Commit, Message
  <2> QED
    BY <2>1, <2>2, <1>2, <1>3
<1>11. UNCHANGED <<pre_prepare, prepare, prepare_certificate, seq, View, view_change_done, report>>
  BY <1>3 DEF viewVars
<1>12. Accepts(r) /\ CountsPrepares(r) /\ Certifies(r)
  BY <1>11 DEF Accepts, CountsPrepares, Certifies
<1>13. CASE ready
  <2>1. /\ ordered' \in [Correct -> SUBSET Seqs]
        /\ ordered'[r] = ordered[r] \cup {s}
        /\ \A q \in Correct \ {r} : ordered'[q] = ordered[q]
    <3>1. ordered' = [ordered EXCEPT ![r] = ordered[r] \cup {s}]
      BY <1>3, <1>13
    <3>2. ordered \in [Correct -> SUBSET Seqs] /\ ordered[r] \cup {s} \in SUBSET Seqs
      BY <1>2, <1>4 DEF SlotTypes
    <3> QED
      BY <3>1, <3>2
  <2>2. \A i \in 0 .. MaxSeq : me[i] =
          IF i = s /\ made_eligible[r][i] = Unpopulated THEN Made_Eligible(pre_prepare[r][i])
          ELSE made_eligible[r][i]
    BY DEF Populate, Eligible_At
  <2>3. Made_Eligible(pre_prepare[r][s]) \in POSeqs
    BY <1>2, <1>4, <1>7, <1>13, EntryType
  <2>4. me \in [0 .. MaxSeq -> POSeqs \cup {Unpopulated}]
    <3>1. \A i \in 0 .. MaxSeq : me[i] \in POSeqs \cup {Unpopulated}
      BY <1>4, <2>2, <2>3
    <3> QED
      BY <3>1 DEF Populate
  <2>5. s \in 0 .. MaxSeq
    BY <1>2, <1>4 DEF Seqs
  <2>6. me[s] # Unpopulated
    BY <2>2, <2>3, <2>5, OrderingBounds
  <2>7. ORDER_Execute_Commit(r, s, me)
    BY <1>3, <1>13
  <2>8. \A i \in 0 .. MaxSeq : made_eligible[r][i] # Unpopulated => me[i] = made_eligible[r][i]
    BY <2>2
  <2>8a. FilledFrom(r, pre_prepare[r], me)
    BY <1>2, <1>7, <1>13, <2>2 DEF FilledFrom
  <2> HIDE DEF me
  <2>9. /\ ARU' \in [Correct -> 0 .. MaxSeq]
        /\ Pending_Execution' \in [Correct -> SUBSET Seqs]
        /\ \A q \in Correct \ {r} :
             ARU'[q] = ARU[q] /\ Pending_Execution'[q] = Pending_Execution[q]
        /\ ARU'[r] >= ARU[r]
        /\ \A i \in Seqs : i <= ARU'[r] \/ i \in Pending_Execution'[r] =>
             i <= ARU[r] \/ i \in Pending_Execution[r] \/ i = s
        /\ Prepares(r, pre_prepare[r], me, {})
    BY <1>2, <1>11, <2>4, <2>7, <2>8, ExecuteCommitActs
  <2>10. /\ Populates(r) /\ GoesUp(r) /\ Counts_Up(r) /\ Sends(r)
         /\ msgs' \subseteq Message
         /\ ppARU' \in [Correct -> 0 .. MaxSeq]
         /\ made_eligible' \in [Correct -> [0 .. MaxSeq -> POSeqs \cup {Unpopulated}]]
         /\ \A q \in Correct \ {r} : ppARU'[q] = ppARU[q] /\ made_eligible'[q] = made_eligible[q]
    <3> DEFINE sent == {}
    <3>1. pre_prepare[r] = pre_prepare'[r] /\ seq' = seq
      BY <1>11
    <3>2. Prepares(r, pre_prepare[r], me, sent) /\ \A n \in sent : n \in msgs \/ Flooded(n) \/ NewCommit(r, n)
      BY <2>9
    <3> HIDE DEF sent
    <3> QED
      BY <2>8a, <3>1, <3>2, PreparesActs
  <2>11. made_eligible'[r][s] # Unpopulated
    BY <2>5, <2>6, <2>9 DEF Prepares, FillsIn
  <2>12. Orders(r)
    <3>1. commit'[r][s] = votes /\ pre_prepare'[r][s] = pre_prepare[r][s]
      BY <1>8, <1>9, <1>11
    <3>2. /\ pre_prepare'[r][s] # NoPP
          /\ Cardinality({q \in Servers : commit'[r][s][q] = pre_prepare'[r][s]}) >= Quorum
      BY <1>7, <1>13, <3>1
    <3>3. ordered'[r] \ ordered[r] = {s}
      BY <1>7, <1>13, <2>1
    <3> QED
      BY <1>3, <2>1, <2>11, <3>2, <3>3 DEF Orders
  <2>13. Executes(r)
    BY <1>7, <1>13, <2>1, <2>9 DEF Executes
  <2>14. SlotTypes'
    BY <1>9, <1>11, <2>1, <2>9, <2>10 DEF SlotTypes
  <2>15. \A q \in Correct \ {r} : Rests(q)
    BY <1>9, <1>11, <2>1, <2>9, <2>10 DEF Rests
  <2> QED
    BY <1>10, <1>11, <1>12, <2>10, <2>12, <2>13, <2>14, <2>15 DEF Acts
<1>14. CASE ~ready
  <2>1. UNCHANGED <<ordered, ARU, ppARU, made_eligible, Pending_Execution, msgs>>
    BY <1>3, <1>14 DEF execVars
  <2>2. Orders(r) /\ Populates(r) /\ Counts_Up(r) /\ Sends(r)
    BY <1>11, <2>1 DEF Orders, Populates, Counts_Up, Sends
  <2>3. Executes(r) /\ GoesUp(r)
    BY <2>1, SameExecution, SameAccepted
  <2>4. SlotTypes'
    BY <1>9, <1>11, <2>1 DEF SlotTypes
  <2>5. \A q \in Correct \ {r} : Rests(q)
    BY <1>9, <1>11, <2>1 DEF Rests
  <2> QED
    BY <1>10, <1>11, <1>12, <2>2, <2>3, <2>4, <2>5 DEF Acts
<1> QED
  BY <1>13, <1>14

(* ORDER_Attempt_To_Execute_Pending_Commits *)
LEMMA AttemptToExecuteActs ==
  ASSUME NEW r, ORDER_Attempt_To_Execute_Pending_Commits(r), SlotTypes, r \in Correct, SlotsOf(r)
  PROVE  Acts(r)
<1> DEFINE s == ARU[r] + 1
<1>1. /\ IF s \in Pending_Execution[r]
         THEN ORDER_Execute_Commit(r, s, made_eligible[r])
         ELSE UNCHANGED <<execVars, msgs>>
      /\ UNCHANGED <<viewVars, slotVars, cum_aru, seq>>
  BY DEF ORDER_Attempt_To_Execute_Pending_Commits
<1>2. UNCHANGED <<View, view_change_done, report, slotVars, seq, pre_prepare>>
  BY <1>1 DEF viewVars, slotVars
<1>3. CASE s \in Pending_Execution[r]
  <2>1. s \in Seqs /\ made_eligible[r] \in [0 .. MaxSeq -> POSeqs \cup {Unpopulated}]
    BY <1>3 DEF SlotTypes
  <2>2. /\ ARU' \in [Correct -> 0 .. MaxSeq]
        /\ Pending_Execution' \in [Correct -> SUBSET Seqs]
        /\ \A q \in Correct \ {r} :
             ARU'[q] = ARU[q] /\ Pending_Execution'[q] = Pending_Execution[q]
        /\ ARU'[r] >= ARU[r]
        /\ \A i \in Seqs : i <= ARU'[r] \/ i \in Pending_Execution'[r] =>
             i <= ARU[r] \/ i \in Pending_Execution[r] \/ i = s
        /\ Prepares(r, pre_prepare[r], made_eligible[r], {})
    BY <1>1, <1>2, <1>3, <2>1, ExecuteCommitActs
  <2>3. /\ Populates(r) /\ GoesUp(r) /\ Counts_Up(r) /\ Sends(r)
        /\ msgs' \subseteq Message
        /\ ppARU' \in [Correct -> 0 .. MaxSeq]
        /\ made_eligible' \in [Correct -> [0 .. MaxSeq -> POSeqs \cup {Unpopulated}]]
        /\ \A q \in Correct \ {r} : ppARU'[q] = ppARU[q] /\ made_eligible'[q] = made_eligible[q]
    <3>1. pre_prepare[r] = pre_prepare'[r] /\ seq' = seq
      BY <1>2
    <3> DEFINE sent == {}
    <3>2. /\ Prepares(r, pre_prepare[r], made_eligible[r], sent)
          /\ \A n \in sent : n \in msgs \/ Flooded(n) \/ NewCommit(r, n)
      BY <2>2
    <3> HIDE DEF sent
    <3> QED
      BY <3>1, <3>2, PreparesActs DEF FilledFrom
  <2>4. Executes(r)
    BY <1>3, <2>2 DEF Executes
  <2>5. SlotTypes'
    BY <1>2, <2>2, <2>3 DEF SlotTypes, slotVars
  <2>6. \A q \in Correct \ {r} : Rests(q)
    BY <1>2, <2>2, <2>3 DEF Rests, slotVars
  <2> QED
    BY <1>2, <2>3, <2>4, <2>5, <2>6, SameSlotVars DEF Acts
<1>4. CASE s \notin Pending_Execution[r]
  <2>1. UNCHANGED <<ARU, ppARU, made_eligible, Pending_Execution, msgs>>
    BY <1>1, <1>4 DEF execVars
  <2> QED
    BY <1>2, <2>1, NoSlotsActs
<1> QED
  BY <1>3, <1>4

(* A step of Ordering is one of these, or enters a view. *)
LEMMA OrderingActs ==
  ASSUME NEW r, Step(r), SlotTypes, r \in Correct, SlotsOf(r)
  PROVE  Acts(r) \/ VIEW_Start_View_Change(r)
<1>1. CASE ORDER_Send_One_Pre_Prepare(r)
  BY <1>1, SendPrePrepareActs
<1>2. CASE \E m \in Arriving("PRE_PREPARE", r) : ORDER_Process_Pre_Prepare(r, m)
  BY <1>2, ProcessPrePrepareActs
<1>3. CASE \E m \in Arriving("PRE_PREPARE", r) : Inconsistent_Pre_Prepare(r, m)
  <2>1. UNCHANGED <<View, view_change_done, report, slotVars, seq, ARU, ppARU,
                    made_eligible, Pending_Execution, msgs>>
    BY <1>3 DEF Inconsistent_Pre_Prepare, execVars
  <2> QED
    BY <2>1, NoSlotsActs
<1>4. CASE \E m \in Arriving("PREPARE", r) : ORDER_Process_Prepare(r, m)
  BY <1>4, ProcessPrepareActs
<1>5. CASE \E m \in Arriving("COMMIT", r) : ORDER_Process_Commit(r, m)
  BY <1>5, ProcessCommitActs
<1>6. CASE PRE_ORDER_Update_Cum_ARU(r)
  <2>1. UNCHANGED <<View, view_change_done, report, slotVars, seq, ARU, ppARU,
                    made_eligible, Pending_Execution, msgs>>
    BY <1>6 DEF PRE_ORDER_Update_Cum_ARU, viewVars
  <2> QED
    BY <2>1, NoSlotsActs
<1>7. CASE ORDER_Attempt_To_Execute_Pending_Commits(r)
  BY <1>7, AttemptToExecuteActs
<1> QED
  BY <1>1, <1>2, <1>3, <1>4, <1>5, <1>6, <1>7 DEF Step

-----------------------------------------------------------------------------
(* A slot that is filled in stays as it is in such a step. *)
LEMMA FilledInStays ==
  ASSUME NEW r, NEW s, Acts(r), Filled_In(r, s), s \in Seqs, SlotTypes
  PROVE  /\ pre_prepare'[r][s] = pre_prepare[r][s]
         /\ made_eligible'[r][s] = made_eligible[r][s]
         /\ Filled_In(r, s)'
<1>1. s \in 0 .. MaxSeq
  BY OrderingBounds DEF Seqs
<1> QED
  BY <1>1 DEF Filled_In, Acts, Accepts, Populates

(* These steps keep the slots of the replica that takes them in order. *)
LEMMA ActsKeepsSlots ==
  ASSUME NEW r, Acts(r), SlotTypes, r \in Correct, SlotsOf(r), UNCHANGED vcVars
  PROVE  SlotsOf(r)'
<1>1. /\ Populates(r) /\ Accepts(r) /\ Executes(r) /\ Orders(r) /\ GoesUp(r) /\ Counts_Up(r)
      /\ UNCHANGED <<View, view_change_done>> /\ SlotTypes'
  BY DEF Acts
<1>2. /\ ARU[r] \in Int /\ ppARU[r] \in Int /\ ARU'[r] \in Int /\ ppARU'[r] \in Int
      /\ seq[r] \in 1 .. MaxSeq + 1 /\ MaxSeq \in Nat
      /\ 0 \in 0 .. MaxSeq /\ 0 \in POSeqs /\ Unpopulated \notin POSeqs
  BY <1>1, OrderingBounds DEF SlotTypes, POSeqs
<1>3. made_eligible'[r][0] = 0
  BY <1>1, <1>2 DEF Populates, SlotsOf
<1>4. \A s \in Seqs : pre_prepare'[r][s] # NoPP =>
        pre_prepare'[r][s].seq = s /\ pre_prepare'[r][s].view <= View'[r]
  <2> SUFFICES ASSUME NEW s \in Seqs, pre_prepare'[r][s] # NoPP
               PROVE  pre_prepare'[r][s].seq = s /\ pre_prepare'[r][s].view <= View'[r]
    OBVIOUS
  <2>1. CASE pre_prepare'[r][s] = pre_prepare[r][s]
    BY <1>1, <2>1 DEF SlotsOf
  <2>2. CASE pre_prepare'[r][s] # pre_prepare[r][s]
    <3>1. pre_prepare'[r][s].seq = s /\ View_Permits(r, pre_prepare'[r][s].view)
      BY <1>1, <2>2 DEF Accepts
    <3>2. View[r] \in Int /\ View'[r] = View[r]
      BY <1>1 DEF SlotTypes, Views
    <3>3. pre_prepare'[r][s].view = View[r] \/ pre_prepare'[r][s].view < View[r]
      BY <3>1 DEF View_Permits
    <3>4. pre_prepare'[r][s].view \in Int
      BY <1>1, EntryType DEF SlotTypes, LogEntry, Views
    <3> QED
      BY <3>1, <3>2, <3>3, <3>4
  <2> QED
    BY <2>1, <2>2
<1>4a. \A s \in Seqs : prepare_certificate'[r][s] # NoPP =>
         prepare_certificate'[r][s].view <= View'[r]
  BY <1>1, <1>4 DEF Acts, Certifies, SlotsOf
<1>5. \A s \in Seqs : s <= ARU'[r] \/ s \in Pending_Execution'[r] => Filled_In(r, s)'
  <2> SUFFICES ASSUME NEW s \in Seqs, s <= ARU'[r] \/ s \in Pending_Execution'[r]
               PROVE  Filled_In(r, s)'
    OBVIOUS
  <2>1. CASE s <= ARU[r] \/ s \in Pending_Execution[r]
    <3>1. Filled_In(r, s)
      BY <2>1 DEF SlotsOf
    <3> QED
      BY <3>1, FilledInStays
  <2>2. CASE s \in ordered'[r] \ ordered[r]
    BY <1>1, <2>2 DEF Orders, Filled_In
  <2> QED
    BY <1>1, <2>1, <2>2 DEF Executes
<1>6. ASSUME view_change_done'[r]
      PROVE  /\ r \notin aborted'
             /\ \A s \in Seqs : s <= ppARU'[r] => Filled_In(r, s)'
             /\ \A s \in Seqs :
                  (s > ARU'[r] \/ s > ppARU'[r]) /\ pre_prepare'[r][s] # NoPP =>
                    pre_prepare'[r][s].view = View'[r]
             /\ I_Am_Leader(r)' => made_eligible'[r][seq'[r] - 1] # Unpopulated
  <2>0. view_change_done[r]
    BY <1>1, <1>6
  <2>1. r \notin aborted'
    BY <2>0 DEF SlotsOf, vcVars
  <2>2. \A s \in Seqs : s <= ppARU'[r] => Filled_In(r, s)'
    <3> SUFFICES ASSUME NEW s \in Seqs, s <= ppARU'[r]
                 PROVE  Filled_In(r, s)'
      OBVIOUS
    <3>1. CASE s <= ppARU[r]
      <4>1. Filled_In(r, s)
        BY <2>0, <3>1 DEF SlotsOf
      <4> QED
        BY <4>1, FilledInStays
    <3>2. CASE s > ppARU[r]
      BY <1>1, <2>0, <3>2 DEF GoesUp, Filled_In
    <3> QED
      BY <1>2, <3>1, <3>2 DEF Seqs
  <2>3. ASSUME NEW s \in Seqs, s > ARU'[r] \/ s > ppARU'[r], pre_prepare'[r][s] # NoPP
        PROVE  pre_prepare'[r][s].view = View'[r]
    <3>1. s > ARU[r] \/ s > ppARU[r]
      BY <1>1, <1>2, <2>3 DEF Executes, GoesUp, Seqs
    <3>2. CASE pre_prepare'[r][s] = pre_prepare[r][s]
      BY <1>1, <2>0, <2>3, <3>1, <3>2 DEF SlotsOf
    <3>3. CASE View_Permits(r, pre_prepare'[r][s].view)
      BY <1>1, <2>0, <3>3 DEF View_Permits
    <3> QED
      BY <1>1, <3>2, <3>3 DEF Accepts
  <2>4. I_Am_Leader(r)' => made_eligible'[r][seq'[r] - 1] # Unpopulated
    <3> SUFFICES ASSUME I_Am_Leader(r)'
                 PROVE  made_eligible'[r][seq'[r] - 1] # Unpopulated
      OBVIOUS
    <3>1. I_Am_Leader(r)
      BY <1>1 DEF I_Am_Leader
    <3>2. CASE seq'[r] = seq[r]
      <4>1. made_eligible[r][seq[r] - 1] # Unpopulated /\ seq[r] - 1 \in 0 .. MaxSeq
        BY <1>2, <2>0, <3>1 DEF SlotsOf
      <4> QED
        BY <1>1, <3>2, <4>1 DEF Populates
    <3>3. CASE \E n \in msgs' : Proposal(r, n)
      <4>1. seq'[r] = seq[r] + 1 /\ made_eligible'[r][seq[r]] # Unpopulated
        BY <3>3 DEF Proposal
      <4>2. seq'[r] - 1 = seq[r]
        BY <1>2, <4>1
      <4> QED
        BY <4>1, <4>2
    <3> QED
      BY <1>1, <3>2, <3>3 DEF Counts_Up
  <2> QED
    BY <2>1, <2>2, <2>3, <2>4
<1> QED
  BY <1>3, <1>4, <1>4a, <1>5, <1>6 DEF SlotsOf

(* The slots of the others are as they were. *)
LEMMA RestKeepsSlots ==
  ASSUME NEW q, Rests(q), q \in Correct, SlotsOf(q),
         View'[q] = View[q], view_change_done'[q] = view_change_done[q],
         q \in aborted' => q \in aborted
  PROVE  SlotsOf(q)'
<1>1. /\ seq'[q] = seq[q] /\ ARU'[q] = ARU[q] /\ ppARU'[q] = ppARU[q]
      /\ pre_prepare'[q] = pre_prepare[q] /\ made_eligible'[q] = made_eligible[q]
      /\ prepare_certificate'[q] = prepare_certificate[q]
      /\ Pending_Execution'[q] = Pending_Execution[q]
  BY DEF Rests
<1>2. \A s : Filled_In(q, s)' <=> Filled_In(q, s)
  BY <1>1 DEF Filled_In
<1>3. I_Am_Leader(q)' <=> I_Am_Leader(q)
  BY DEF I_Am_Leader
<1> QED
  BY <1>1, <1>2, <1>3 DEF SlotsOf

(* VIEW_Start_View_Change leaves the slots alone. *)
LEMMA StartViewChangeSlots ==
  ASSUME NEW r, VIEW_Start_View_Change(r), VCSlots, r \in Correct, UNCHANGED vcVars
  PROVE  VCSlots'
<1> DEFINE certs == {prepare_certificate[r][s] : s \in ARU[r] + 1 .. MaxSeq} \ {NoPP}
<1> PICK v \in Views :
      /\ v > View[r]
      /\ View' = [View EXCEPT ![r] = v]
      /\ view_change_done' = [view_change_done EXCEPT ![r] = FALSE]
      /\ report' = [report EXCEPT ![r] = @ \cup
                      {[view |-> v, execARU |-> ARU[r], pc_set |-> certs]}]
      /\ UNCHANGED <<slotVars, execVars, poVars, seq, msgs>>
  BY DEF VIEW_Start_View_Change
<1>1. SlotTypes /\ RoundTypes
  BY DEF VCSlots
<1>2. certs \in SUBSET PrePrepare
  BY <1>1, OrderingBounds DEF SlotTypes, Seqs
<1> HIDE DEF certs
<1>3. [view |-> v, execARU |-> ARU[r], pc_set |-> certs] \in Report
  BY <1>1, <1>2 DEF SlotTypes, Report
<1>4. report' \in [Correct -> SUBSET Report]
  BY <1>1, <1>3 DEF SlotTypes
<1>5. View' \in [Correct -> Views] /\ view_change_done' \in [Correct -> BOOLEAN]
  BY <1>1 DEF SlotTypes
<1>6. SlotTypes' /\ RoundTypes'
  BY <1>1, <1>4, <1>5 DEF SlotTypes, RoundTypes, slotVars, execVars, vcVars
<1>7. ASSUME NEW q \in Correct PROVE SlotsOf(q)'
  <2>1. UNCHANGED <<seq, ARU, ppARU, pre_prepare, prepare_certificate, made_eligible,
                    Pending_Execution>>
    BY DEF slotVars, execVars
  <2>2. CASE q = r
    <3>1. ~view_change_done'[q] /\ View[q] \in Int /\ View'[q] \in Int /\ View'[q] > View[q]
      BY <1>1, <2>2 DEF SlotTypes, Views
    <3>1a. ASSUME NEW s \in Seqs, pre_prepare[q][s] # NoPP
           PROVE  pre_prepare[q][s].seq = s /\ pre_prepare[q][s].view <= View'[q]
      <4>1. /\ pre_prepare[q][s].seq = s
            /\ pre_prepare[q][s].view <= View[q]
        BY <3>1a DEF VCSlots, SlotsOf
      <4>2. pre_prepare[q][s] \in LogEntry
        BY <1>1, <3>1a DEF SlotTypes
      <4>3. pre_prepare[q][s].view \in Int
        BY <4>2 DEF LogEntry, Views
      <4> QED
        BY <3>1, <4>1, <4>3
    <3>1b. ASSUME NEW s \in Seqs, prepare_certificate[q][s] # NoPP
           PROVE  prepare_certificate[q][s].view <= View'[q]
      <4>1. prepare_certificate[q][s].view <= View[q]
        BY <3>1b DEF VCSlots, SlotsOf
      <4>2. prepare_certificate[q][s] \in PrePrepare
        BY <1>1, <3>1b DEF SlotTypes
      <4>3. prepare_certificate[q][s].view \in Int
        BY <4>2 DEF PrePrepare, Views
      <4> QED
        BY <3>1, <4>1, <4>3
    <3>2. \A s : Filled_In(q, s)' <=> Filled_In(q, s)
      BY <2>1 DEF Filled_In
    <3> QED
      <4>1. /\ \A s \in Seqs : pre_prepare'[q][s] # NoPP =>
                 pre_prepare'[q][s].seq = s /\ pre_prepare'[q][s].view <= View'[q]
            /\ \A s \in Seqs : prepare_certificate'[q][s] # NoPP =>
                 prepare_certificate'[q][s].view <= View'[q]
        BY <2>1, <3>1a, <3>1b
      <4>2. /\ made_eligible'[q][0] = 0
            /\ \A s \in Seqs :
                 s <= ARU'[q] \/ s \in Pending_Execution'[q] => Filled_In(q, s)'
        BY <2>1, <3>2 DEF VCSlots, SlotsOf
      <4> QED
        BY <3>1, <4>1, <4>2 DEF SlotsOf
  <2>3. CASE q # r
    <3>1. View'[q] = View[q] /\ view_change_done'[q] = view_change_done[q]
      BY <1>1, <2>3 DEF SlotTypes
    <3>2. Rests(q) /\ aborted' = aborted
      BY DEF Rests, slotVars, execVars, vcVars
    <3> QED
      BY <3>1, <3>2, RestKeepsSlots DEF VCSlots
  <2> QED
    BY <2>2, <2>3
<1> QED
  BY <1>6, <1>7 DEF VCSlots

-----------------------------------------------------------------------------
(* A non-empty set of natural numbers has a smallest element, ...          *)
LEMMA SmallestExists ==
  ASSUME NEW T, T \in SUBSET Nat, T # {}
  PROVE  \E n \in T : \A m \in T : n <= m
<1> DEFINE R == OpToRel(<, Nat)
<1>1. IsWellFoundedOn(R, Nat)
  BY NatLessThanWellFounded, Zenon
<1>2. \A x, y \in Nat : <<y, x>> \in R <=> y < x
  BY DEF OpToRel
<1> HIDE DEF R
<1>3. PICK n \in T : \A m \in T : ~(<<m, n>> \in R)
  BY <1>1, WFMin
<1>4. \A m \in T : ~(m < n)
  BY <1>2, <1>3
<1> QED
  BY <1>4

(* ... and one up to a bound has a largest. *)
LEMMA LargestExists ==
  ASSUME NEW N, NEW T, N \in Nat, T \in SUBSET (0 .. N), T # {}
  PROVE  \E n \in T : \A m \in T : n >= m
<1> DEFINE U == {N - t : t \in T}
<1>1. \A t \in T : t \in 0 .. N /\ N - t \in Nat
  OBVIOUS
<1>2. U \in SUBSET Nat
  BY <1>1
<1>3. U # {}
  OBVIOUS
<1>4. PICK u \in U : \A w \in U : u <= w
  BY <1>2, <1>3, SmallestExists
<1>5. PICK n \in T : u = N - n
  BY <1>4
<1>6. \A m \in T : N - n <= N - m
  BY <1>4, <1>5
<1> QED
  BY <1>1, <1>5, <1>6

(* What a report counts up to in Start_Seq *)
Reported_Seqs(list, v) ==
  {0} \cup UNION {
    UNION {{rep.execARU} \cup {pp.seq : pp \in rep.pc_set} : rep \in Report_For(q, v)} : q \in list}

(* startSeq comes right after all that is reported executed or certified.  *)
LEMMA StartSeqLast ==
  ASSUME NEW list, NEW v, SlotTypes, list \in SUBSET Correct
  PROVE  /\ Start_Seq(list, v) \in 1 .. MaxSeq + 1
         /\ \A q \in list : \A rep \in Report_For(q, v) :
              /\ rep.execARU < Start_Seq(list, v)
              /\ \A pp \in rep.pc_set : pp.seq < Start_Seq(list, v)
<1> DEFINE seqs == Reported_Seqs(list, v)
           last == CHOOSE n \in seqs : \A m \in seqs : n >= m
<1>1. \A q \in list : \A rep \in Report_For(q, v) :
        /\ rep.execARU \in 0 .. MaxSeq
        /\ \A pp \in rep.pc_set : pp.seq \in 0 .. MaxSeq
  BY OrderingBounds DEF Report_For, SlotTypes, Report, PrePrepare, Seqs
<1>2. seqs \in SUBSET (0 .. MaxSeq) /\ seqs # {}
  <2>1. 0 \in 0 .. MaxSeq
    BY OrderingBounds
  <2> QED
    BY <1>1, <2>1 DEF Reported_Seqs
<1>3. \A q \in list : \A rep \in Report_For(q, v) :
        rep.execARU \in seqs /\ \A pp \in rep.pc_set : pp.seq \in seqs
  BY DEF Reported_Seqs
<1>4. Start_Seq(list, v) = 1 + last
  BY DEF Start_Seq, Reported_Seqs
<1> HIDE DEF seqs
<1>5. \E n \in seqs : \A m \in seqs : n >= m
  BY <1>2, OrderingBounds, LargestExists
<1>6. last \in seqs /\ \A m \in seqs : last >= m
  BY <1>5
<1> HIDE DEF last
<1>7. last \in 0 .. MaxSeq /\ MaxSeq \in Nat
  BY <1>2, <1>6, OrderingBounds
<1>8. \A m \in seqs : m \in Int /\ m < 1 + last
  BY <1>2, <1>6, <1>7
<1> QED
  BY <1>3, <1>4, <1>7, <1>8

(* What Full_PC_Set holds for a sequence number is a certificate that a    *)
(* server of the list reported, if one did.                                *)
LEMMA FullFromReports ==
  ASSUME NEW list, NEW v, NEW s, SlotTypes, list \in SUBSET Correct, s \in Seqs
  PROVE  \/ /\ Full_PC_Set(list, v)[s] = NoPP
            /\ \A q \in list : \A rep \in Report_For(q, v) : \A pp \in rep.pc_set : pp.seq # s
         \/ /\ Full_PC_Set(list, v)[s] \in PrePrepare
            /\ Full_PC_Set(list, v)[s].seq = s
            /\ \E q \in list : \E rep \in Report_For(q, v) : Full_PC_Set(list, v)[s] \in rep.pc_set
<1> DEFINE holders == Certified(list, v, s)
           first == CHOOSE q \in holders : \A p \in holders : Server_ID[q] <= Server_ID[p]
           pcs == UNION {rep.pc_set : rep \in Report_For(first, v)}
           full == CHOOSE pp \in pcs : pp.seq = s
<1>1. Full_PC_Set(list, v)[s] = IF holders = {} THEN NoPP ELSE full
  BY DEF Full_PC_Set
<1>2. CASE holders = {}
  BY <1>1, <1>2 DEF Certified
<1>3. CASE holders # {}
  <2>1. holders \subseteq list /\ holders \subseteq Servers
    BY DEF Certified, Correct
  <2>2. \A q \in holders : \E rep \in Report_For(q, v) : \E pp \in rep.pc_set : pp.seq = s
    BY DEF Certified
  <2> HIDE DEF holders
  <2>3. \E q \in holders : \A p \in holders : Server_ID[q] <= Server_ID[p]
    <3> DEFINE ids == {Server_ID[q] : q \in holders}
    <3>1. ids \in SUBSET Nat /\ ids # {}
      BY <1>3, <2>1, ViewChangeBounds
    <3>2. PICK i \in ids : \A j \in ids : i <= j
      BY <3>1, SmallestExists
    <3> QED
      BY <3>2
  <2>4. first \in holders
    BY <2>3
  <2> HIDE DEF first
  <2>5. PICK rep \in Report_For(first, v) : \E pp \in rep.pc_set : pp.seq = s
    BY <2>2, <2>4
  <2>6. \E pp \in pcs : pp.seq = s
    BY <2>5
  <2>7. full \in pcs /\ full.seq = s
    BY <2>6
  <2> HIDE DEF full
  <2>8. PICK rep2 \in Report_For(first, v) : full \in rep2.pc_set
    BY <2>7
  <2>9. rep2 \in Report
    BY <2>1, <2>4, <2>8 DEF Report_For, SlotTypes
  <2>10. full \in PrePrepare
    BY <2>8, <2>9 DEF Report
  <2>11. Full_PC_Set(list, v)[s] = full
    BY <1>1, <1>3
  <2> QED
    BY <2>1, <2>4, <2>7, <2>8, <2>10, <2>11
<1> QED
  BY <1>2, <1>3

-----------------------------------------------------------------------------
(* Slot s of what VIEW_Execute_Replay leaves r with, given the slots       *)
(* before it in f: the body of the recursion in Replayed_Slots.            *)
Slot_Zero ==
  [pp |-> [seq |-> 0, view |-> 0, last_executed |-> 0, proof_aru |-> 0], made_eligible |-> 0]

Slot_From(r, rep, f, s) ==
  LET full == Full_PC_Set(rep.list, View[r]) IN
  IF s = 0 THEN Slot_Zero
  ELSE IF s <= ARU[r]
  THEN [pp |-> pre_prepare[r][s], made_eligible |-> made_eligible[r][s]]
  ELSE IF s >= rep.startSeq
  THEN [pp |-> NoPP, made_eligible |-> Unpopulated]
  ELSE IF full[s] # NoPP
  THEN [pp |-> full[s], made_eligible |-> Made_Eligible(full[s])]
  ELSE LET no_op == No_Op(s, f[s - 1]) IN
       [pp |-> no_op, made_eligible |-> No_Op_Eligible(no_op, full, s, rep.startSeq)]

(* The slots filled with no-ops, which alone depend on the one before *)
Gap(r, rep, s) ==
  /\ s # 0 /\ ~(s <= ARU[r]) /\ ~(s >= rep.startSeq)
  /\ Full_PC_Set(rep.list, View[r])[s] = NoPP

(* The last slot up to s that is not a no-op, and the no-op that is copied *)
(* from it, one from the other, in slot s                                  *)
Base(r, rep, s) ==
  CHOOSE b \in {t \in 0 .. s : ~Gap(r, rep, t)} :
    \A t \in {u \in 0 .. s : ~Gap(r, rep, u)} : b >= t

Copied(r, rep, s) ==
  LET b == Base(r, rep, s)
      copied == Slot_From(r, rep, <<>>, b)
      pa == copied.pp.proof_aru
      e == copied.made_eligible
      no_op == [seq |-> s, view |-> 0,
                last_executed |-> IF s = b + 1 THEN e ELSE Larger(pa, e), proof_aru |-> pa]
  IN [pp |-> no_op,
      made_eligible |-> No_Op_Eligible(no_op, Full_PC_Set(rep.list, View[r]), s, rep.startSeq)]

(* Base is what it is meant to be. *)
LEMMA BaseLast ==
  ASSUME NEW r, NEW rep, NEW s, s \in Nat
  PROVE  /\ Base(r, rep, s) \in 0 .. s
         /\ ~Gap(r, rep, Base(r, rep, s))
         /\ \A t \in 0 .. s : ~Gap(r, rep, t) => Base(r, rep, s) >= t
<1> DEFINE T == {t \in 0 .. s : ~Gap(r, rep, t)}
<1>1. T \in SUBSET (0 .. s) /\ 0 \in T
  BY DEF Gap
<1>2. \E b \in T : \A t \in T : b >= t
  BY <1>1, LargestExists
<1>3. Base(r, rep, s) = CHOOSE b \in T : \A t \in T : b >= t
  BY DEF Base
<1>4. Base(r, rep, s) \in T /\ \A t \in T : Base(r, rep, s) >= t
  BY <1>2, <1>3
<1> QED
  BY <1>4

(* Two no-ops in a row are copied from the same slot. *)
LEMMA BaseOfGap ==
  ASSUME NEW r, NEW rep, NEW s, s \in Nat, Gap(r, rep, s)
  PROVE  /\ s >= 1
         /\ ~Gap(r, rep, s - 1) => Base(r, rep, s) = s - 1
         /\ Gap(r, rep, s - 1) => /\ Base(r, rep, s - 1) = Base(r, rep, s)
                                  /\ s # Base(r, rep, s) + 1
<1>1. s >= 1 /\ s - 1 \in Nat
  BY DEF Gap
<1> DEFINE b == Base(r, rep, s)
           c == Base(r, rep, s - 1)
<1>2. /\ b \in 0 .. s /\ ~Gap(r, rep, b) /\ \A t \in 0 .. s : ~Gap(r, rep, t) => b >= t
  BY BaseLast
<1>3. /\ c \in 0 .. s - 1 /\ ~Gap(r, rep, c) /\ \A t \in 0 .. s - 1 : ~Gap(r, rep, t) => c >= t
  BY <1>1, BaseLast
<1> HIDE DEF b, c
<1>4. b # s
  BY <1>2
<1>5. b \in 0 .. s - 1 /\ c \in 0 .. s
  BY <1>1, <1>2, <1>3, <1>4
<1>6. b = c
  <2>1. c >= b /\ b >= c
    BY <1>2, <1>3, <1>5
  <2> QED
    BY <2>1, <1>5
<1>7. ~Gap(r, rep, s - 1) => b = s - 1
  <2>1. s - 1 \in 0 .. s
    BY <1>1
  <2> QED
    BY <1>2, <1>5, <2>1
<1>8. Gap(r, rep, s - 1) => s # b + 1
  <2>1. Gap(r, rep, s - 1) => b # s - 1
    BY <1>2
  <2> QED
    BY <1>1, <1>5, <2>1
<1> QED
  BY <1>1, <1>6, <1>7, <1>8 DEF b, c

(* The recursion has a solution, so that Replayed_Slots is one.            *)
LEMMA ReplayedSlotsFrom ==
  ASSUME NEW r, NEW rep
  PROVE  Replayed_Slots(r, rep) =
           [s \in 0 .. MaxSeq |-> Slot_From(r, rep, Replayed_Slots(r, rep), s)]
<1> DEFINE g == [s \in 0 .. MaxSeq |->
                   IF Gap(r, rep, s) THEN Copied(r, rep, s) ELSE Slot_From(r, rep, <<>>, s)]
           full == Full_PC_Set(rep.list, View[r])
<1>1. ASSUME NEW s \in 0 .. MaxSeq
      PROVE  g[s] = Slot_From(r, rep, g, s)
  <2>1. CASE ~Gap(r, rep, s)
    <3>1. Slot_From(r, rep, <<>>, s) = Slot_From(r, rep, g, s)
      <4> HIDE DEF g
      <4> QED
        BY <2>1 DEF Gap, Slot_From
    <3> QED
      BY <2>1, <3>1
  <2>2. CASE Gap(r, rep, s)
    <3>1. s \in Nat /\ s >= 1 /\ s - 1 \in 0 .. MaxSeq
      <4>1. s \in Nat /\ MaxSeq \in Nat
        BY OrderingBounds
      <4>2. s # 0
        BY <2>2 DEF Gap
      <4> QED
        BY <4>1, <4>2
    <3> DEFINE b == Base(r, rep, s)
               copied == Slot_From(r, rep, <<>>, b)
               pa == copied.pp.proof_aru
               e == copied.made_eligible
               no_op == [seq |-> s, view |-> 0,
                         last_executed |-> IF s = b + 1 THEN e ELSE Larger(pa, e), proof_aru |-> pa]
    <3>2. g[s] = [pp |-> no_op, made_eligible |-> No_Op_Eligible(no_op, full, s, rep.startSeq)]
      BY <2>2 DEF Copied
    <3>3. No_Op(s, g[s - 1]) = no_op
      <4>1. CASE ~Gap(r, rep, s - 1)
        <5>1. b = s - 1 /\ s = b + 1
          BY <2>2, <3>1, <4>1, BaseOfGap
        <5>2. g[s - 1] = copied
          BY <3>1, <4>1, <5>1
        <5> HIDE DEF copied, b, g
        <5> QED
          BY <5>1, <5>2 DEF No_Op
      <4>2. CASE Gap(r, rep, s - 1)
        <5>1. Base(r, rep, s - 1) = b /\ s # b + 1
          BY <2>2, <3>1, <4>2, BaseOfGap
        <5> DEFINE before == [seq |-> s - 1, view |-> 0,
                              last_executed |-> IF s - 1 = b + 1 THEN e ELSE Larger(pa, e),
                              proof_aru |-> pa]
        <5>2. g[s - 1] = [pp |-> before,
                          made_eligible |-> No_Op_Eligible(before, full, s - 1, rep.startSeq)]
          BY <3>1, <4>2, <5>1 DEF Copied
        <5>3. full[(s - 1) + 1] = NoPP
          BY <2>2, <3>1 DEF Gap
        <5>4. No_Op_Eligible(before, full, s - 1, rep.startSeq) = Made_Eligible(before)
          <6> HIDE DEF before, full
          <6> QED
            BY <5>3 DEF No_Op_Eligible
        <5>5. Made_Eligible(before) = Larger(pa, IF s - 1 = b + 1 THEN e ELSE Larger(pa, e))
          BY DEF Made_Eligible
        <5>6. before.proof_aru = pa
          OBVIOUS
        <5> HIDE DEF pa, e, b, g, before
        <5>7. Made_Eligible(before) = Larger(pa, e)
          BY <5>5 DEF Larger
        <5>8. g[s - 1].made_eligible = Larger(pa, e) /\ g[s - 1].pp.proof_aru = pa
          BY <5>2, <5>4, <5>6, <5>7
        <5> QED
          BY <5>1, <5>8 DEF No_Op
      <4> QED
        BY <4>1, <4>2
    <3> HIDE DEF no_op, g, full
    <3>4. Slot_From(r, rep, g, s) =
            [pp |-> No_Op(s, g[s - 1]),
             made_eligible |-> No_Op_Eligible(No_Op(s, g[s - 1]), full, s, rep.startSeq)]
      BY <2>2 DEF Gap, Slot_From, full
    <3> QED
      BY <3>2, <3>3, <3>4
  <2> QED
    BY <2>1, <2>2
<1>2. g = [s \in 0 .. MaxSeq |-> g[s]]
  OBVIOUS
<1> HIDE DEF g
<1>3. g = [s \in 0 .. MaxSeq |-> Slot_From(r, rep, g, s)]
  BY <1>1, <1>2
<1>4. Replayed_Slots(r, rep) = CHOOSE h : h = [s \in 0 .. MaxSeq |-> Slot_From(r, rep, h, s)]
  BY DEF Replayed_Slots, Slot_From, Slot_Zero
<1> HIDE DEF Slot_From
<1> QED
  BY <1>3, <1>4

-----------------------------------------------------------------------------
(* The slots that a Replay leaves have their types. *)
LEMMA ReplayedSlotsTyped ==
  ASSUME NEW r, NEW rep, SlotTypes, r \in Correct, SlotsOf(r),
         rep \in Replay, rep.list \in SUBSET Correct
  PROVE  \A s \in Seqs : ~(s <= ARU[r]) /\ s < rep.startSeq =>
           LET fill == Replayed_Slots(r, rep) IN
           /\ fill[s].pp \in LogEntry
           /\ fill[s].pp.seq = s
           /\ fill[s].made_eligible \in POSeqs
<1> DEFINE f == Replayed_Slots(r, rep)
           full == Full_PC_Set(rep.list, View[r])
           good == {s \in 0 .. MaxSeq :
                      /\ f[s].pp.proof_aru \in POSeqs
                      /\ f[s].made_eligible \in POSeqs
                      /\ s \in Seqs => f[s].pp \in LogEntry /\ f[s].pp.seq = s}
           bad == {s \in 0 .. MaxSeq : s \notin good /\ (s = 0 \/ s <= ARU[r] \/ s < rep.startSeq)}
<1>1. \A s \in 0 .. MaxSeq : f[s] = Slot_From(r, rep, f, s)
  <2>1. f = [s \in 0 .. MaxSeq |-> Slot_From(r, rep, f, s)]
    BY ReplayedSlotsFrom
  <2> HIDE DEF f
  <2>2. \A s \in 0 .. MaxSeq : [t \in 0 .. MaxSeq |-> Slot_From(r, rep, f, t)][s] = Slot_From(r, rep, f, s)
    OBVIOUS
  <2> QED
    BY <2>1, <2>2, Zenon
<1>2. /\ MaxSeq \in Nat /\ ARU[r] \in 0 .. MaxSeq /\ rep.startSeq \in 1 .. MaxSeq + 1
      /\ 0 \in POSeqs /\ Unpopulated \notin POSeqs
      /\ pre_prepare[r] \in [Seqs -> LogEntry \cup {NoPP}]
      /\ made_eligible[r] \in [0 .. MaxSeq -> POSeqs \cup {Unpopulated}]
  BY OrderingBounds DEF SlotTypes, Replay, POSeqs
<1>3. \A s \in Seqs : full[s] # NoPP => full[s] \in PrePrepare /\ full[s].seq = s
  BY FullFromReports
<1> HIDE DEF f, full
<1>4. ASSUME NEW s \in 0 .. MaxSeq, s = 0 \/ s <= ARU[r] \/ s < rep.startSeq,
             s = 0 \/ s - 1 \in good
      PROVE  s \in good
  <2>1. CASE s = 0
    <3>1. f[s] = Slot_Zero
      BY <1>1, <2>1 DEF Slot_From
    <3> QED
      BY <1>2, <2>1, <3>1 DEF Slot_Zero, Seqs
  <2>2. CASE s # 0 /\ s <= ARU[r]
    <3>1. f[s] = [pp |-> pre_prepare[r][s], made_eligible |-> made_eligible[r][s]]
      BY <1>1, <2>2 DEF Slot_From
    <3>2. s \in Seqs
      BY <1>2, <2>2 DEF Seqs
    <3>3. Filled_In(r, s) /\ pre_prepare[r][s].seq = s
      BY <2>2, <3>2 DEF SlotsOf, Filled_In
    <3>4. pre_prepare[r][s] \in LogEntry /\ made_eligible[r][s] \in POSeqs
      BY <1>2, <3>2, <3>3 DEF Filled_In
    <3>5. pre_prepare[r][s].proof_aru \in POSeqs
      BY <3>4 DEF LogEntry
    <3> QED
      BY <3>1, <3>3, <3>4, <3>5
  <2>3. CASE s # 0 /\ ~(s <= ARU[r])
    <3>1. s \in Seqs /\ ~(s >= rep.startSeq) /\ s - 1 \in 0 .. MaxSeq /\ s - 1 \in good
      BY <1>2, <1>4, <2>3 DEF Seqs
    <3>2. CASE full[s] # NoPP
      <4>1. f[s] = [pp |-> full[s], made_eligible |-> Made_Eligible(full[s])]
        BY <1>1, <2>3, <3>1, <3>2 DEF Slot_From, full
      <4>2. full[s] \in LogEntry /\ full[s].seq = s /\ Made_Eligible(full[s]) \in POSeqs
        BY <1>3, <3>1, <3>2, EntryType
      <4>3. full[s].proof_aru \in POSeqs
        BY <4>2 DEF LogEntry
      <4> QED
        BY <4>1, <4>2, <4>3
    <3>3. CASE full[s] = NoPP
      <4> DEFINE no_op == No_Op(s, f[s - 1])
                 e == No_Op_Eligible(no_op, full, s, rep.startSeq)
      <4>1. f[s] = [pp |-> no_op, made_eligible |-> e]
        BY <1>1, <2>3, <3>1, <3>3 DEF Slot_From, full
      <4>2. f[s - 1].pp.proof_aru \in POSeqs /\ f[s - 1].made_eligible \in POSeqs
        BY <3>1
      <4>3. no_op \in LogEntry /\ no_op.seq = s /\ no_op.proof_aru \in POSeqs
        BY <3>1, <4>2, OrderingBounds DEF No_Op, LogEntry
      <4> HIDE DEF no_op
      <4>4. e \in POSeqs
        <5>1. CASE s + 1 < rep.startSeq /\ full[s + 1] # NoPP
          <6>1. s + 1 \in Seqs
            BY <1>2, <3>1, <5>1 DEF Seqs
          <6>2. full[s + 1].last_executed \in POSeqs
            BY <1>3, <5>1, <6>1 DEF PrePrepare
          <6> QED
            BY <5>1, <6>2 DEF No_Op_Eligible
        <5>2. CASE ~(s + 1 < rep.startSeq /\ full[s + 1] # NoPP)
          BY <4>3, <5>2, EntryType DEF No_Op_Eligible
        <5> QED
          BY <5>1, <5>2
      <4> HIDE DEF e
      <4> QED
        BY <4>1, <4>3, <4>4
    <3> QED
      BY <3>2, <3>3
  <2> QED
    BY <2>1, <2>2, <2>3
<1>5. bad = {}
  <2> SUFFICES ASSUME bad # {} PROVE FALSE
    OBVIOUS
  <2>1. bad \in SUBSET Nat
    BY <1>2
  <2> HIDE DEF bad
  <2>2. PICK s \in bad : \A t \in bad : s <= t
    BY <2>1, SmallestExists
  <2>3. s \in 0 .. MaxSeq /\ s \notin good /\ (s = 0 \/ s <= ARU[r] \/ s < rep.startSeq)
    BY <2>2 DEF bad
  <2>4. s # 0 /\ s - 1 \notin good
    BY <1>4, <2>3
  <2>5. s - 1 \in 0 .. MaxSeq /\ (s - 1 <= ARU[r] \/ s - 1 < rep.startSeq)
    BY <1>2, <2>3, <2>4
  <2>6. s - 1 \in bad
    BY <2>4, <2>5 DEF bad
  <2> QED
    BY <2>2, <2>3, <2>6
<1>6. ASSUME NEW s \in Seqs, ~(s <= ARU[r]), s < rep.startSeq
      PROVE  s \in good
  <2>1. s \in 0 .. MaxSeq
    BY <1>2 DEF Seqs
  <2> QED
    BY <1>5, <1>6, <2>1
<1> QED
  BY <1>6 DEF f

-----------------------------------------------------------------------------
(* What a list and its startSeq come from: reports of 2f+k+1 correct       *)
(* replicas.                                                               *)
Agreed(rep, v) ==
  /\ rep.list \subseteq Correct
  /\ Cardinality(rep.list) = Quorum
  /\ \A q \in rep.list : Report_For(q, v) # {}
  /\ rep.startSeq = Start_Seq(rep.list, v)

RoundsAgree ==
  \A v \in Views :
    /\ \A signed \in vc_partial_sig[v] : Agreed(signed[1], v)
    /\ replay[v] # NoReplay => Agreed(replay[v], v)

(* A replica reports once for a view, when it enters it, with certificates *)
(* of earlier views.                                                       *)
ReportsOnce ==
  \A q \in Correct :
    /\ \A rep \in report[q] : rep.view <= View[q]
    /\ \A rep \in report[q] : \A pp \in rep.pc_set : pp.view < rep.view
    /\ \A rep1, rep2 \in report[q] : rep1.view = rep2.view => rep1 = rep2

(* Slot s of r holds what VIEW_Execute_Replay puts there: the certified    *)
(* Pre-Prepare, or a no-op that starts where the slot before it stops.     *)
Holds_No_Op(r, s) ==
  pre_prepare[r][s] =
    [seq |-> s, view |-> 0, last_executed |-> made_eligible[r][s - 1],
     proof_aru |-> IF s = 1 THEN 0 ELSE pre_prepare[r][s - 1].proof_aru]

Rebuilt(r, s) ==
  LET rep == replay[View[r]]
      full == Full_PC_Set(rep.list, View[r])
  IN \/ /\ full[s] # NoPP
        /\ pre_prepare[r][s] = full[s]
        /\ made_eligible[r][s] = Made_Eligible(full[s])
     \/ /\ full[s] = NoPP
        /\ Holds_No_Op(r, s)
        /\ made_eligible[r][s] = No_Op_Eligible(pre_prepare[r][s], full, s, rep.startSeq)

(* The slots that VIEW_Execute_Replay leaves alone *)
Kept(r, s) == s <= ARU[r] \/ s \in Of_New_View(r, replay[View[r]])

(* What becomes of slot s of r: it is kept, rebuilt or emptied. *)
Replays_Slot(r, s) ==
  /\ Kept(r, s) =>
       /\ pre_prepare'[r][s] = pre_prepare[r][s]
       /\ made_eligible'[r][s] = made_eligible[r][s]
       /\ prepare'[r][s] = prepare[r][s]
       /\ commit'[r][s] = commit[r][s]
       /\ prepare_certificate'[r][s] = prepare_certificate[r][s]
       /\ s \in ordered'[r] <=> s \in ordered[r]
  /\ ~Kept(r, s) =>
       /\ s < replay[View[r]].startSeq =>
            /\ Rebuilt(r, s)'
            /\ Filled_In(r, s)'
            /\ pre_prepare'[r][s].seq = s
            /\ pre_prepare'[r][s].view < View[r]
       /\ ~(s < replay[View[r]].startSeq) =>
            pre_prepare'[r][s] = NoPP /\ made_eligible'[r][s] = Unpopulated
       /\ prepare'[r][s] = [q \in Servers |-> NoPP]
       /\ commit'[r][s] = [q \in Servers |-> NoPP]
       /\ prepare_certificate'[r][s] = NoPP
       /\ s \notin ordered'[r]

(* VIEW_Try_Execute_Replay, slot by slot *)
Replays(r) ==
  LET rep == replay[View[r]] IN
  /\ ~view_change_done[r]
  /\ rep # NoReplay
  /\ Complete_State(r, rep.list)
  /\ SlotTypes'
  /\ UNCHANGED <<View, report, msgs, vc_partial_sig, replay, replay_prepare, replay_commit>>
  /\ \A q \in Correct \ {r} :
       /\ Rests(q)
       /\ view_change_done'[q] = view_change_done[q]
       /\ q \in aborted' => q \in aborted
  /\ made_eligible'[r][0] = 0
  /\ \A s \in Seqs : Replays_Slot(r, s)
  /\ ARU'[r] >= ARU[r] /\ ppARU'[r] = ARU'[r]
  /\ \A s \in Seqs : s <= ARU'[r] \/ s \in Pending_Execution'[r] =>
       \/ s <= ARU[r]
       \/ s \in Pending_Execution[r] /\ Kept(r, s)
       \/ ~Kept(r, s) /\ s < rep.startSeq
  /\ aborted \subseteq aborted' /\ aborted' \subseteq aborted \cup {r}
  /\ \/ /\ ~view_change_done'[r]
        /\ r \in aborted'
     \/ /\ view_change_done'[r]
        /\ aborted' = aborted
        /\ ARU'[r] = rep.startSeq - 1
        /\ \A s \in Pending_Execution'[r] : s \in Pending_Execution[r] /\ Kept(r, s)
        /\ I_Am_Leader(r) => seq'[r] = rep.startSeq

(* VIEW_Try_Execute_Replay does to each slot what Replays says: the closed *)
(* form of Replayed_Slots, then the execution of what became contiguous.   *)
LEMMA TryExecuteReplays ==
  ASSUME NEW r, VIEW_Try_Execute_Replay(r), VCSlots, RoundsAgree, ReportsOnce, r \in Correct
  PROVE  Replays(r)
<1> DEFINE v == View[r]
           rep == replay[v]
           fill == Replayed_Slots(r, rep)
           full == Full_PC_Set(rep.list, v)
           replayed == ARU[r] + 1 .. rep.startSeq - 1
           kept == 1 .. ARU[r] \cup Of_New_View(r, rep)
           pps == [s \in Seqs |-> IF s \in kept THEN pre_prepare[r][s] ELSE fill[s].pp]
           me == [s \in 0 .. MaxSeq |->
                    IF s \in kept THEN made_eligible[r][s] ELSE fill[s].made_eligible]
           waiting == replayed \cup (Pending_Execution[r] \cap kept)
           Needs(s) == {q \in pps[s].last_executed + 1 .. me[s] : q > cum_aru[r]}
           Runs(s) == replayed # {} /\ s \in waiting /\ Needs(s) = {}
           nobody == [q \in Servers |-> NoPP]
           prepares == [s \in Seqs |-> IF s \in kept THEN prepare[r][s] ELSE nobody]
           commits == [s \in Seqs |-> IF s \in kept THEN commit[r][s] ELSE nobody]
           certs == [s \in Seqs |-> IF s \in kept THEN prepare_certificate[r][s] ELSE NoPP]
<1>1. /\ ~view_change_done[r]
      /\ rep # NoReplay
      /\ Complete_State(r, rep.list)
      /\ pre_prepare' = [pre_prepare EXCEPT ![r] = pps]
      /\ made_eligible' = [made_eligible EXCEPT ![r] = me]
      /\ prepare' = [prepare EXCEPT ![r] = prepares]
      /\ commit' = [commit EXCEPT ![r] = commits]
      /\ prepare_certificate' = [prepare_certificate EXCEPT ![r] = certs]
      /\ ordered' = [ordered EXCEPT ![r] = @ \cap kept]
      /\ UNCHANGED <<View, leader_suspected, report, poVars, msgs,
                     vc_partial_sig, replay, replay_prepare, replay_commit>>
  BY DEF VIEW_Try_Execute_Replay
<1>2. PICK n \in ARU[r] .. MaxSeq :
       /\ \A s \in ARU[r] + 1 .. n : Runs(s)
       /\ ARU' = [ARU EXCEPT ![r] = n]
       /\ ppARU' = [ppARU EXCEPT ![r] = n]
       /\ Pending_Execution' = [Pending_Execution EXCEPT ![r] = waiting \ (1 .. n)]
       /\ IF n = rep.startSeq - 1
          THEN /\ view_change_done' = [view_change_done EXCEPT ![r] = TRUE]
               /\ seq' = [seq EXCEPT ![r] = IF I_Am_Leader(r) THEN rep.startSeq ELSE @]
               /\ UNCHANGED aborted
          ELSE /\ aborted' = aborted \cup {r}
               /\ UNCHANGED <<view_change_done, seq>>
  BY DEF VIEW_Try_Execute_Replay
<1> HIDE DEF Needs
<1>3. /\ SlotTypes /\ SlotsOf(r) /\ v \in Views
      /\ MaxSeq \in Nat /\ ARU[r] \in 0 .. MaxSeq /\ n \in 0 .. MaxSeq /\ n >= ARU[r]
  BY OrderingBounds DEF VCSlots, SlotTypes
<1>4. rep \in Replay /\ rep.list \in SUBSET Correct /\ rep.startSeq \in 1 .. MaxSeq + 1
  BY <1>1, <1>3 DEF VCSlots, RoundTypes, RoundsAgree, Agreed, Replay
<1>5. \A s \in 0 .. MaxSeq : fill[s] = Slot_From(r, rep, fill, s)
  <2>1. fill = [s \in 0 .. MaxSeq |-> Slot_From(r, rep, fill, s)]
    BY ReplayedSlotsFrom
  <2> HIDE DEF fill, rep
  <2>2. \A s \in 0 .. MaxSeq : [t \in 0 .. MaxSeq |-> Slot_From(r, rep, fill, t)][s] = Slot_From(r, rep, fill, s)
    OBVIOUS
  <2> QED
    BY <2>1, <2>2, Zenon
<1>5a. /\ fill[0].made_eligible = 0
       /\ fill[0].pp.proof_aru = 0
  <2> HIDE DEF fill, rep
  <2>1. 0 \in 0 .. MaxSeq /\ Slot_From(r, rep, fill, 0) = Slot_Zero
    BY <1>3 DEF Slot_From
  <2>2. fill[0] = Slot_Zero
    BY <1>5, <2>1
  <2> QED
    BY <2>2 DEF Slot_Zero
<1>5b. \A s \in Seqs : s <= ARU[r] =>
         fill[s].pp = pre_prepare[r][s] /\ fill[s].made_eligible = made_eligible[r][s]
  <2> SUFFICES ASSUME NEW s \in Seqs, s <= ARU[r]
               PROVE  fill[s].pp = pre_prepare[r][s] /\ fill[s].made_eligible = made_eligible[r][s]
    OBVIOUS
  <2>1. s \in 0 .. MaxSeq /\ s # 0
    BY <1>3 DEF Seqs
  <2> HIDE DEF fill, rep
  <2>2. fill[s] = [pp |-> pre_prepare[r][s], made_eligible |-> made_eligible[r][s]]
    BY <1>5, <2>1 DEF Slot_From
  <2> QED
    BY <2>2
<1>6. \A s \in Seqs : ~(s <= ARU[r]) /\ s < rep.startSeq =>
        fill[s].pp \in LogEntry /\ fill[s].pp.seq = s /\ fill[s].made_eligible \in POSeqs
  <2> HIDE DEF rep
  <2> QED
    BY <1>3, <1>4, ReplayedSlotsTyped
<1>7. \A s \in Seqs : s \in kept <=> Kept(r, s)
  BY <1>3 DEF Kept, Seqs
<1>8. kept \subseteq Seqs
  BY <1>3 DEF Of_New_View, Seqs
<1>9. \A s \in Seqs : Kept(r, s) => s <= ARU[r] \/ ~(s < rep.startSeq)
  BY <1>4 DEF Kept, Of_New_View, Seqs
<1> HIDE DEF fill, kept, rep
<1>10. /\ pps \in [Seqs -> LogEntry \cup {NoPP}]
       /\ \A s \in Seqs : ~(s \in kept) /\ ~(s < rep.startSeq) =>
            pps[s] = NoPP /\ fill[s].made_eligible = Unpopulated
  <2>1. \A s \in Seqs : ~(s \in kept) /\ ~(s < rep.startSeq) => fill[s] = [pp |-> NoPP, made_eligible |-> Unpopulated]
    <3> SUFFICES ASSUME NEW s \in Seqs, ~(s \in kept), ~(s < rep.startSeq)
                 PROVE  fill[s] = [pp |-> NoPP, made_eligible |-> Unpopulated]
      OBVIOUS
    <3>1. s # 0 /\ ~(s <= ARU[r]) /\ s >= rep.startSeq /\ s \in 0 .. MaxSeq
      BY <1>3, <1>4, <1>7 DEF Kept, Seqs
    <3> QED
      BY <1>5, <3>1 DEF Slot_From
  <2>2. \A s \in Seqs : s \notin kept => fill[s].pp \in LogEntry \cup {NoPP}
    BY <1>6, <1>7, <2>1 DEF Kept
  <2>3. pre_prepare[r] \in [Seqs -> LogEntry \cup {NoPP}]
    BY <1>3 DEF SlotTypes
  <2> QED
    BY <2>1, <2>2, <2>3
<1>11. /\ me \in [0 .. MaxSeq -> POSeqs \cup {Unpopulated}]
       /\ me[0] = 0
  <2>1. 0 \in 0 .. MaxSeq /\ 0 \notin kept /\ 0 \in POSeqs
    BY <1>3, <1>8, OrderingBounds DEF Seqs, POSeqs
  <2>2. fill[0].made_eligible = 0
    BY <1>5a
  <2>3. \A s \in Seqs : s \notin kept => fill[s].made_eligible \in POSeqs \cup {Unpopulated}
    BY <1>6, <1>7, <1>10 DEF Kept
  <2>4. made_eligible[r] \in [0 .. MaxSeq -> POSeqs \cup {Unpopulated}]
    BY <1>3 DEF SlotTypes
  <2>5. \A s \in 0 .. MaxSeq : s = 0 \/ s \in Seqs
    BY <1>3 DEF Seqs
  <2>6. me[0] = 0
    BY <2>1, <2>2
  <2>7. \A s \in 0 .. MaxSeq : me[s] \in POSeqs \cup {Unpopulated}
    BY <2>1, <2>2, <2>3, <2>4, <2>5
  <2> QED
    BY <2>6, <2>7
<1>12. nobody \in [Servers -> PrePrepare \cup {NoPP}]
  OBVIOUS
<1> HIDE DEF nobody
<1>13. /\ prepares \in [Seqs -> [Servers -> PrePrepare \cup {NoPP}]]
       /\ commits \in [Seqs -> [Servers -> PrePrepare \cup {NoPP}]]
       /\ certs \in [Seqs -> PrePrepare \cup {NoPP}]
  BY <1>3, <1>12 DEF SlotTypes
<1>14. waiting \in SUBSET Seqs
  <2>1. replayed \subseteq Seqs
    BY <1>3, <1>4 DEF Seqs
  <2>2. Pending_Execution[r] \cap kept \subseteq Seqs
    BY <1>8
  <2> QED
    BY <2>1, <2>2
<1>15. /\ \A s \in Seqs : pps[s] = IF s \in kept THEN pre_prepare[r][s] ELSE fill[s].pp
       /\ \A s \in 0 .. MaxSeq : me[s] = IF s \in kept THEN made_eligible[r][s] ELSE fill[s].made_eligible
       /\ \A s \in Seqs : prepares[s] = IF s \in kept THEN prepare[r][s] ELSE nobody
       /\ \A s \in Seqs : commits[s] = IF s \in kept THEN commit[r][s] ELSE nobody
       /\ \A s \in Seqs : certs[s] = IF s \in kept THEN prepare_certificate[r][s] ELSE NoPP
  OBVIOUS
<1> HIDE DEF pps, me, prepares, commits, certs
<1>16. /\ pre_prepare' \in [Correct -> [Seqs -> LogEntry \cup {NoPP}]]
       /\ pre_prepare'[r] = pps
       /\ \A q \in Correct \ {r} : pre_prepare'[q] = pre_prepare[q]
  BY <1>1, <1>3, <1>10 DEF SlotTypes
<1>17. /\ made_eligible' \in [Correct -> [0 .. MaxSeq -> POSeqs \cup {Unpopulated}]]
       /\ made_eligible'[r] = me
       /\ \A q \in Correct \ {r} : made_eligible'[q] = made_eligible[q]
  BY <1>1, <1>3, <1>11 DEF SlotTypes
<1>18. /\ prepare' \in [Correct -> [Seqs -> [Servers -> PrePrepare \cup {NoPP}]]]
       /\ prepare'[r] = prepares
       /\ \A q \in Correct \ {r} : prepare'[q] = prepare[q]
  BY <1>1, <1>3, <1>13 DEF SlotTypes
<1>19. /\ commit' \in [Correct -> [Seqs -> [Servers -> PrePrepare \cup {NoPP}]]]
       /\ commit'[r] = commits
       /\ \A q \in Correct \ {r} : commit'[q] = commit[q]
  BY <1>1, <1>3, <1>13 DEF SlotTypes
<1>20. /\ prepare_certificate' \in [Correct -> [Seqs -> PrePrepare \cup {NoPP}]]
       /\ prepare_certificate'[r] = certs
       /\ \A q \in Correct \ {r} : prepare_certificate'[q] = prepare_certificate[q]
  BY <1>1, <1>3, <1>13 DEF SlotTypes
<1>21. /\ ordered' \in [Correct -> SUBSET Seqs]
       /\ ordered'[r] = ordered[r] \cap kept
       /\ \A q \in Correct \ {r} : ordered'[q] = ordered[q]
  BY <1>1, <1>3 DEF SlotTypes
<1>22. /\ ARU' \in [Correct -> 0 .. MaxSeq] /\ ARU'[r] = n
       /\ ppARU' \in [Correct -> 0 .. MaxSeq] /\ ppARU'[r] = n
       /\ \A q \in Correct \ {r} : ARU'[q] = ARU[q] /\ ppARU'[q] = ppARU[q]
  BY <1>2, <1>3 DEF SlotTypes
<1> DEFINE pending == waiting \ (1 .. n)
<1>23. pending \in SUBSET Seqs /\ Pending_Execution' = [Pending_Execution EXCEPT ![r] = pending]
  BY <1>2, <1>14
<1>24. /\ Pending_Execution' \in [Correct -> SUBSET Seqs]
       /\ Pending_Execution'[r] = pending
       /\ \A q \in Correct \ {r} : Pending_Execution'[q] = Pending_Execution[q]
  <2> HIDE DEF pending
  <2> QED
    BY <1>3, <1>23 DEF SlotTypes
<1>25. /\ view_change_done' \in [Correct -> BOOLEAN]
       /\ \A q \in Correct \ {r} : view_change_done'[q] = view_change_done[q]
  <2>1. CASE n = rep.startSeq - 1
    BY <1>2, <1>3, <2>1 DEF SlotTypes
  <2>2. CASE n # rep.startSeq - 1
    BY <1>2, <1>3, <2>2 DEF SlotTypes
  <2> QED
    BY <2>1, <2>2
<1>26. /\ seq' \in [Correct -> 1 .. MaxSeq + 1]
       /\ \A q \in Correct \ {r} : seq'[q] = seq[q]
  <2>1. CASE n = rep.startSeq - 1
    BY <1>2, <1>3, <1>4, <2>1 DEF SlotTypes
  <2>2. CASE n # rep.startSeq - 1
    BY <1>2, <1>3, <2>2 DEF SlotTypes
  <2> QED
    BY <2>1, <2>2
<1>27. SlotTypes'
  BY <1>1, <1>3, <1>16, <1>17, <1>18, <1>19, <1>20, <1>21, <1>22, <1>24, <1>25, <1>26 DEF SlotTypes
<1>28. \A q \in Correct \ {r} :
         Rests(q) /\ view_change_done'[q] = view_change_done[q] /\ (q \in aborted' => q \in aborted)
  BY <1>2, <1>16, <1>17, <1>18, <1>19, <1>20, <1>21, <1>22, <1>24, <1>25, <1>26 DEF Rests
<1>29. made_eligible'[r][0] = 0
  BY <1>11, <1>17
<1>30. \A s \in Seqs : s <= n \/ s \in pending =>
         \/ s <= ARU[r]
         \/ s \in Pending_Execution[r] /\ Kept(r, s)
         \/ ~Kept(r, s) /\ s < rep.startSeq
  <2> SUFFICES ASSUME NEW s \in Seqs, s <= n \/ s \in pending, ~(s <= ARU[r])
               PROVE  \/ s \in Pending_Execution[r] /\ Kept(r, s)
                      \/ ~Kept(r, s) /\ s < rep.startSeq
    OBVIOUS
  <2>1. s \in waiting
    <3>1. CASE s <= n
      <4>1. s \in ARU[r] + 1 .. n
        BY <1>3, <3>1 DEF Seqs
      <4> QED
        BY <1>2, <4>1
    <3> QED
      BY <3>1
  <2>2. CASE s \in replayed
    <3>1. s < rep.startSeq
      BY <1>3, <1>4, <2>2 DEF Seqs
    <3> QED
      BY <1>9, <3>1
  <2> QED
    BY <1>7, <2>1, <2>2
<1>31. ASSUME NEW s \in Seqs PROVE Replays_Slot(r, s)
  <2>0. s \in 0 .. MaxSeq /\ replay[View[r]] = rep
    BY <1>3 DEF Seqs, rep
  <2>1. CASE Kept(r, s)
    <3>1. s \in kept
      BY <1>7, <2>1
    <3> QED
      BY <1>15, <1>16, <1>17, <1>18, <1>19, <1>20, <1>21, <2>0, <2>1, <3>1 DEF Replays_Slot
  <2>2. CASE ~Kept(r, s)
    <3>1. s \notin kept
      BY <1>7, <2>2
    <3>2. /\ prepare'[r][s] = nobody /\ commit'[r][s] = nobody
          /\ prepare_certificate'[r][s] = NoPP /\ s \notin ordered'[r]
      BY <1>15, <1>18, <1>19, <1>20, <1>21, <3>1
    <3>3. pre_prepare'[r][s] = fill[s].pp /\ made_eligible'[r][s] = fill[s].made_eligible
      BY <1>15, <1>16, <1>17, <2>0, <3>1
    <3>4. ~(s < rep.startSeq) => pre_prepare'[r][s] = NoPP /\ made_eligible'[r][s] = Unpopulated
      BY <1>10, <1>16, <3>1, <3>3
    <3>5. ASSUME s < rep.startSeq PROVE Rebuilt(r, s)' /\ Filled_In(r, s)'
      <4>1. ~(s <= ARU[r]) /\ s # 0 /\ ~(s >= rep.startSeq)
        BY <1>3, <1>4, <2>2, <3>5 DEF Kept, Seqs
      <4>2. Filled_In(r, s)'
        BY <1>6, <3>3, <3>5, <4>1, EntryType, OrderingBounds DEF Filled_In
      <4>3. /\ replay'[View'[r]] = rep
            /\ Full_PC_Set(replay[View[r]].list, View[r])' = full
        <5>1. View' = View /\ report' = report /\ replay' = replay
          BY <1>1
        <5>2. \A q, w : Report_For(q, w)' = Report_For(q, w)
          BY <5>1 DEF Report_For
        <5>3. Full_PC_Set(replay[View[r]].list, View[r])' = Full_PC_Set(replay[View[r]].list, View[r])
          BY <5>1, <5>2 DEF Full_PC_Set, Certified, Report_For
        <5> QED
          BY <5>1, <5>3 DEF rep
      <4>4. CASE full[s] # NoPP
        <5>1. fill[s] = [pp |-> full[s], made_eligible |-> Made_Eligible(full[s])]
          BY <1>5, <2>0, <4>1, <4>4 DEF Slot_From
        <5> HIDE DEF full, v
        <5> QED
          BY <3>3, <4>2, <4>3, <4>4, <5>1 DEF Rebuilt, Made_Eligible, Larger
      <4>5. CASE full[s] = NoPP
        <5> DEFINE no_op == No_Op(s, fill[s - 1])
        <5>1. fill[s] = [pp |-> no_op, made_eligible |-> No_Op_Eligible(no_op, full, s, rep.startSeq)]
          BY <1>5, <2>0, <4>1, <4>5 DEF Slot_From
        <5>2. no_op = [seq |-> s, view |-> 0, last_executed |-> fill[s - 1].made_eligible,
                       proof_aru |-> fill[s - 1].pp.proof_aru]
          BY DEF No_Op
        <5>3. fill[s - 1].made_eligible = made_eligible'[r][s - 1]
          <6>1. CASE s = 1
            BY <1>5a, <1>29, <6>1
          <6>2. CASE s # 1
            <7>1. s - 1 \in Seqs /\ s - 1 # 0 /\ s - 1 \in 0 .. MaxSeq /\ s - 1 < rep.startSeq
              BY <1>3, <1>4, <3>5, <6>2 DEF Seqs
            <7>2. CASE s - 1 <= ARU[r]
              <8>1. s - 1 \in kept
                BY <1>7, <7>1, <7>2 DEF Kept
              <8>2. fill[s - 1].made_eligible = made_eligible[r][s - 1]
                BY <1>5b, <7>1, <7>2
              <8> QED
                BY <1>15, <1>17, <7>1, <8>1, <8>2
            <7>3. CASE ~(s - 1 <= ARU[r])
              <8>1. s - 1 \notin kept
                BY <1>7, <1>9, <7>1, <7>3
              <8> QED
                BY <1>15, <1>17, <7>1, <8>1
            <7> QED
              BY <7>2, <7>3
          <6> QED
            BY <6>1, <6>2
        <5>4. fill[s - 1].pp.proof_aru = IF s = 1 THEN 0 ELSE pre_prepare'[r][s - 1].proof_aru
          <6>1. CASE s = 1
            BY <1>5a, <6>1
          <6>2. CASE s # 1
            <7>1. s - 1 \in Seqs /\ s - 1 # 0 /\ s - 1 \in 0 .. MaxSeq /\ s - 1 < rep.startSeq
              BY <1>3, <1>4, <3>5, <6>2 DEF Seqs
            <7>2. CASE s - 1 <= ARU[r]
              <8>1. s - 1 \in kept
                BY <1>7, <7>1, <7>2 DEF Kept
              <8>2. fill[s - 1].pp = pre_prepare[r][s - 1]
                BY <1>5b, <7>1, <7>2
              <8> QED
                BY <1>15, <1>16, <6>2, <7>1, <8>1, <8>2
            <7>3. CASE ~(s - 1 <= ARU[r])
              <8>1. s - 1 \notin kept
                BY <1>7, <1>9, <7>1, <7>3
              <8> QED
                BY <1>15, <1>16, <6>2, <7>1, <8>1
            <7> QED
              BY <7>2, <7>3
          <6> QED
            BY <6>1, <6>2
        <5> HIDE DEF no_op, full, v
        <5>5. Holds_No_Op(r, s)'
          BY <3>3, <5>1, <5>2, <5>3, <5>4 DEF Holds_No_Op
        <5>6. made_eligible'[r][s] = No_Op_Eligible(pre_prepare'[r][s], full, s, rep.startSeq)
          BY <3>3, <5>1
        <5> QED
          BY <4>2, <4>3, <4>5, <5>5, <5>6 DEF Rebuilt, No_Op_Eligible, Made_Eligible, Larger
      <4> QED
        BY <4>4, <4>5
    <3>6. ASSUME s < rep.startSeq
          PROVE  pre_prepare'[r][s].seq = s /\ pre_prepare'[r][s].view < v
      <4>1. ~(s <= ARU[r]) /\ s # 0 /\ ~(s >= rep.startSeq)
        BY <1>3, <1>4, <2>2, <3>6 DEF Kept, Seqs
      <4>2. fill[s].pp.seq = s
        BY <1>6, <3>6, <4>1
      <4>3. CASE full[s] # NoPP
        <5>1. fill[s] = [pp |-> full[s], made_eligible |-> Made_Eligible(full[s])]
          BY <1>5, <2>0, <4>1, <4>3 DEF Slot_From
        <5>2. PICK q \in rep.list : \E rep1 \in Report_For(q, v) : full[s] \in rep1.pc_set
          BY <1>3, <1>4, <4>3, FullFromReports
        <5>3. full[s].view < v
          BY <1>4, <5>2 DEF ReportsOnce, Report_For
        <5> QED
          BY <3>3, <4>2, <5>1, <5>3
      <4>4. CASE full[s] = NoPP
        <5> DEFINE no_op == No_Op(s, fill[s - 1])
        <5>1. fill[s] = [pp |-> no_op, made_eligible |-> No_Op_Eligible(no_op, full, s, rep.startSeq)]
          BY <1>5, <2>0, <4>1, <4>4 DEF Slot_From
        <5>2. no_op.view = 0
          BY DEF No_Op
        <5>3. 0 < v
          BY <1>3 DEF Views
        <5> QED
          BY <3>3, <4>2, <5>1, <5>2, <5>3
      <4> QED
        BY <4>3, <4>4
    <3> QED
      BY <2>0, <2>2, <3>2, <3>4, <3>5, <3>6 DEF Replays_Slot, nobody
  <2> QED
    BY <2>1, <2>2
<1>32. CASE n = rep.startSeq - 1
  <2>1. view_change_done'[r] /\ aborted' = aborted
    BY <1>2, <1>3, <1>32 DEF SlotTypes
  <2>2. I_Am_Leader(r) => seq'[r] = rep.startSeq
    BY <1>2, <1>3, <1>32 DEF SlotTypes
  <2>3. \A s \in pending : s \in Pending_Execution[r] /\ Kept(r, s)
    <3> SUFFICES ASSUME NEW s \in pending PROVE s \in Pending_Execution[r] /\ Kept(r, s)
      OBVIOUS
    <3>1. s \in Seqs /\ s \notin 1 .. n
      BY <1>14
    <3>2. s \notin replayed
      BY <1>3, <1>4, <1>32, <3>1 DEF Seqs
    <3> QED
      BY <1>7, <3>1, <3>2
  <2> HIDE DEF pending
  <2> QED
    BY <1>1, <1>3, <1>22, <1>24, <1>27, <1>28, <1>29, <1>30, <1>31, <1>32, <2>1, <2>2, <2>3 DEF Replays, rep
<1>33. CASE n # rep.startSeq - 1
  <2>1. ~view_change_done'[r] /\ aborted' = aborted \cup {r}
    BY <1>1, <1>2, <1>33
  <2> HIDE DEF pending
  <2> QED
    BY <1>1, <1>3, <1>22, <1>24, <1>27, <1>28, <1>29, <1>30, <1>31, <2>1 DEF Replays, rep
<1> QED
  BY <1>32, <1>33

(* A Replay leaves the slots in order. *)
LEMMA ReplaysKeepsSlots ==
  ASSUME NEW r, Replays(r), VCSlots, r \in Correct, r \notin aborted
  PROVE  VCSlots'
<1> DEFINE rep == replay[View[r]]
<1>1. SlotTypes /\ RoundTypes /\ SlotsOf(r) /\ SlotTypes'
  BY DEF VCSlots, Replays
<1>2. rep \in Replay /\ rep.startSeq \in Nat
  BY <1>1 DEF Replays, RoundTypes, SlotTypes, Replay
<1>3. /\ ARU[r] \in Int /\ ARU'[r] \in Int /\ View[r] \in Int /\ View' = View
      /\ ARU'[r] >= ARU[r] /\ ppARU'[r] = ARU'[r] /\ made_eligible'[r][0] = 0
      /\ MaxSeq \in Nat /\ ARU'[r] \in 0 .. MaxSeq
      /\ 0 \in POSeqs /\ Unpopulated \notin POSeqs
  BY <1>1, OrderingBounds DEF SlotTypes, Views, Replays, POSeqs
<1>4. \A s \in Seqs : Replays_Slot(r, s)
  BY DEF Replays
<1>5. RoundTypes'
  BY <1>1 DEF RoundTypes, Replays
<1>6. ASSUME NEW q \in Correct \ {r} PROVE SlotsOf(q)'
  <2>1. /\ Rests(q) /\ View'[q] = View[q] /\ view_change_done'[q] = view_change_done[q]
        /\ q \in aborted' => q \in aborted
    BY DEF Replays
  <2> QED
    BY <2>1, RestKeepsSlots DEF VCSlots
<1>7. ASSUME NEW s \in Seqs, pre_prepare'[r][s] # NoPP
      PROVE  pre_prepare'[r][s].seq = s /\ pre_prepare'[r][s].view <= View[r]
  <2>1. CASE Kept(r, s)
    BY <1>1, <1>4, <1>7, <2>1 DEF Replays_Slot, SlotsOf
  <2>2. CASE ~Kept(r, s)
    <3>1. pre_prepare'[r][s].seq = s /\ pre_prepare'[r][s].view < View[r]
      BY <1>4, <1>7, <2>2 DEF Replays_Slot
    <3>2. pre_prepare'[r][s].view \in Int
      BY <1>1, <1>7 DEF SlotTypes, LogEntry, Views
    <3> QED
      BY <1>3, <3>1, <3>2
  <2> QED
    BY <2>1, <2>2
<1>8. ASSUME NEW s \in Seqs, prepare_certificate'[r][s] # NoPP
      PROVE  prepare_certificate'[r][s].view <= View[r]
  BY <1>1, <1>4, <1>8 DEF Replays_Slot, SlotsOf
<1>9. ASSUME NEW s \in Seqs, s <= ARU'[r] \/ s \in Pending_Execution'[r]
      PROVE  Filled_In(r, s)'
  <2>1. \/ s <= ARU[r]
        \/ s \in Pending_Execution[r] /\ Kept(r, s)
        \/ ~Kept(r, s) /\ s < rep.startSeq
    BY <1>9 DEF Replays
  <2>2. CASE ~Kept(r, s) /\ s < rep.startSeq
    BY <1>4, <2>2 DEF Replays_Slot
  <2>3. CASE Kept(r, s) /\ Filled_In(r, s)
    BY <1>4, <2>3 DEF Replays_Slot, Filled_In
  <2> QED
    BY <1>1, <2>1, <2>2, <2>3 DEF SlotsOf, Kept
<1>10. ASSUME view_change_done'[r]
       PROVE  /\ r \notin aborted'
              /\ \A s \in Seqs : s <= ppARU'[r] => Filled_In(r, s)'
              /\ \A s \in Seqs :
                   (s > ARU'[r] \/ s > ppARU'[r]) /\ pre_prepare'[r][s] # NoPP =>
                     pre_prepare'[r][s].view = View'[r]
              /\ I_Am_Leader(r)' => made_eligible'[r][seq'[r] - 1] # Unpopulated
  <2>1. /\ aborted' = aborted
        /\ ARU'[r] = rep.startSeq - 1
        /\ I_Am_Leader(r) => seq'[r] = rep.startSeq
    BY <1>10 DEF Replays
  <2>2. ASSUME NEW s \in Seqs, s > ARU'[r], pre_prepare'[r][s] # NoPP
        PROVE  pre_prepare'[r][s].view = View'[r]
    <3>1. s \in Int /\ ~(s <= ARU[r]) /\ ~(s < rep.startSeq)
      BY <1>2, <1>3, <2>1, <2>2 DEF Seqs
    <3>2. Kept(r, s) /\ s \in Of_New_View(r, rep)
      BY <1>4, <2>2, <3>1 DEF Replays_Slot, Kept
    <3>3. pre_prepare[r][s].view >= View[r] /\ pre_prepare'[r][s] = pre_prepare[r][s]
      BY <1>4, <3>2 DEF Of_New_View, Replays_Slot
    <3>4. pre_prepare'[r][s].view <= View[r] /\ pre_prepare'[r][s].view \in Int
      BY <1>1, <1>7, <2>2 DEF SlotTypes, LogEntry, Views
    <3> QED
      BY <1>3, <3>3, <3>4
  <2>3. ASSUME I_Am_Leader(r)' PROVE made_eligible'[r][seq'[r] - 1] # Unpopulated
    <3>1. seq'[r] - 1 = ARU'[r]
      BY <1>2, <1>3, <2>1, <2>3 DEF I_Am_Leader
    <3>2. CASE ARU'[r] = 0
      BY <1>3, <3>1, <3>2
    <3>3. CASE ARU'[r] # 0
      <4>1. ARU'[r] \in Seqs /\ ARU'[r] <= ARU'[r]
        BY <1>3, <3>3 DEF Seqs
      <4> QED
        BY <1>9, <3>1, <4>1 DEF Filled_In
    <3> QED
      BY <3>2, <3>3
  <2> QED
    BY <1>3, <1>9, <2>1, <2>2, <2>3
<1>11. SlotsOf(r)'
  BY <1>3, <1>7, <1>8, <1>9, <1>10 DEF SlotsOf
<1> QED
  BY <1>1, <1>5, <1>6, <1>11 DEF VCSlots

-----------------------------------------------------------------------------
(* What Commits mean for a Replay.  A correct replica commits to what it   *)
(* has a certificate for in its view, and does so outside a view change;   *)
(* its report for the next view counts what it committed to, as executed   *)
(* or in its PC_Set.                                                       *)
Commits_To(q, pp) ==
  /\ q \in Correct
  /\ pp.view <= View[q]
  /\ pp.view = View[q] => view_change_done[q] /\ prepare_certificate[q][pp.seq] = pp
  /\ \A rep \in report[q] :
       rep.view = pp.view + 1 => rep.execARU >= pp.seq \/ pp \in rep.pc_set

CommitsCounted ==
  \A m \in Sent("COMMIT") : m.sender \notin Byzantine => Commits_To(m.sender, m.pp)

(* The Commits that r has stored were sent, and an ordered slot has 2f+k+1 *)
(* of them.                                                                *)
CommitsStored(r) ==
  \A s \in Seqs :
    /\ \A q \in Servers : commit[r][s][q] # NoPP =>
         /\ commit[r][s][q].seq = s
         /\ q \notin Byzantine => Commit(q, commit[r][s][q]) \in msgs
    /\ s \in ordered[r] =>
         /\ pre_prepare[r][s] # NoPP
         /\ Cardinality({q \in Servers : commit[r][s][q] = pre_prepare[r][s]}) >= Quorum

(* What r has executed was ordered or comes from a Replay; what waits to   *)
(* be executed is ordered, unless r has failed an assertion in between.    *)
ExecutedFrom(r) ==
  /\ \A s \in Seqs : s <= ARU[r] =>
       \/ s \in ordered[r]
       \/ \E w \in Views : replay[w] # NoReplay /\ s < replay[w].startSeq
  /\ r \notin aborted =>
       \A s \in Pending_Execution[r] : s > ARU[r] => s \in ordered[r]

(* The system starts in view 1, which has no view change. *)
NoFirstReplay ==
  /\ \A r \in Correct : View[r] = 1 => view_change_done[r]
  /\ vc_partial_sig[1] = {} /\ replay[1] = NoReplay

VCInv ==
  /\ VCSlots /\ RoundsAgree /\ ReportsOnce
  /\ CommitsCounted /\ NoFirstReplay
  /\ \A r \in Correct : CommitsStored(r) /\ ExecutedFrom(r)

-----------------------------------------------------------------------------
(* A startSeq and what it was agreed on depend on the reports alone, and   *)
(* only on those of the servers in the list.                               *)
LEMMA SameReportsSameStart ==
  ASSUME NEW list, NEW w,
         \A q \in list : Report_For(q, w)' = Report_For(q, w)
  PROVE  Start_Seq(list, w)' = Start_Seq(list, w)
<1> DEFINE Of(q) == UNION {{rep.execARU} \cup {pp.seq : pp \in rep.pc_set} : rep \in Report_For(q, w)}
           OfNew(q) == UNION {{rep.execARU} \cup {pp.seq : pp \in rep.pc_set} : rep \in Report_For(q, w)'}
           seqs == {0} \cup UNION {Of(q) : q \in list}
           seqsNew == {0} \cup UNION {OfNew(q) : q \in list}
<1>1. \A q \in list : OfNew(q) = Of(q)
  OBVIOUS
<1>2. /\ Start_Seq(list, w) = 1 + CHOOSE n \in seqs : \A m \in seqs : n >= m
      /\ Start_Seq(list, w)' = 1 + CHOOSE n \in seqsNew : \A m \in seqsNew : n >= m
  BY DEF Start_Seq
<1> HIDE DEF Of, OfNew
<1>3. {Of(q) : q \in list} = {OfNew(q) : q \in list}
  BY <1>1
<1>4. seqs = seqsNew
  BY <1>3
<1> HIDE DEF seqs, seqsNew
<1> QED
  BY <1>2, <1>4

(* What a list was agreed on stays, as no report of a view is made twice. *)
LEMMA StillAgreed ==
  ASSUME NEW rep, NEW w, Agreed(rep, w),
         \A q \in Correct : Report_For(q, w) # {} => Report_For(q, w)' = Report_For(q, w)
  PROVE  Agreed(rep, w)'
<1>1. \A q \in rep.list : Report_For(q, w) # {} /\ Report_For(q, w)' = Report_For(q, w)
  BY DEF Agreed
<1>2. Start_Seq(rep.list, w)' = Start_Seq(rep.list, w)
  BY <1>1, SameReportsSameStart
<1> QED
  BY <1>1, <1>2 DEF Agreed

(* The round's messages, and so what they agree on, stay. *)
LEMMA SameRoundsAgree ==
  ASSUME RoundsAgree, UNCHANGED <<vc_partial_sig, replay>>,
         \A q \in Correct : \A w \in Views :
           Report_For(q, w) # {} => Report_For(q, w)' = Report_For(q, w)
  PROVE  RoundsAgree'
<1> SUFFICES ASSUME NEW w \in Views
             PROVE  /\ \A signed \in vc_partial_sig[w] : Agreed(signed[1], w)'
                    /\ replay[w] # NoReplay => Agreed(replay[w], w)'
  BY DEF RoundsAgree
<1> QED
  BY StillAgreed DEF RoundsAgree

(* Without a new report, what is reported for a view is the same. *)
LEMMA SameReports ==
  ASSUME report' = report
  PROVE  \A q, w : Report_For(q, w)' = Report_For(q, w)
BY DEF Report_For

(* ... and a replica still reports once. *)
LEMMA SameReportsOnce ==
  ASSUME ReportsOnce, UNCHANGED <<View, report>>
  PROVE  ReportsOnce'
BY DEF ReportsOnce

(* Whoever enters a view reports for it, with certificates of earlier      *)
(* views; the reports that were there stay.                                *)
LEMMA StartViewChangeReports ==
  ASSUME NEW r, VIEW_Start_View_Change(r), VCSlots, ReportsOnce, r \in Correct
  PROVE  /\ ReportsOnce'
         /\ \A q \in Correct : \A w \in Views :
              Report_For(q, w) # {} => Report_For(q, w)' = Report_For(q, w)
<1> DEFINE certs == {prepare_certificate[r][s] : s \in ARU[r] + 1 .. MaxSeq} \ {NoPP}
<1> PICK v \in Views :
      /\ v > View[r]
      /\ View' = [View EXCEPT ![r] = v]
      /\ report' = [report EXCEPT ![r] = @ \cup
                      {[view |-> v, execARU |-> ARU[r], pc_set |-> certs]}]
  BY DEF VIEW_Start_View_Change
<1>1. SlotTypes
  BY DEF VCSlots
<1> DEFINE new == [view |-> v, execARU |-> ARU[r], pc_set |-> certs]
<1>2. /\ View'[r] = v /\ report'[r] = report[r] \cup {new}
      /\ \A q \in Correct \ {r} : View'[q] = View[q] /\ report'[q] = report[q]
  BY <1>1 DEF SlotTypes
<1>3. new.view = v /\ new.pc_set = certs
  OBVIOUS
<1>4. \A pp \in certs : pp.view < v
  <2> SUFFICES ASSUME NEW s \in ARU[r] + 1 .. MaxSeq, prepare_certificate[r][s] # NoPP
               PROVE  prepare_certificate[r][s].view < v
    OBVIOUS
  <2>1. s \in Seqs
    BY <1>1, OrderingBounds DEF SlotTypes, Seqs
  <2>2. prepare_certificate[r][s] \in PrePrepare /\ prepare_certificate[r][s].view <= View[r]
    BY <1>1, <2>1 DEF VCSlots, SlotsOf, SlotTypes
  <2> QED
    BY <1>1, <2>2 DEF SlotTypes, PrePrepare, Views
<1> HIDE DEF new, certs
<1>5. /\ \A q \in Correct : View[q] \in Int
      /\ v \in Int
      /\ \A q \in Correct : \A rep \in report[q] : rep.view \in Int
  BY <1>1 DEF SlotTypes, Views, Report
<1>6. \A rep \in report[r] : rep.view # v
  BY <1>5 DEF ReportsOnce
<1>7. ASSUME NEW q \in Correct
      PROVE  /\ \A rep \in report'[q] : rep.view <= View'[q]
             /\ \A rep \in report'[q] : \A pp \in rep.pc_set : pp.view < rep.view
             /\ \A rep1, rep2 \in report'[q] : rep1.view = rep2.view => rep1 = rep2
  <2>1. CASE q = r
    <3>1. \A rep \in report[r] : rep.view <= v
      BY <1>5 DEF ReportsOnce
    <3> QED
      BY <1>2, <1>3, <1>4, <1>5, <1>6, <2>1, <3>1 DEF ReportsOnce
  <2>2. CASE q # r
    BY <1>2, <2>2 DEF ReportsOnce
  <2> QED
    BY <2>1, <2>2
<1>8. ASSUME NEW q \in Correct, NEW w \in Views, Report_For(q, w) # {}
      PROVE  Report_For(q, w)' = Report_For(q, w)
  <2>1. CASE q = r
    <3>1. w # v
      BY <1>6, <1>8, <2>1 DEF Report_For
    <3> QED
      BY <1>2, <1>3, <2>1, <3>1 DEF Report_For
  <2>2. CASE q # r
    BY <1>2, <2>2 DEF Report_For
  <2> QED
    BY <2>1, <2>2
<1> QED
  BY <1>7, <1>8 DEF ReportsOnce

-----------------------------------------------------------------------------
(* A step that only exchanges the messages of a view change *)
Agrees_On_Replay(r) ==
  \/ VIEW_Process_VC_List(r)
  \/ VIEW_Process_VC_Proof(r)
  \/ VIEW_Process_Replay(r)
  \/ VIEW_Process_Replay_Prepare(r)

(* Such a step adds to what was sent in the view of r, and leaves the      *)
(* slots alone; the leader's Replay is sent once.                          *)
LEMMA AgreesOnReplay ==
  ASSUME NEW r, Agrees_On_Replay(r), VCSlots, RoundsAgree, r \in Correct
  PROVE  /\ ~view_change_done[r]
         /\ UNCHANGED vars
         /\ RoundTypes'
         /\ aborted' = aborted
         /\ \A w \in Views : w # View[r] =>
              vc_partial_sig'[w] = vc_partial_sig[w] /\ replay'[w] = replay[w]
         /\ \A w \in Views : replay[w] # NoReplay => replay'[w] = replay[w]
         /\ RoundsAgree'
<1> DEFINE v == View[r]
<1>1. SlotTypes /\ RoundTypes /\ v \in Views
  BY DEF VCSlots, SlotTypes
<1>2. CASE VIEW_Process_VC_List(r)
  <2> PICK list \in VC_Lists[v] :
        LET signed == <<[list |-> list, startSeq |-> Start_Seq(list, v)], r>> IN
        /\ ~view_change_done[r]
        /\ list \subseteq Correct
        /\ Cardinality(list) = Quorum
        /\ Complete_State(r, list)
        /\ signed \notin vc_partial_sig[v]
        /\ vc_partial_sig' = [vc_partial_sig EXCEPT ![v] = @ \cup {signed}]
        /\ UNCHANGED <<vars, replay, replay_prepare, replay_commit, aborted>>
    BY <1>2 DEF VIEW_Process_VC_List
  <2> DEFINE new == [list |-> list, startSeq |-> Start_Seq(list, v)]
  <2>1. /\ vc_partial_sig'[v] = vc_partial_sig[v] \cup {<<new, r>>}
        /\ \A w \in Views : w # v => vc_partial_sig'[w] = vc_partial_sig[w]
    BY <1>1 DEF RoundTypes
  <2>2. new \in Replay
    BY <1>1, StartSeqLast DEF Replay, Correct
  <2>3. vc_partial_sig' \in [Views -> SUBSET (Replay \X Correct)]
    BY <1>1, <2>2 DEF RoundTypes
  <2>4. Agreed(new, v)
    BY DEF Complete_State, Agreed
  <2>5. <<new, r>>[1] = new
    OBVIOUS
  <2> HIDE DEF new
  <2>6. report' = report /\ replay' = replay
    BY DEF vars, viewVars
  <2>7. \A rep, w : Agreed(rep, w) => Agreed(rep, w)'
    BY <2>6, SameReports, StillAgreed
  <2>8. \A w \in Views : \A signed \in vc_partial_sig'[w] : Agreed(signed[1], w)
    BY <2>1, <2>4, <2>5 DEF RoundsAgree
  <2>9. \A w \in Views : replay'[w] # NoReplay => Agreed(replay'[w], w)
    BY <2>6 DEF RoundsAgree
  <2>10. RoundsAgree'
    BY <2>7, <2>8, <2>9 DEF RoundsAgree
  <2>11. RoundTypes'
    BY <1>1, <2>3 DEF RoundTypes
  <2> QED
    BY <2>1, <2>6, <2>10, <2>11
<1>3. CASE VIEW_Process_VC_Proof(r)
  <2> PICK rep \in {signed[1] : signed \in vc_partial_sig[v]} :
        /\ ~view_change_done[r]
        /\ replay[v] = NoReplay
        /\ replay' = [replay EXCEPT ![v] = rep]
        /\ UNCHANGED <<vars, vc_partial_sig, replay_prepare, replay_commit, aborted>>
    BY <1>3 DEF VIEW_Process_VC_Proof
  <2>1. Agreed(rep, v)
    BY <1>1 DEF RoundsAgree
  <2>2. rep \in Replay
    BY <1>1 DEF RoundTypes
  <2>3. replay'[v] = rep /\ \A w \in Views : w # v => replay'[w] = replay[w]
    BY <1>1 DEF RoundTypes
  <2>4. RoundTypes'
    BY <1>1, <2>2 DEF RoundTypes
  <2>5. report' = report
    BY DEF vars, viewVars
  <2>6. \A rp, w : Agreed(rp, w) => Agreed(rp, w)'
    BY <2>5, SameReports, StillAgreed
  <2>7. \A w \in Views : replay'[w] # NoReplay => Agreed(replay'[w], w)
    BY <2>1, <2>3 DEF RoundsAgree
  <2>8. RoundsAgree'
    BY <2>6, <2>7 DEF RoundsAgree
  <2> QED
    BY <2>3, <2>4, <2>8
<1>4. CASE VIEW_Process_Replay(r) \/ VIEW_Process_Replay_Prepare(r)
  <2>1. /\ ~view_change_done[r]
        /\ UNCHANGED <<vars, vc_partial_sig, replay, aborted>>
    BY <1>4 DEF VIEW_Process_Replay, VIEW_Process_Replay_Prepare
  <2>2. /\ replay_prepare' \in [Views -> SUBSET Correct]
        /\ replay_commit' \in [Views -> SUBSET Correct]
    BY <1>1, <1>4 DEF VIEW_Process_Replay, VIEW_Process_Replay_Prepare, RoundTypes
  <2>3. RoundTypes'
    BY <1>1, <2>1, <2>2 DEF RoundTypes
  <2>4. report' = report
    BY <2>1 DEF vars, viewVars
  <2>5. RoundsAgree'
    BY <2>1, <2>4, SameReports, SameRoundsAgree
  <2> QED
    BY <2>1, <2>3, <2>5
<1> QED
  BY <1>2, <1>3, <1>4 DEF Agrees_On_Replay

(* A step sends one Pre-Prepare at most. *)
Proposes_Once(r) ==
  \A m, n \in msgs' \ msgs : Proposal(r, m) /\ Proposal(r, n) => m = n

(* Only ORDER_Send_One_Pre_Prepare proposes, one Pre-Prepare at a time. *)
LEMMA OneProposal ==
  ASSUME NEW r, Step(r), SlotTypes, r \in Correct
  PROVE  Proposes_Once(r)
<1>1. CASE ORDER_Send_One_Pre_Prepare(r)
  <2>1. PICK m : msgs' = msgs \cup {m}
    BY <1>1 DEF ORDER_Send_One_Pre_Prepare
  <2> QED
    BY <2>1 DEF Proposes_Once
<1>2. CASE ~ORDER_Send_One_Pre_Prepare(r)
  <2>1. seq' = seq
    BY <1>2 DEF Step, ORDER_Process_Pre_Prepare, Inconsistent_Pre_Prepare, ORDER_Process_Prepare,
                ORDER_Process_Commit, PRE_ORDER_Update_Cum_ARU,
                ORDER_Attempt_To_Execute_Pending_Commits, VIEW_Start_View_Change
  <2>2. seq[r] \in Int
    BY DEF SlotTypes
  <2> QED
    BY <2>1, <2>2 DEF Proposes_Once, Proposal
<1> QED
  BY <1>1, <1>2

(* The steps of the composition, as the proofs take them *)
VC_Step(r) ==
  \/ Acts(r) /\ Proposes_Once(r) /\ UNCHANGED vcVars
  \/ VIEW_Start_View_Change(r) /\ UNCHANGED vcVars
  \/ Agrees_On_Replay(r)
  \/ Replays(r)

(* Every action of ViewChange is such a step. *)
LEMMA VCNextSteps ==
  ASSUME VCNext, VCSlots, RoundsAgree, ReportsOnce
  PROVE  \E r \in Correct \ aborted : VC_Step(r)
<1> PICK r \in Correct \ aborted :
      \/ Step(r) /\ UNCHANGED vcVars
      \/ VIEW_Process_VC_List(r)
      \/ VIEW_Process_VC_Proof(r)
      \/ VIEW_Process_Replay(r)
      \/ VIEW_Process_Replay_Prepare(r)
      \/ VIEW_Try_Execute_Replay(r)
  BY DEF VCNext
<1>1. CASE Step(r) /\ UNCHANGED vcVars
  BY <1>1, OrderingActs, OneProposal DEF VC_Step, VCSlots
<1>2. CASE VIEW_Try_Execute_Replay(r)
  BY <1>2, TryExecuteReplays DEF VC_Step
<1> QED
  BY <1>1, <1>2 DEF VC_Step, Agrees_On_Replay

(* Every step keeps the slots in order, and what the rounds agree on. *)
LEMMA StepKeepsSlots ==
  ASSUME NEW r, VC_Step(r), VCSlots, RoundsAgree, ReportsOnce, r \in Correct, r \notin aborted
  PROVE  VCSlots' /\ RoundsAgree' /\ ReportsOnce'
<1>1. SlotTypes /\ RoundTypes /\ SlotsOf(r)
  BY DEF VCSlots
<1>2. CASE Acts(r) /\ UNCHANGED vcVars
  <2>1. UNCHANGED <<View, report, view_change_done, vc_partial_sig, replay, aborted>>
    BY <1>2 DEF Acts, vcVars
  <2>2. SlotsOf(r)'
    BY <1>1, <1>2, ActsKeepsSlots
  <2>3. ASSUME NEW q \in Correct \ {r} PROVE SlotsOf(q)'
    <3>1. Rests(q) /\ View'[q] = View[q] /\ view_change_done'[q] = view_change_done[q] /\ aborted' = aborted
      BY <1>2, <2>1 DEF Acts
    <3> QED
      BY <3>1, RestKeepsSlots DEF VCSlots
  <2>4. RoundTypes'
    BY <1>1, <1>2 DEF RoundTypes, vcVars
  <2>5. VCSlots'
    BY <1>2, <2>2, <2>3, <2>4 DEF VCSlots, Acts
  <2> QED
    BY <2>1, <2>5, SameReports, SameRoundsAgree, SameReportsOnce
<1>3. CASE VIEW_Start_View_Change(r) /\ UNCHANGED vcVars
  <2>1. UNCHANGED <<vc_partial_sig, replay>>
    BY <1>3 DEF vcVars
  <2>2. VCSlots'
    BY <1>3, StartViewChangeSlots
  <2> QED
    BY <1>3, <2>1, <2>2, StartViewChangeReports, SameRoundsAgree
<1>4. CASE Agrees_On_Replay(r)
  <2>1. UNCHANGED vars /\ RoundTypes' /\ aborted' = aborted /\ RoundsAgree'
    BY <1>4, AgreesOnReplay
  <2>2. UNCHANGED <<View, view_change_done, report, seq, ARU, ppARU, pre_prepare, prepare, commit,
                    prepare_certificate, ordered, made_eligible, Pending_Execution, msgs>>
    BY <2>1 DEF vars, viewVars, slotVars, execVars
  <2>3. SlotTypes'
    BY <1>1, <2>2 DEF SlotTypes
  <2>4. ASSUME NEW q \in Correct PROVE SlotsOf(q)'
    <3>1. Rests(q)
      BY <2>2 DEF Rests
    <3> QED
      BY <2>1, <2>2, <3>1, RestKeepsSlots DEF VCSlots
  <2> QED
    BY <2>1, <2>2, <2>3, <2>4, SameReportsOnce DEF VCSlots
<1>5. CASE Replays(r)
  <2>1. UNCHANGED <<View, report, vc_partial_sig, replay>>
    BY <1>5 DEF Replays
  <2> QED
    BY <1>5, <2>1, ReplaysKeepsSlots, SameReports, SameRoundsAgree, SameReportsOnce
<1> QED
  BY <1>2, <1>3, <1>4, <1>5 DEF VC_Step

-----------------------------------------------------------------------------
(* CommitsCounted is kept: a Commit follows a certificate of the view, the *)
(* certificate stays for as long as the replica stays in the view, and     *)
(* VIEW_Start_View_Change reports it or has executed it.                   *)
LEMMA NewCommitView ==
  ASSUME NEW r, NEW n, Acts(r), NewCommit(r, n), SlotTypes, r \in Correct, SlotsOf(r)
  PROVE  n.pp.view = View[r]
<1> DEFINE s == n.pp.seq
<1>1. s \in Seqs /\ n.pp # NoPP /\ s > ARU[r] /\ view_change_done[r]
  BY OrderingBounds DEF NewCommit, Message, PrePrepare
<1>2. n.pp = pre_prepare'[r][s] /\ pre_prepare'[r][s] # NoPP
  BY <1>1 DEF Acts, Certifies, NewCommit
<1>3. CASE pre_prepare'[r][s] = pre_prepare[r][s]
  BY <1>1, <1>2, <1>3 DEF SlotsOf
<1>4. CASE View_Permits(r, pre_prepare'[r][s].view)
  BY <1>1, <1>2, <1>4 DEF View_Permits
<1> QED
  BY <1>1, <1>3, <1>4 DEF Acts, Accepts

(* A Commit is sent for the certificate of the view; whoever leaves the    *)
(* view reports it, and nothing takes it out of the report.                *)
LEMMA CommitsCountedStep ==
  ASSUME NEW r, VC_Step(r), VCSlots, VCSlots', RoundsAgree, ReportsOnce, CommitsCounted,
         r \in Correct
  PROVE  CommitsCounted'
<1>1. SlotTypes /\ SlotsOf(r)
  BY DEF VCSlots
<1>2. /\ \A q \in Correct : View[q] \in Int
      /\ \A m \in msgs : m.pp.view \in Int /\ m.pp.seq \in Seqs /\ m.pp # NoPP /\ m.pp.seq \in Int
      /\ \A q \in Correct : \A rep \in report[q] : rep.view \in Int
  BY <1>1, OrderingBounds DEF SlotTypes, Views, Message, PrePrepare, Report, Seqs
<1>3. CASE Acts(r) /\ UNCHANGED vcVars
  <2> SUFFICES ASSUME NEW m \in msgs', m.type = "COMMIT", m.sender \notin Byzantine
               PROVE  Commits_To(m.sender, m.pp)'
    BY DEF CommitsCounted, Sent
  <2>1. UNCHANGED <<View, view_change_done, report>>
    BY <1>3 DEF Acts
  <2>2. CASE m \in msgs
    <3> DEFINE q == m.sender
    <3>1. Commits_To(q, m.pp)
      BY <2>2 DEF CommitsCounted, Sent
    <3>2. q \in Correct /\ m.pp.seq \in Seqs /\ m.pp # NoPP
      BY <1>2, <2>2, <3>1 DEF Commits_To
    <3>3. prepare_certificate[q][m.pp.seq] = m.pp => prepare_certificate'[q][m.pp.seq] = m.pp
      BY <1>3, <3>2 DEF Acts, Certifies, Rests
    <3> HIDE DEF q
    <3> QED
      BY <2>1, <3>1, <3>3 DEF Commits_To, q
  <2>3. CASE m \notin msgs
    <3>1. NewCommit(r, m)
      BY <1>3, <2>3 DEF Acts, Sends, Flooded, Proposal, NewPrepare
    <3>2. /\ m.sender = r /\ m.pp.view = View[r] /\ view_change_done[r]
          /\ prepare_certificate'[r][m.pp.seq] = m.pp
      BY <1>1, <1>3, <3>1, NewCommitView DEF NewCommit
    <3>3. \A rep \in report[r] : rep.view # m.pp.view + 1
      BY <1>2, <3>2 DEF ReportsOnce
    <3>4. m.pp.view <= View[r]
      BY <1>2, <3>2
    <3> QED
      BY <2>1, <3>2, <3>3, <3>4 DEF Commits_To
  <2> QED
    BY <2>2, <2>3
<1>4. CASE VIEW_Start_View_Change(r) /\ UNCHANGED vcVars
  <2> DEFINE certs == {prepare_certificate[r][s] : s \in ARU[r] + 1 .. MaxSeq} \ {NoPP}
  <2> PICK v \in Views :
        /\ v > View[r]
        /\ View' = [View EXCEPT ![r] = v]
        /\ view_change_done' = [view_change_done EXCEPT ![r] = FALSE]
        /\ report' = [report EXCEPT ![r] = @ \cup
                        {[view |-> v, execARU |-> ARU[r], pc_set |-> certs]}]
        /\ UNCHANGED <<slotVars, execVars, poVars, seq, msgs>>
    BY <1>4 DEF VIEW_Start_View_Change
  <2> DEFINE new == [view |-> v, execARU |-> ARU[r], pc_set |-> certs]
  <2>1. /\ View'[r] = v /\ report'[r] = report[r] \cup {new}
        /\ \A q \in Correct \ {r} : /\ View'[q] = View[q] /\ report'[q] = report[q]
                                    /\ view_change_done'[q] = view_change_done[q]
        /\ UNCHANGED <<prepare_certificate, msgs>>
    BY <1>1 DEF SlotTypes, slotVars
  <2>2. new.view = v /\ new.pc_set = certs /\ new.execARU = ARU[r]
    OBVIOUS
  <2>3. ASSUME NEW m \in Sent("COMMIT"), m.sender \notin Byzantine
        PROVE  Commits_To(m.sender, m.pp)'
    <3> DEFINE q == m.sender
               pp == m.pp
    <3>1. Commits_To(q, pp) /\ q \in Correct /\ pp.view \in Int /\ pp.seq \in Seqs /\ pp # NoPP
      BY <1>2, <2>3 DEF CommitsCounted, Sent, Commits_To
    <3>2. CASE q # r
      BY <2>1, <3>1, <3>2 DEF Commits_To
    <3>3. CASE q = r
      <4> HIDE DEF certs, new
      <4>0. v \in Int /\ View[r] \in Int
        BY <1>2 DEF Views
      <4>1. pp.view < v
        BY <3>1, <3>3, <4>0 DEF Commits_To
      <4>2. ASSUME v = pp.view + 1 PROVE new.execARU >= pp.seq \/ pp \in new.pc_set
        <5>1. pp.view = View[r]
          BY <3>1, <3>3, <4>0, <4>2 DEF Commits_To
        <5>2. prepare_certificate[r][pp.seq] = pp
          BY <3>1, <3>3, <5>1 DEF Commits_To
        <5>3. ARU[r] \in Int /\ MaxSeq \in Int /\ pp.seq \in 1 .. MaxSeq
          BY <1>1, <3>1, OrderingBounds DEF SlotTypes, Seqs
        <5>4. CASE pp.seq > ARU[r]
          <6>1. pp.seq \in ARU[r] + 1 .. MaxSeq
            BY <5>3, <5>4
          <6> QED
            BY <2>2, <3>1, <5>2, <6>1 DEF certs
        <5>5. CASE ~(pp.seq > ARU[r])
          BY <2>2, <5>3, <5>5
        <5> QED
          BY <5>4, <5>5
      <4>3. View'[r] = v /\ pp.view <= v /\ pp.view # v
        BY <2>1, <3>1, <4>0, <4>1
      <4>4. \A rep \in report[r] :
              rep.view = pp.view + 1 => rep.execARU >= pp.seq \/ pp \in rep.pc_set
        BY <3>1, <3>3 DEF Commits_To
      <4>5. \A rep \in report'[r] :
              rep.view = pp.view + 1 => rep.execARU >= pp.seq \/ pp \in rep.pc_set
        BY <2>1, <2>2, <4>2, <4>4
      <4> QED
        BY <3>1, <3>3, <4>3, <4>5 DEF Commits_To
    <3> QED
      BY <3>2, <3>3
  <2> QED
    BY <2>1, <2>3 DEF CommitsCounted, Sent
<1>5. CASE Agrees_On_Replay(r)
  <2>1. UNCHANGED vars
    BY <1>5, AgreesOnReplay
  <2> QED
    BY <2>1 DEF CommitsCounted, Commits_To, Sent, vars, viewVars, slotVars
<1>6. CASE Replays(r)
  <2>1. /\ ~view_change_done[r] /\ UNCHANGED <<View, report, msgs>>
        /\ \A q \in Correct \ {r} : /\ prepare_certificate'[q] = prepare_certificate[q]
                                    /\ view_change_done'[q] = view_change_done[q]
    BY <1>6 DEF Replays, Rests
  <2>2. ASSUME NEW m \in Sent("COMMIT"), m.sender \notin Byzantine
        PROVE  Commits_To(m.sender, m.pp)'
    <3>1. Commits_To(m.sender, m.pp)
      BY <2>2 DEF CommitsCounted
    <3> QED
      BY <2>1, <3>1 DEF Commits_To
  <2> QED
    BY <2>1, <2>2 DEF CommitsCounted, Sent
<1> QED
  BY <1>3, <1>4, <1>5, <1>6 DEF VC_Step

(* The Commits stored stay sent, and an ordered slot keeps its 2f+k+1. *)
LEMMA CommitsStoredStep ==
  ASSUME NEW r, NEW p, VC_Step(r), VCSlots, RoundsAgree, CommitsStored(p),
         r \in Correct, p \in Correct
  PROVE  CommitsStored(p)'
<1>1. SlotTypes
  BY DEF VCSlots
<1>2. CASE p # r /\ (Acts(r) \/ Replays(r))
  <2>1. Rests(p) /\ msgs \subseteq msgs'
    BY <1>2 DEF Acts, Replays, Sends
  <2> QED
    BY <2>1 DEF Rests, CommitsStored
<1>3. CASE p = r /\ Acts(r)
  <2> SUFFICES ASSUME NEW s \in Seqs
               PROVE  /\ \A q \in Servers : commit'[r][s][q] # NoPP =>
                           /\ commit'[r][s][q].seq = s
                           /\ q \notin Byzantine => Commit(q, commit'[r][s][q]) \in msgs'
                      /\ s \in ordered'[r] =>
                           /\ pre_prepare'[r][s] # NoPP
                           /\ Cardinality({q \in Servers : commit'[r][s][q] = pre_prepare'[r][s]}) >= Quorum
    BY <1>3 DEF CommitsStored
  <2>1. CountsCommits(r) /\ Orders(r) /\ Accepts(r) /\ msgs \subseteq msgs'
    BY <1>3 DEF Acts, Sends
  <2>2. \A q \in Servers : commit'[r][s][q] # NoPP =>
          /\ commit'[r][s][q].seq = s
          /\ q \notin Byzantine => Commit(q, commit'[r][s][q]) \in msgs'
    <3> SUFFICES ASSUME NEW q \in Servers, commit'[r][s][q] # NoPP
                 PROVE  /\ commit'[r][s][q].seq = s
                        /\ q \notin Byzantine => Commit(q, commit'[r][s][q]) \in msgs'
      OBVIOUS
    <3>1. CASE commit'[r][s][q] = commit[r][s][q]
      BY <1>3, <2>1, <3>1 DEF CommitsStored
    <3>2. CASE commit'[r][s][q] # commit[r][s][q]
      BY <2>1, <3>2 DEF CountsCommits
    <3> QED
      BY <3>1, <3>2
  <2>3. CASE s \in ordered[r]
    <3>1. pre_prepare'[r][s] = pre_prepare[r][s] /\ pre_prepare[r][s] # NoPP
      BY <1>3, <2>1, <2>3 DEF Accepts, CommitsStored
    <3> DEFINE A == {q \in Servers : commit[r][s][q] = pre_prepare[r][s]}
               B == {q \in Servers : commit'[r][s][q] = pre_prepare'[r][s]}
    <3>2. A \in SUBSET Servers /\ B \in SUBSET Servers /\ A \subseteq B
      BY <2>1, <3>1 DEF CountsCommits
    <3>3. Cardinality(A) >= Quorum
      BY <1>3, <2>3 DEF CommitsStored
    <3> HIDE DEF A, B
    <3>4. Cardinality(B) >= Quorum
      BY <3>2, <3>3, VotersMonotone, FaultModel DEF Quorum
    <3> QED
      BY <2>2, <3>1, <3>4 DEF B
  <2>4. CASE s \in ordered'[r] \ ordered[r]
    BY <2>1, <2>2, <2>4 DEF Orders
  <2> QED
    BY <2>2, <2>3, <2>4
<1>4. CASE p = r /\ Replays(r)
  <2>1. msgs' = msgs /\ \A s \in Seqs : Replays_Slot(r, s)
    BY <1>4 DEF Replays
  <2>2. \A s \in Seqs :
          \/ /\ commit'[r][s] = commit[r][s] /\ pre_prepare'[r][s] = pre_prepare[r][s]
             /\ s \in ordered'[r] <=> s \in ordered[r]
          \/ commit'[r][s] = [q \in Servers |-> NoPP] /\ s \notin ordered'[r]
    BY <2>1 DEF Replays_Slot
  <2> QED
    BY <1>4, <2>1, <2>2 DEF CommitsStored
<1>5. CASE VIEW_Start_View_Change(r) \/ Agrees_On_Replay(r)
  <2>1. UNCHANGED <<slotVars, msgs>>
    BY <1>5, AgreesOnReplay DEF VIEW_Start_View_Change, vars
  <2> QED
    BY <2>1 DEF CommitsStored, slotVars
<1> QED
  BY <1>2, <1>3, <1>4, <1>5 DEF VC_Step

(* What is executed was ordered or comes from a Replay, still. *)
LEMMA ExecutedFromStep ==
  ASSUME NEW r, NEW p, VC_Step(r), VCSlots, RoundsAgree, ExecutedFrom(p),
         r \in Correct, p \in Correct, r \notin aborted
  PROVE  ExecutedFrom(p)'
<1>1. SlotTypes /\ RoundTypes
  BY DEF VCSlots
<1>2. \A w \in Views : replay[w] # NoReplay => replay'[w] = replay[w]
  BY AgreesOnReplay DEF VC_Step, vcVars, Replays
<1>3. CASE p # r /\ ((Acts(r) /\ UNCHANGED vcVars) \/ Replays(r))
  <2>1. Rests(p) /\ (p \in aborted => p \in aborted')
    BY <1>3 DEF Acts, Replays, vcVars
  <2> QED
    BY <1>2, <2>1 DEF Rests, ExecutedFrom
<1>4. CASE p = r /\ Acts(r) /\ UNCHANGED vcVars
  <2>1. Executes(r) /\ Orders(r) /\ aborted' = aborted /\ replay' = replay
    BY <1>4 DEF Acts, vcVars
  <2>2. Pending_Execution'[r] \subseteq Seqs /\ ARU[r] \in Int
    BY <1>4, <1>1 DEF Acts, SlotTypes
  <2>3. \A s \in Pending_Execution[r] : s > ARU[r] => s \in ordered[r]
    BY <1>4 DEF ExecutedFrom
  <2>3a. ARU'[r] \in Int /\ ARU'[r] >= ARU[r] /\ Seqs \subseteq Int
    BY <1>1, <1>4, <2>1 DEF Acts, SlotTypes, Executes, Seqs
  <2>4. ASSUME NEW s \in Seqs, s <= ARU'[r]
        PROVE  \/ s \in ordered'[r]
               \/ \E w \in Views : replay[w] # NoReplay /\ s < replay[w].startSeq
    <3>1. s \in Int /\ (s <= ARU[r] \/ s > ARU[r])
      BY <2>2, <2>3a
    <3> QED
      BY <1>4, <2>1, <2>3, <2>4, <3>1 DEF Executes, Orders, ExecutedFrom
  <2>5. ASSUME NEW s \in Pending_Execution'[r], s > ARU'[r] PROVE s \in ordered'[r]
    <3>1. s \in Seqs /\ s > ARU[r] /\ ~(s <= ARU[r])
      <4>1. s \in Seqs /\ s \in Int
        BY <2>2, <2>3a
      <4> QED
        BY <2>2, <2>3a, <2>5, <4>1
    <3> QED
      BY <2>1, <2>3, <3>1 DEF Executes, Orders
  <2> QED
    BY <1>4, <2>1, <2>4, <2>5 DEF ExecutedFrom
<1>5. CASE p = r /\ Replays(r)
  <2>1. /\ replay' = replay
        /\ View[r] \in Views /\ replay[View[r]] # NoReplay
        /\ \A s \in Seqs : Replays_Slot(r, s)
        /\ Pending_Execution'[r] \subseteq Seqs
    BY <1>1, <1>5 DEF Replays, SlotTypes
  <2>2a. ARU[r] \in Int /\ ARU'[r] \in Int /\ ARU'[r] >= ARU[r] /\ Seqs \subseteq Int
    BY <1>1, <1>5 DEF Replays, SlotTypes, Seqs
  <2>2. ASSUME NEW s \in Seqs, s <= ARU'[r]
        PROVE  \/ s \in ordered'[r]
               \/ \E w \in Views : replay[w] # NoReplay /\ s < replay[w].startSeq
    <3>1. \/ s <= ARU[r]
          \/ s \in Pending_Execution[r] /\ Kept(r, s)
          \/ s < replay[View[r]].startSeq
      BY <1>5, <2>2 DEF Replays
    <3>2. Kept(r, s) => (s \in ordered'[r] <=> s \in ordered[r])
      BY <2>1 DEF Replays_Slot
    <3>3. s <= ARU[r] => Kept(r, s)
      BY DEF Kept
    <3>4. s <= ARU[r] \/ s > ARU[r]
      BY <2>2a
    <3> QED
      BY <1>5, <2>1, <3>1, <3>2, <3>3, <3>4 DEF ExecutedFrom
  <2>3. ASSUME r \notin aborted', NEW s \in Pending_Execution'[r], s > ARU'[r]
        PROVE  s \in ordered'[r]
    <3>1. s \in Pending_Execution[r] /\ Kept(r, s) /\ s \in Seqs
      BY <1>5, <2>1, <2>3 DEF Replays
    <3>2. s > ARU[r]
      <4>1. s \in Int
        BY <2>2a, <3>1
      <4> QED
        BY <2>2a, <2>3, <4>1
    <3> QED
      BY <1>5, <2>1, <3>1, <3>2 DEF ExecutedFrom, Replays_Slot
  <2> QED
    BY <1>5, <2>1, <2>2, <2>3 DEF ExecutedFrom
<1>6. CASE (VIEW_Start_View_Change(r) /\ UNCHANGED vcVars) \/ Agrees_On_Replay(r)
  <2>1. UNCHANGED <<ARU, ordered, Pending_Execution, aborted>>
    BY <1>6, AgreesOnReplay DEF VIEW_Start_View_Change, vars, vcVars, slotVars, execVars
  <2> QED
    BY <1>2, <2>1 DEF ExecutedFrom
<1> QED
  BY <1>3, <1>4, <1>5, <1>6 DEF VC_Step

(* Nothing is replayed in view 1. *)
LEMMA NoFirstReplayStep ==
  ASSUME NEW r, VC_Step(r), VCSlots, RoundsAgree, NoFirstReplay, r \in Correct
  PROVE  NoFirstReplay'
<1>1. SlotTypes /\ 1 \in Views
  BY OrderingBounds DEF VCSlots, Views
<1>2. CASE Acts(r) /\ UNCHANGED vcVars
  BY <1>2 DEF Acts, vcVars, NoFirstReplay
<1>3. CASE VIEW_Start_View_Change(r) /\ UNCHANGED vcVars
  <2>1. /\ View'[r] > View[r] /\ View'[r] \in Int /\ View[r] \in Int /\ View[r] >= 1
        /\ \A q \in Correct \ {r} : View'[q] = View[q] /\ view_change_done'[q] = view_change_done[q]
    BY <1>1, <1>3 DEF VIEW_Start_View_Change, SlotTypes, Views
  <2> QED
    BY <1>3, <2>1 DEF NoFirstReplay, vcVars
<1>4. CASE Agrees_On_Replay(r)
  <2>1. /\ ~view_change_done[r] /\ UNCHANGED vars
        /\ \A w \in Views : w # View[r] =>
             vc_partial_sig'[w] = vc_partial_sig[w] /\ replay'[w] = replay[w]
    BY <1>4, AgreesOnReplay
  <2>2. UNCHANGED <<View, view_change_done>>
    BY <2>1 DEF vars, viewVars
  <2> QED
    BY <1>1, <2>1, <2>2 DEF NoFirstReplay
<1>5. CASE Replays(r)
  <2>1. /\ ~view_change_done[r] /\ UNCHANGED <<View, vc_partial_sig, replay>>
        /\ \A q \in Correct \ {r} : view_change_done'[q] = view_change_done[q]
    BY <1>5 DEF Replays
  <2> QED
    BY <2>1 DEF NoFirstReplay
<1> QED
  BY <1>2, <1>3, <1>4, <1>5 DEF VC_Step

-----------------------------------------------------------------------------
(* VCInv holds initially, ... *)
LEMMA VCInvInit ==
  ASSUME VCInit
  PROVE  VCInv
<1>1. MaxSeq \in Nat /\ 1 \in Views /\ 1 \in 1 .. MaxSeq + 1 /\ 0 \in 0 .. MaxSeq /\ 0 \in POSeqs
      /\ Unpopulated \notin POSeqs /\ 1 \in Int
  BY OrderingBounds DEF Views, POSeqs
<1>2. SlotTypes
  BY <1>1 DEF VCInit, Init, SlotTypes, EmptySlots
<1>3. RoundTypes
  BY DEF VCInit, RoundTypes
<1>4. ASSUME NEW r \in Correct PROVE SlotsOf(r)
  <2>1. /\ made_eligible[r][0] = 0 /\ seq[r] - 1 = 0 /\ ARU[r] = 0 /\ ppARU[r] = 0
        /\ \A s \in Seqs : pre_prepare[r][s] = NoPP /\ prepare_certificate[r][s] = NoPP
        /\ Pending_Execution[r] = {} /\ r \notin aborted
    BY <1>1 DEF VCInit, Init, EmptySlots
  <2>2. \A s \in Seqs : ~(s <= 0)
    BY <1>1 DEF Seqs
  <2> QED
    BY <1>1, <2>1, <2>2 DEF SlotsOf
<1>5. RoundsAgree /\ ReportsOnce
  BY DEF VCInit, Init, RoundsAgree, ReportsOnce
<1>6. CommitsCounted /\ NoFirstReplay
  BY <1>1 DEF VCInit, Init, CommitsCounted, NoFirstReplay, Sent
<1>7. ASSUME NEW r \in Correct PROVE CommitsStored(r) /\ ExecutedFrom(r)
  <2>1. /\ ARU[r] = 0 /\ ordered[r] = {} /\ Pending_Execution[r] = {}
        /\ \A s \in Seqs : \A q \in Servers : commit[r][s][q] = NoPP
    BY DEF VCInit, Init
  <2>2. \A s \in Seqs : ~(s <= 0)
    BY <1>1 DEF Seqs
  <2> QED
    BY <2>1, <2>2 DEF CommitsStored, ExecutedFrom
<1> QED
  BY <1>2, <1>3, <1>4, <1>5, <1>6, <1>7 DEF VCInv, VCSlots

(* ... and every step keeps it. *)
LEMMA VCInvStep ==
  ASSUME VCInv, [VCNext]_allVars
  PROVE  VCInv'
<1>0. VCSlots /\ RoundsAgree /\ ReportsOnce /\ CommitsCounted /\ NoFirstReplay
  BY DEF VCInv
<1>1. CASE VCNext
  <2>1. PICK r \in Correct \ aborted : VC_Step(r)
    BY <1>0, <1>1, VCNextSteps
  <2>2. VCSlots' /\ RoundsAgree' /\ ReportsOnce'
    BY <1>0, <2>1, StepKeepsSlots
  <2>3. CommitsCounted' /\ NoFirstReplay'
    BY <1>0, <2>1, <2>2, CommitsCountedStep, NoFirstReplayStep
  <2>4. \A p \in Correct : CommitsStored(p)' /\ ExecutedFrom(p)'
    BY <1>0, <2>1, CommitsStoredStep, ExecutedFromStep DEF VCInv
  <2> QED
    BY <2>2, <2>3, <2>4 DEF VCInv
<1>2. CASE UNCHANGED allVars
  <2>1. UNCHANGED <<View, view_change_done, report, seq, ARU, ppARU, pre_prepare, prepare, commit,
                    prepare_certificate, ordered, made_eligible, Pending_Execution, msgs>>
    BY <1>2 DEF allVars, vars, viewVars, slotVars, execVars
  <2>2. UNCHANGED <<vc_partial_sig, replay, replay_prepare, replay_commit, aborted>>
    BY <1>2 DEF allVars, vcVars
  <2>3. SlotTypes' /\ RoundTypes'
    BY <1>0, <2>1, <2>2 DEF VCSlots, SlotTypes, RoundTypes
  <2>4. ASSUME NEW q \in Correct PROVE SlotsOf(q)'
    <3>1. Rests(q)
      BY <2>1 DEF Rests
    <3> QED
      BY <1>0, <2>1, <2>2, <3>1, RestKeepsSlots DEF VCSlots
  <2>5. RoundsAgree' /\ ReportsOnce'
    BY <1>0, <2>1, <2>2, SameReports, SameRoundsAgree, SameReportsOnce
  <2>6. CommitsCounted' /\ NoFirstReplay'
    BY <1>0, <2>1, <2>2 DEF CommitsCounted, Commits_To, Sent, NoFirstReplay
  <2>7. ASSUME NEW r \in Correct PROVE CommitsStored(r)' /\ ExecutedFrom(r)'
    BY <2>1, <2>2 DEF CommitsStored, ExecutedFrom, VCInv
  <2> QED
    BY <2>3, <2>4, <2>5, <2>6, <2>7 DEF VCInv, VCSlots
<1> QED
  BY <1>1, <1>2

(* The slots stay in order, reports and Replays agree and Commits are      *)
(* backed, over any number of views.                                       *)
THEOREM VCInvariant == VCSpec => []VCInv
<1> QED
  BY VCInvInit, VCInvStep, PTL DEF VCSpec

(* The state of the view change has its types, over any number of views;   *)
(* in particular every slot holds an entry with its own number, also after *)
(* VIEW_Execute_Replay has filled it with a no-op.                         *)
THEOREM VCTypes == VCSpec => []VCTypeOK
<1>1. VCInv => VCTypeOK
  BY DEF VCInv, VCSlots, SlotTypes, RoundTypes, SlotsOf, VCTypeOK
<1> QED
  BY <1>1, VCInvariant, PTL

-----------------------------------------------------------------------------
(* Of 2f+k+1 replicas that committed to pp and the 2f+k+1 whose reports a  *)
(* Replay of the next view counts, one is a correct replica that did both: *)
(* it has executed that far, or reports a certificate for pp.              *)
LEMMA CommittedIsCounted ==
  ASSUME NEW r, NEW s, NEW v, VCInv, r \in Correct, s \in Seqs, s \in ordered[r],
         v \in Views, replay[v] # NoReplay, v = pre_prepare[r][s].view + 1
  PROVE  \E q \in replay[v].list : \E rep \in Report_For(q, v) :
           rep.execARU >= s \/ (pre_prepare[r][s] \in rep.pc_set /\ pre_prepare[r][s].seq = s)
<1> DEFINE pp == pre_prepare[r][s]
           A == {q \in Servers : commit[r][s][q] = pp}
<1>1. SlotTypes /\ SlotsOf(r) /\ CommitsStored(r) /\ CommitsCounted /\ Agreed(replay[v], v)
  BY DEF VCInv, VCSlots, RoundsAgree
<1>2. pp # NoPP /\ Cardinality(A) >= Quorum
  BY <1>1 DEF CommitsStored
<1>3. replay[v].list \in SUBSET Servers /\ Cardinality(replay[v].list) >= Quorum
  BY <1>1, FaultModel DEF Agreed, Correct, Quorum
<1>4. A \in SUBSET Servers
  OBVIOUS
<1>5. PICK q \in A \cap replay[v].list : q \notin Byzantine
  BY <1>2, <1>3, <1>4, QuorumsMeet
<1>6. q \in Servers /\ commit[r][s][q] = pp /\ q \in replay[v].list
  BY <1>5
<1>7. Commit(q, pp) \in msgs /\ pp.seq = s
  BY <1>1, <1>2, <1>5, <1>6 DEF CommitsStored
<1>8. Commits_To(q, pp)
  <2>1. /\ Commit(q, pp).type = "COMMIT"
        /\ Commit(q, pp).sender = q
        /\ Commit(q, pp).pp = pp
    BY DEF Commit
  <2> HIDE DEF pp
  <2> QED
    BY <1>1, <1>5, <1>7, <2>1 DEF CommitsCounted, Sent
<1>9. PICK rep \in Report_For(q, v) : TRUE
  BY <1>1, <1>6 DEF Agreed
<1>10. rep \in report[q] /\ rep.view = pp.view + 1
  BY DEF Report_For
<1>11. rep.execARU >= s \/ pp \in rep.pc_set
  BY <1>7, <1>8, <1>10 DEF Commits_To
<1> QED
  BY <1>6, <1>7, <1>11

(* What was ordered in a view lies before the startSeq of the Replay of    *)
(* the next view, however many views there are: the part of                *)
(* ReplayCoversExecuted that does not depend on skipping a view.           *)
OrderedIsReplayed ==
  \A r \in Correct : \A s \in ordered[r] : \A v \in Views :
    replay[v] # NoReplay /\ v = pre_prepare[r][s].view + 1 => s < replay[v].startSeq

(* A correct replica that committed is in the list of the Replay and has   *)
(* executed or reports what was ordered.                                   *)
LEMMA OrderedLiesBefore == VCInv => OrderedIsReplayed
<1> SUFFICES ASSUME VCInv, NEW r \in Correct, NEW s \in ordered[r], NEW v \in Views,
                    replay[v] # NoReplay, v = pre_prepare[r][s].view + 1
             PROVE  s < replay[v].startSeq
  BY DEF OrderedIsReplayed
<1>1. SlotTypes /\ Agreed(replay[v], v)
  BY DEF VCInv, VCSlots, RoundsAgree
<1>2. s \in Seqs /\ s \in Int
  BY <1>1 DEF SlotTypes, Seqs
<1>3. PICK q \in replay[v].list : \E rep \in Report_For(q, v) :
        rep.execARU >= s \/ (pre_prepare[r][s] \in rep.pc_set /\ pre_prepare[r][s].seq = s)
  BY <1>2, CommittedIsCounted
<1>4. PICK rep \in Report_For(q, v) :
        rep.execARU >= s \/ (pre_prepare[r][s] \in rep.pc_set /\ pre_prepare[r][s].seq = s)
  BY <1>3
<1>5. /\ replay[v].startSeq = Start_Seq(replay[v].list, v)
      /\ replay[v].list \in SUBSET Correct
  BY <1>1 DEF Agreed
<1>6. /\ replay[v].startSeq \in Int
      /\ rep.execARU < replay[v].startSeq
      /\ \A pp \in rep.pc_set : pp.seq < replay[v].startSeq
  BY <1>1, <1>5, StartSeqLast
<1>7. rep.execARU \in Int
  BY <1>1, <1>3, <1>5 DEF SlotTypes, Report, Report_For
<1> QED
  BY <1>2, <1>4, <1>6, <1>7

(* What was ordered in a view is before the startSeq of the next view's    *)
(* Replay, over any number of views (VIEW_Process_PC_Set, startSeq).       *)
THEOREM VCOrderedIsReplayed == VCSpec => []OrderedIsReplayed
<1> QED
  BY OrderedLiesBefore, VCInvariant, PTL

(* Over two views, whatever is executed of the first lies before the       *)
(* startSeq of the Replay into the second.  With a third view it need not: *)
(* see the run vc_overtaken.                                               *)
THEOREM VCReplayCoversExecuted ==
  ASSUME MaxView <= 2
  PROVE  VCSpec => []ReplayCoversExecuted
<1>1. VCInv => ReplayCoversExecuted
  <2> SUFFICES ASSUME VCInv, NEW r \in Correct, NEW s \in Seqs, NEW v \in Views,
                      s <= ARU[r], pre_prepare[r][s].view < v, replay[v] # NoReplay
               PROVE  s < replay[v].startSeq
    BY DEF ReplayCoversExecuted
  <2>1. /\ SlotTypes /\ SlotsOf(r) /\ CommitsStored(r) /\ ExecutedFrom(r)
        /\ NoFirstReplay /\ OrderedIsReplayed
    BY OrderedLiesBefore DEF VCInv, VCSlots
  <2>2. v = 2 /\ \A w \in Views : w \in {1, 2}
    BY <2>1, OrderingBounds DEF NoFirstReplay, Views
  <2>3. CASE s \in ordered[r]
    <3> DEFINE A == {q \in Servers : commit[r][s][q] = pre_prepare[r][s]}
    <3>1. pre_prepare[r][s] # NoPP /\ Cardinality(A) >= Quorum
      BY <2>1, <2>3 DEF CommitsStored
    <3>2. \E q \in Servers : commit[r][s][q] = pre_prepare[r][s]
      <4>1. A \in SUBSET Servers
        OBVIOUS
      <4>2. Cardinality(A) \in Nat
        BY <4>1, VotersMonotone
      <4>3. Cardinality(A) >= Quorum - 1
        BY <3>1, <4>2, FaultModel DEF Quorum
      <4> QED
        BY <4>3, SomeoneVoted
    <3>3. pre_prepare[r][s] \in PrePrepare
      BY <2>1, <3>1, <3>2 DEF SlotTypes
    <3>4. v = pre_prepare[r][s].view + 1
      BY <2>2, <3>3 DEF PrePrepare, Views
    <3> QED
      BY <2>1, <2>3, <3>4 DEF OrderedIsReplayed
  <2>4. CASE \E w \in Views : replay[w] # NoReplay /\ s < replay[w].startSeq
    BY <2>1, <2>2, <2>4 DEF NoFirstReplay
  <2> QED
    BY <2>1, <2>3, <2>4 DEF ExecutedFrom
<1> QED
  BY <1>1, VCInvariant, PTL

-----------------------------------------------------------------------------
(* Agreement over a view change.  The messages say who proposed, prepared  *)
(* and committed what; what is certified has these messages behind it, and *)
(* they stay when a Replay clears the slots.                               *)

(* In the messages sent, pp is proposed by the leader of its view, or that *)
(* one is Byzantine.                                                       *)
Is_Proposed(pp, sent) ==
  UTIL_Leader_Of_View[pp.view] \notin Byzantine =>
    Pre_Prepare(UTIL_Leader_Of_View[pp.view], pp) \in sent

(* The proposal and 2f+k Prepares for it, none of them the leader's *)
Certifiable(pp, sent) ==
  /\ pp \in PrePrepare
  /\ Is_Proposed(pp, sent)
  /\ \E Q \in SUBSET Servers :
       /\ Cardinality(Q) >= Quorum - 1
       /\ UTIL_Leader_Of_View[pp.view] \notin Q
       /\ \A q \in Q \ Byzantine : Prepare(q, pp) \in sent

(* A Replay is sent by the leader of its view.  Whoever is done with the   *)
(* view change has one, and the leader goes on from it.                    *)
CorrectReplays ==
  \A v \in Views : replay[v] # NoReplay => UTIL_Leader_Of_View[v] \in Correct

ReplayedFirst(r) ==
  view_change_done[r] /\ View[r] > 1 =>
    /\ replay[View[r]] # NoReplay
    /\ I_Am_Leader(r) => seq[r] >= replay[View[r]].startSeq

(* A leader proposes in its view, after the Replay and with numbers below  *)
(* its next one; what a replica has prepared in its view is in its slot;   *)
(* nobody commits in a view before its Replay.                             *)
Proposal_Sent(m) ==
  LET l == m.sender
      v == m.pp.view IN
  /\ l \in Correct /\ l = UTIL_Leader_Of_View[v]
  /\ v <= View[l]
  /\ v = View[l] => view_change_done[l] /\ m.pp.seq < seq[l]
  /\ v > 1 => replay[v] # NoReplay /\ m.pp.seq >= replay[v].startSeq

Prepare_Sent(m) ==
  LET q == m.sender IN
  /\ q \in Correct
  /\ m.pp.view <= View[q]
  /\ m.pp.view = View[q] => view_change_done[q] /\ pre_prepare[q][m.pp.seq] = m.pp

Commit_Sent(m) ==
  m.pp.view > 1 => replay[m.pp.view] # NoReplay

VoteSent(m) ==
  m.sender \notin Byzantine =>
    /\ m.type = "PRE_PREPARE" => Proposal_Sent(m)
    /\ m.type = "PREPARE" => Prepare_Sent(m)
    /\ m.type = "COMMIT" => Commit_Sent(m)

(* Two messages with which a replica says the same of a number in a view   *)
Same_Vote(m, n) ==
  /\ m.sender \notin Byzantine /\ n.sender = m.sender /\ n.type = m.type
  /\ n.pp.view = m.pp.view /\ n.pp.seq = m.pp.seq

(* What a replica that is not Byzantine sends for a number in a view is    *)
(* for one Pre-Prepare.                                                    *)
SentOnce == \A m, n \in msgs : Same_Vote(m, n) => n.pp = m.pp

(* What a slot holds and what is reported of it has such messages behind.  *)
SlotsBacked(r) ==
  /\ \A s \in Seqs : pre_prepare[r][s] # NoPP /\ pre_prepare[r][s].view > 0 =>
       Is_Proposed(pre_prepare[r][s], msgs)
  /\ \A s \in Seqs, q \in Servers : prepare[r][s][q] # NoPP =>
       /\ q # UTIL_Leader_Of_View[prepare[r][s][q].view]
       /\ q \notin Byzantine => Prepare(q, prepare[r][s][q]) \in msgs
  /\ \A s \in Seqs : prepare_certificate[r][s] # NoPP =>
       Certifiable(prepare_certificate[r][s], msgs)
  /\ \A rep \in report[r] : \A pp \in rep.pc_set : Certifiable(pp, msgs)

VoteInv ==
  /\ CorrectReplays /\ SentOnce
  /\ \A m \in msgs : VoteSent(m)
  /\ \A r \in Correct : ReplayedFirst(r) /\ SlotsBacked(r)

(* The Replay of a view is sent by a correct leader, and then stays. *)
LEMMA ReplayStays ==
  ASSUME NEW r, VC_Step(r), VCSlots, RoundsAgree, r \in Correct
  PROVE  \A w \in Views :
           /\ replay[w] # NoReplay => replay'[w] = replay[w]
           /\ replay[w] = NoReplay /\ replay'[w] # NoReplay =>
                UTIL_Leader_Of_View[w] = r
<1>1. CASE UNCHANGED replay
  BY <1>1
<1>2. CASE Agrees_On_Replay(r)
  <2>1. /\ \A w \in Views : w # View[r] => replay'[w] = replay[w]
        /\ \A w \in Views : replay[w] # NoReplay => replay'[w] = replay[w]
    BY <1>2, AgreesOnReplay
  <2>2. replay' # replay => I_Am_Leader(r)
    BY <1>2 DEF Agrees_On_Replay, VIEW_Process_VC_List, VIEW_Process_VC_Proof,
                VIEW_Process_Replay, VIEW_Process_Replay_Prepare
  <2> QED
    BY <2>1, <2>2 DEF I_Am_Leader
<1> QED
  BY <1>1, <1>2 DEF VC_Step, vcVars, Replays

(* ... so only a correct leader's Replay is ever there. *)
LEMMA CorrectReplaysStep ==
  ASSUME NEW r, VC_Step(r), VCSlots, RoundsAgree, CorrectReplays, r \in Correct
  PROVE  CorrectReplays'
BY ReplayStays DEF CorrectReplays

(* In Ordering the leader's next number only goes up. *)
LEMMA ActsCountsUp ==
  ASSUME NEW r, NEW p, Acts(r), SlotTypes, p \in Correct
  PROVE  seq'[p] >= seq[p] /\ seq'[p] \in Int /\ seq[p] \in Int
<1>1. seq'[p] \in Int /\ seq[p] \in Int
  BY DEF Acts, SlotTypes
<1> QED
  BY <1>1 DEF Acts, Rests, Counts_Up, Proposal

(* Whoever is done with a view change has a Replay, still. *)
LEMMA ReplayedFirstStep ==
  ASSUME NEW r, NEW p, VC_Step(r), VCSlots, RoundsAgree, ReplayedFirst(p),
         r \in Correct, p \in Correct
  PROVE  ReplayedFirst(p)'
<1>1. SlotTypes /\ RoundTypes /\ View[p] \in Views
  BY DEF VCSlots, SlotTypes
<1>2. CASE Acts(r) /\ UNCHANGED vcVars
  <2>1. seq'[p] >= seq[p] /\ seq'[p] \in Int /\ seq[p] \in Int
    BY <1>1, <1>2, ActsCountsUp
  <2>2. UNCHANGED <<View, view_change_done, replay>>
    BY <1>2 DEF Acts, vcVars
  <2>3. replay[View[p]] # NoReplay => replay[View[p]].startSeq \in Int
    BY <1>1 DEF RoundTypes, Replay
  <2> QED
    BY <2>1, <2>2, <2>3 DEF ReplayedFirst, I_Am_Leader
<1>3. CASE VIEW_Start_View_Change(r) /\ UNCHANGED vcVars
  <2>1. /\ ~view_change_done'[r]
        /\ \A q \in Correct \ {r} : View'[q] = View[q] /\ view_change_done'[q] = view_change_done[q]
        /\ UNCHANGED <<seq, replay>>
    BY <1>1, <1>3 DEF VIEW_Start_View_Change, SlotTypes, vcVars
  <2> QED
    BY <2>1 DEF ReplayedFirst, I_Am_Leader
<1>4. CASE Agrees_On_Replay(r)
  <2>1. UNCHANGED <<View, view_change_done, seq>>
    BY <1>4, AgreesOnReplay DEF vars, viewVars
  <2>2. replay[View[p]] # NoReplay => replay'[View[p]] = replay[View[p]]
    BY <1>1, ReplayStays
  <2> QED
    BY <2>1, <2>2 DEF ReplayedFirst, I_Am_Leader
<1>5. CASE Replays(r)
  <2>1. UNCHANGED <<View, replay>>
    BY <1>5 DEF Replays
  <2>2. CASE p = r
    <3>1. replay[View[r]] \in Replay /\ replay[View[r]].startSeq \in Int
      BY <1>1, <1>5, <2>2 DEF Replays, RoundTypes, Replay
    <3> QED
      BY <1>5, <2>1, <2>2, <3>1 DEF Replays, ReplayedFirst, I_Am_Leader
  <2>3. CASE p # r
    <3>1. view_change_done'[p] = view_change_done[p] /\ seq'[p] = seq[p]
      BY <1>5, <2>3 DEF Replays, Rests
    <3> QED
      BY <2>1, <3>1 DEF ReplayedFirst, I_Am_Leader
  <2> QED
    BY <2>2, <2>3
<1> QED
  BY <1>2, <1>3, <1>4, <1>5 DEF VC_Step

-----------------------------------------------------------------------------
(* What was sent stays true of its sender, ... *)
LEMMA VoteStaysSent ==
  ASSUME NEW r, NEW m, VC_Step(r), VCSlots, RoundsAgree, VoteSent(m), r \in Correct, m \in msgs
  PROVE  VoteSent(m)'
<1> SUFFICES ASSUME m.sender \notin Byzantine
             PROVE  /\ m.type = "PRE_PREPARE" => Proposal_Sent(m)'
                    /\ m.type = "PREPARE" => Prepare_Sent(m)'
                    /\ m.type = "COMMIT" => Commit_Sent(m)'
  BY DEF VoteSent
<1> DEFINE q == m.sender
           v == m.pp.view
           s == m.pp.seq
<1>1. SlotTypes /\ RoundTypes
  BY DEF VCSlots
<1>2. /\ v \in Views /\ v \in Int /\ s \in Seqs /\ s \in Int /\ m.pp # NoPP
      /\ \A p \in Correct : View[p] \in Int
  BY <1>1, OrderingBounds DEF SlotTypes, Message, PrePrepare, Views, Seqs
<1>3. replay[v] # NoReplay => replay'[v] = replay[v]
  BY <1>2, ReplayStays
<1>4. /\ m.type = "PRE_PREPARE" => Proposal_Sent(m)
      /\ m.type = "PREPARE" => Prepare_Sent(m)
      /\ m.type = "COMMIT" => Commit_Sent(m)
  BY DEF VoteSent
<1>5. m.type = "COMMIT" => Commit_Sent(m)'
  BY <1>3, <1>4 DEF Commit_Sent
<1> HIDE DEF q, v, s
<1>6. CASE Acts(r) /\ UNCHANGED vcVars
  <2>1. UNCHANGED <<View, view_change_done, replay>>
    BY <1>6 DEF Acts, vcVars
  <2>2. q \in Correct => seq'[q] >= seq[q] /\ seq'[q] \in Int /\ seq[q] \in Int
    BY <1>1, <1>6, ActsCountsUp
  <2>3. q \in Correct /\ pre_prepare[q][s] # NoPP => pre_prepare'[q][s] = pre_prepare[q][s]
    BY <1>2, <1>6 DEF Acts, Accepts, Rests
  <2>4. m.type = "PRE_PREPARE" => Proposal_Sent(m)'
    BY <1>2, <1>4, <2>1, <2>2 DEF Proposal_Sent, q, v, s
  <2>5. m.type = "PREPARE" => Prepare_Sent(m)'
    BY <1>2, <1>4, <2>1, <2>3 DEF Prepare_Sent, q, v, s
  <2> QED
    BY <1>5, <2>4, <2>5
<1>7. CASE VIEW_Start_View_Change(r) /\ UNCHANGED vcVars
  <2>1. /\ View'[r] > View[r] /\ View'[r] \in Int
        /\ \A p \in Correct \ {r} : View'[p] = View[p] /\ view_change_done'[p] = view_change_done[p]
        /\ UNCHANGED <<seq, replay, pre_prepare>>
    BY <1>1, <1>7 DEF VIEW_Start_View_Change, SlotTypes, Views, vcVars, slotVars
  <2>2. q \in Correct /\ v <= View[q] =>
          \/ q = r /\ v <= View'[q] /\ v # View'[q]
          \/ View'[q] = View[q] /\ view_change_done'[q] = view_change_done[q]
    BY <1>2, <2>1
  <2>3. m.type = "PRE_PREPARE" => Proposal_Sent(m)'
    BY <1>4, <2>1, <2>2 DEF Proposal_Sent, q, v
  <2>4. m.type = "PREPARE" => Prepare_Sent(m)'
    BY <1>4, <2>1, <2>2 DEF Prepare_Sent, q, v
  <2> QED
    BY <1>5, <2>3, <2>4
<1>8. CASE Agrees_On_Replay(r)
  <2>1. UNCHANGED <<View, view_change_done, seq, pre_prepare>>
    BY <1>8, AgreesOnReplay DEF vars, viewVars, slotVars
  <2> QED
    BY <1>3, <1>4, <1>5, <2>1 DEF Proposal_Sent, Prepare_Sent, v
<1>9. CASE Replays(r)
  <2>1. /\ ~view_change_done[r] /\ UNCHANGED <<View, replay>>
        /\ \A p \in Correct \ {r} : /\ seq'[p] = seq[p]
                                    /\ pre_prepare'[p] = pre_prepare[p]
                                    /\ view_change_done'[p] = view_change_done[p]
    BY <1>9 DEF Replays, Rests
  <2> QED
    BY <1>4, <1>5, <2>1 DEF Proposal_Sent, Prepare_Sent
<1> QED
  BY <1>6, <1>7, <1>8, <1>9 DEF VC_Step

(* ... and is true of what it sends now. *)
LEMMA NewPrepareView ==
  ASSUME NEW r, NEW n, Acts(r), NewPrepare(r, pre_prepare'[r], n), SlotTypes, r \in Correct,
         SlotsOf(r)
  PROVE  n.pp.view = View[r]
<1> DEFINE s == n.pp.seq
<1>1. s \in Seqs /\ n.pp # NoPP /\ s > ppARU[r] /\ view_change_done[r]
  BY OrderingBounds DEF NewPrepare, Message, PrePrepare
<1>2. n.pp = pre_prepare'[r][s] /\ pre_prepare'[r][s] # NoPP
  BY <1>1 DEF NewPrepare
<1>3. CASE pre_prepare'[r][s] = pre_prepare[r][s]
  BY <1>1, <1>2, <1>3 DEF SlotsOf
<1>4. CASE View_Permits(r, pre_prepare'[r][s].view)
  BY <1>1, <1>2, <1>4 DEF View_Permits
<1> QED
  BY <1>1, <1>3, <1>4 DEF Acts, Accepts

(* What a step of Ordering sends is as VoteSent says: outside a view       *)
(* change, for the view, and for what is in the slot.                      *)
LEMMA NewVoteSent ==
  ASSUME NEW r, NEW n, Acts(r), UNCHANGED vcVars, SlotTypes, r \in Correct, SlotsOf(r),
         ReplayedFirst(r), n \in msgs', n \notin msgs
  PROVE  VoteSent(n)'
<1>1. UNCHANGED <<View, view_change_done, replay>> /\ View[r] \in Int
  BY DEF Acts, vcVars, SlotTypes, Views
<1>2. CASE Flooded(n)
  BY <1>2 DEF Flooded, VoteSent
<1>3. CASE Proposal(r, n)
  <2>1. /\ n.sender = r /\ n.type = "PRE_PREPARE" /\ n.pp.view = View[r] /\ n.pp.seq = seq[r]
        /\ view_change_done[r] /\ UTIL_Leader_Of_View[View[r]] = r
        /\ seq'[r] = seq[r] + 1
    BY <1>3 DEF Proposal, I_Am_Leader
  <2>2. seq[r] \in Int
    BY DEF SlotTypes
  <2>3. Proposal_Sent(n)'
    BY <1>1, <2>1, <2>2 DEF Proposal_Sent, ReplayedFirst, I_Am_Leader
  <2> QED
    BY <2>1, <2>3 DEF VoteSent
<1>4. CASE NewPrepare(r, pre_prepare'[r], n)
  <2>1. /\ n.sender = r /\ n.type = "PREPARE" /\ n.pp.view = View[r]
        /\ view_change_done[r] /\ pre_prepare'[r][n.pp.seq] = n.pp
    BY <1>4, NewPrepareView DEF NewPrepare
  <2> QED
    BY <1>1, <2>1 DEF VoteSent, Prepare_Sent
<1>5. CASE NewCommit(r, n)
  <2>1. n.sender = r /\ n.type = "COMMIT" /\ n.pp.view = View[r] /\ view_change_done[r]
    BY <1>5, NewCommitView DEF NewCommit
  <2> QED
    BY <1>1, <2>1 DEF VoteSent, Commit_Sent, ReplayedFirst
<1> QED
  BY <1>2, <1>3, <1>4, <1>5 DEF Acts, Sends

(* So all that was sent is, after every step. *)
LEMMA VotesSentStep ==
  ASSUME NEW r, VC_Step(r), VCSlots, RoundsAgree, r \in Correct, ReplayedFirst(r),
         \A m \in msgs : VoteSent(m)
  PROVE  \A m \in msgs' : VoteSent(m)'
<1> SUFFICES ASSUME NEW m \in msgs' PROVE VoteSent(m)'
  OBVIOUS
<1>1. CASE m \in msgs
  BY <1>1, VoteStaysSent
<1>2. CASE m \notin msgs
  <2>1. Acts(r) /\ UNCHANGED vcVars
    BY <1>2, AgreesOnReplay DEF VC_Step, VIEW_Start_View_Change, Replays, vars
  <2> QED
    BY <1>2, <2>1, NewVoteSent DEF VCSlots
<1> QED
  BY <1>1, <1>2

(* A new message says what an earlier one said, if they are of the same    *)
(* number and view.                                                        *)
LEMMA NewVoteOnce ==
  ASSUME NEW r, NEW m, NEW n, Acts(r), Proposes_Once(r), VCSlots, CommitsCounted, r \in Correct,
         \A k \in msgs : VoteSent(k),
         m \in msgs', n \in msgs', n \notin msgs, Same_Vote(m, n)
  PROVE  n.pp = m.pp
<1>1. SlotTypes /\ SlotsOf(r)
  BY DEF VCSlots
<1>2. n \in Message /\ n.type \in MessageType
  BY <1>1 DEF Acts, SlotTypes, Message
<1>3. \A k \in msgs : k.pp # NoPP /\ k.pp.seq \in Seqs
  BY <1>1, OrderingBounds DEF SlotTypes, Message, PrePrepare
<1>4. /\ m.sender = n.sender /\ m.type = n.type /\ n.sender \notin Byzantine
      /\ m.pp.view = n.pp.view /\ m.pp.seq = n.pp.seq
  BY DEF Same_Vote
<1>5. \A k \in msgs' : k \in msgs \/ Flooded(k) \/ Proposal(r, k)
                       \/ NewPrepare(r, pre_prepare'[r], k) \/ NewCommit(r, k)
  BY DEF Acts, Sends
<1>6. CASE n.type = "PRE_PREPARE"
  <2>1. Proposal(r, n)
    BY <1>4, <1>5, <1>6 DEF Flooded, NewPrepare, NewCommit
  <2>2. CASE m \in msgs
    <3>1. m.sender = r /\ m.type = "PRE_PREPARE" /\ m.pp.view = View[r] /\ m.pp.seq = seq[r]
      BY <1>4, <1>6, <2>1 DEF Proposal
    <3>2. Proposal_Sent(m)
      BY <1>4, <2>2, <3>1 DEF VoteSent
    <3>3. seq[r] < seq[r] /\ seq[r] \in Int
      BY <1>1, <3>1, <3>2 DEF Proposal_Sent, SlotTypes
    <3> QED
      BY <3>3
  <2>3. CASE m \notin msgs
    <3>1. Proposal(r, m)
      BY <1>4, <1>5, <1>6, <2>3 DEF Flooded, NewPrepare, NewCommit
    <3> QED
      BY <2>1, <2>3, <3>1 DEF Proposes_Once
  <2> QED
    BY <2>2, <2>3
<1>7. CASE n.type = "PREPARE"
  <2>1. NewPrepare(r, pre_prepare'[r], n)
    BY <1>4, <1>5, <1>7 DEF Flooded, Proposal, NewCommit
  <2>2. n.sender = r /\ n.pp.view = View[r] /\ n.pp = pre_prepare'[r][n.pp.seq]
    BY <1>1, <2>1, NewPrepareView DEF NewPrepare
  <2>3. CASE m \in msgs
    <3>1. Prepare_Sent(m)
      BY <1>4, <1>7, <2>3 DEF VoteSent
    <3>2. pre_prepare[r][m.pp.seq] = m.pp /\ m.pp # NoPP /\ m.pp.seq \in Seqs
      BY <1>3, <1>4, <2>2, <2>3, <3>1 DEF Prepare_Sent
    <3>3. pre_prepare'[r][m.pp.seq] = pre_prepare[r][m.pp.seq]
      BY <3>2 DEF Acts, Accepts
    <3> QED
      BY <1>4, <2>2, <3>2, <3>3
  <2>4. CASE m \notin msgs
    <3>1. NewPrepare(r, pre_prepare'[r], m)
      BY <1>4, <1>5, <1>7, <2>4 DEF Flooded, Proposal, NewCommit
    <3> QED
      BY <1>4, <2>2, <3>1 DEF NewPrepare
  <2> QED
    BY <2>3, <2>4
<1>8. CASE n.type = "COMMIT"
  <2>1. NewCommit(r, n)
    BY <1>4, <1>5, <1>8 DEF Flooded, Proposal, NewPrepare
  <2>2. n.sender = r /\ n.pp.view = View[r] /\ prepare_certificate[r][n.pp.seq] = NoPP
        /\ prepare_certificate'[r][n.pp.seq] = n.pp
    BY <1>1, <2>1, NewCommitView DEF NewCommit
  <2>3. CASE m \in msgs
    <3>1. Commits_To(r, m.pp)
      BY <1>4, <1>8, <2>2, <2>3 DEF CommitsCounted, Sent
    <3>2. prepare_certificate[r][n.pp.seq] = m.pp /\ m.pp # NoPP
      BY <1>3, <1>4, <2>2, <2>3, <3>1 DEF Commits_To
    <3> QED
      BY <2>2, <3>2
  <2>4. CASE m \notin msgs
    <3>1. NewCommit(r, m)
      BY <1>4, <1>5, <1>8, <2>4 DEF Flooded, Proposal, NewPrepare
    <3> QED
      BY <1>4, <2>2, <3>1 DEF NewCommit
  <2> QED
    BY <2>3, <2>4
<1> QED
  BY <1>2, <1>6, <1>7, <1>8 DEF MessageType

(* No step makes a replica say two things of a number in a view. *)
LEMMA SentOnceStep ==
  ASSUME NEW r, VC_Step(r), VCSlots, RoundsAgree, CommitsCounted, r \in Correct,
         \A m \in msgs : VoteSent(m), SentOnce
  PROVE  SentOnce'
<1>1. CASE msgs' = msgs
  BY <1>1 DEF SentOnce
<1>2. CASE Acts(r) /\ Proposes_Once(r)
  <2> SUFFICES ASSUME NEW m \in msgs', NEW n \in msgs', Same_Vote(m, n)
               PROVE  n.pp = m.pp
    BY DEF SentOnce
  <2>1. Same_Vote(n, m)
    BY DEF Same_Vote
  <2>2. CASE m \in msgs /\ n \in msgs
    BY <2>2 DEF SentOnce
  <2>3. CASE n \notin msgs
    BY <1>2, <2>3, NewVoteOnce
  <2>4. CASE m \notin msgs
    BY <1>2, <2>1, <2>4, NewVoteOnce
  <2> QED
    BY <2>2, <2>3, <2>4
<1> QED
  BY <1>1, <1>2, AgreesOnReplay DEF VC_Step, VIEW_Start_View_Change, Replays, vars

-----------------------------------------------------------------------------
(* More messages take nothing away. *)
LEMMA StillCertifiable ==
  ASSUME NEW sent, NEW more, sent \subseteq more
  PROVE  \A pp : /\ Is_Proposed(pp, sent) => Is_Proposed(pp, more)
                 /\ Certifiable(pp, sent) => Certifiable(pp, more)
<1>1. \A pp : Is_Proposed(pp, sent) => Is_Proposed(pp, more)
  BY DEF Is_Proposed
<1>2. ASSUME NEW pp, Certifiable(pp, sent) PROVE Certifiable(pp, more)
  <2>1. pp \in PrePrepare /\ Is_Proposed(pp, more)
    BY <1>1, <1>2 DEF Certifiable
  <2>2. PICK Q \in SUBSET Servers :
          /\ Cardinality(Q) >= Quorum - 1
          /\ UTIL_Leader_Of_View[pp.view] \notin Q
          /\ \A q \in Q \ Byzantine : Prepare(q, pp) \in sent
    BY <1>2 DEF Certifiable
  <2> QED
    BY <2>1, <2>2 DEF Certifiable
<1> QED
  BY <1>1, <1>2

(* A certificate is made of the slot's Pre-Prepare and the Prepares stored *)
LEMMA CertificateBacked ==
  ASSUME NEW pp, NEW votes, NEW sent, votes \in [Servers -> PrePrepare \cup {NoPP}], pp # NoPP,
         Cardinality({q \in Servers : votes[q] = pp}) >= Quorum - 1,
         pp.view > 0 => Is_Proposed(pp, sent),
         \A q \in Servers : votes[q] # NoPP =>
           /\ q # UTIL_Leader_Of_View[votes[q].view]
           /\ q \notin Byzantine => Prepare(q, votes[q]) \in sent
  PROVE  Certifiable(pp, sent)
<1> DEFINE Q == {q \in Servers : votes[q] = pp}
<1>1. PICK x \in Servers : votes[x] = pp
  BY SomeoneVoted
<1>2. pp \in PrePrepare
  BY <1>1
<1>3. pp.view > 0
  BY <1>2 DEF PrePrepare, Views
<1>4. UTIL_Leader_Of_View[pp.view] \notin Q /\ \A q \in Q \ Byzantine : Prepare(q, pp) \in sent
  OBVIOUS
<1>5. Q \in SUBSET Servers /\ Cardinality(Q) >= Quorum - 1
  OBVIOUS
<1> HIDE DEF Q
<1> QED
  BY <1>2, <1>3, <1>4, <1>5 DEF Certifiable

(* The slots and reports of p stay backed. *)
LEMMA SlotsBackedActs ==
  ASSUME NEW r, Acts(r), VCSlots, SlotsBacked(r), r \in Correct
  PROVE  SlotsBacked(r)'
<1>1. SlotTypes /\ SlotTypes' /\ msgs \subseteq msgs' /\ report' = report
  BY DEF VCSlots, Acts, Sends
<1>2. \A pp : /\ Is_Proposed(pp, msgs) => Is_Proposed(pp, msgs')
              /\ Certifiable(pp, msgs) => Certifiable(pp, msgs')
  BY <1>1, StillCertifiable
<1>3. ASSUME NEW s \in Seqs, pre_prepare'[r][s] # NoPP, pre_prepare'[r][s].view > 0
      PROVE  Is_Proposed(pre_prepare'[r][s], msgs')
  <2>1. CASE pre_prepare'[r][s] = pre_prepare[r][s]
    BY <1>2, <1>3, <2>1 DEF SlotsBacked
  <2>2. CASE pre_prepare'[r][s] # pre_prepare[r][s]
    BY <1>1, <2>2 DEF Acts, Accepts, Is_Proposed
  <2> QED
    BY <2>1, <2>2
<1>4. ASSUME NEW s \in Seqs, NEW q \in Servers, prepare'[r][s][q] # NoPP
      PROVE  /\ q # UTIL_Leader_Of_View[prepare'[r][s][q].view]
             /\ q \notin Byzantine => Prepare(q, prepare'[r][s][q]) \in msgs'
  <2>1. CASE prepare'[r][s][q] = prepare[r][s][q]
    BY <1>1, <1>4, <2>1 DEF SlotsBacked
  <2>2. CASE prepare'[r][s][q] # prepare[r][s][q]
    BY <1>1, <2>2 DEF Acts, CountsPrepares
  <2> QED
    BY <2>1, <2>2
<1>5. ASSUME NEW s \in Seqs, prepare_certificate'[r][s] # NoPP
      PROVE  Certifiable(prepare_certificate'[r][s], msgs')
  <2>1. CASE prepare_certificate'[r][s] = prepare_certificate[r][s]
    BY <1>2, <1>5, <2>1 DEF SlotsBacked
  <2>2. CASE prepare_certificate'[r][s] # prepare_certificate[r][s]
    <3> DEFINE pp == prepare_certificate'[r][s]
    <3>1. /\ pp = pre_prepare'[r][s]
          /\ Cardinality({q \in Servers : prepare'[r][s][q] = pp}) >= Quorum - 1
      BY <2>2 DEF Acts, Certifies
    <3>2. pre_prepare'[r][s].view > 0 => Is_Proposed(pre_prepare'[r][s], msgs')
      BY <1>3, <1>5, <3>1
    <3>3. prepare'[r][s] \in [Servers -> PrePrepare \cup {NoPP}]
      BY <1>1 DEF SlotTypes
    <3> HIDE DEF pp
    <3> QED
      BY <1>4, <1>5, <3>1, <3>2, <3>3, CertificateBacked DEF pp
  <2> QED
    BY <2>1, <2>2
<1>6. \A rep \in report'[r] : \A pp \in rep.pc_set : Certifiable(pp, msgs')
  BY <1>1, <1>2 DEF SlotsBacked
<1> QED
  BY <1>3, <1>4, <1>5, <1>6 DEF SlotsBacked

(* A Replay copies certificates that were reported, and clears the votes. *)
LEMMA SlotsBackedReplays ==
  ASSUME NEW r, Replays(r), VCSlots, RoundsAgree, r \in Correct,
         \A q \in Correct : SlotsBacked(q)
  PROVE  SlotsBacked(r)'
<1> DEFINE rep == replay[View[r]]
           full == Full_PC_Set(rep.list, View[r])
<1>1. /\ SlotTypes /\ rep.list \in SUBSET Correct
      /\ UNCHANGED <<View, replay, report, msgs>>
      /\ \A s \in Seqs : Replays_Slot(r, s)
  BY DEF VCSlots, Replays, RoundsAgree, Agreed, SlotTypes
<1>2. \A pp : /\ Is_Proposed(pp, msgs) => Is_Proposed(pp, msgs')
              /\ Certifiable(pp, msgs) => Certifiable(pp, msgs')
  BY <1>1, StillCertifiable
<1>3. ASSUME NEW s \in Seqs, full[s] # NoPP PROVE Is_Proposed(full[s], msgs)
  <2>1. PICK q \in rep.list : \E told \in Report_For(q, View[r]) : full[s] \in told.pc_set
    BY <1>1, <1>3, FullFromReports
  <2>2. PICK told \in Report_For(q, View[r]) : full[s] \in told.pc_set
    BY <2>1
  <2>3. q \in Correct /\ told \in report[q]
    BY <1>1, <2>1, <2>2 DEF Report_For
  <2> QED
    BY <2>2, <2>3 DEF SlotsBacked, Certifiable
<1>4. (Full_PC_Set(replay[View[r]].list, View[r]))' = full
  BY <1>1 DEF Full_PC_Set, Certified, Report_For
<1> HIDE DEF full
<1>5. ASSUME NEW s \in Seqs, pre_prepare'[r][s] # NoPP, pre_prepare'[r][s].view > 0
      PROVE  Is_Proposed(pre_prepare'[r][s], msgs')
  <2>1. CASE Kept(r, s)
    BY <1>1, <1>2, <1>5, <2>1 DEF SlotsBacked, Replays_Slot
  <2>2. CASE ~Kept(r, s)
    <3>1. Rebuilt(r, s)'
      BY <1>1, <1>5, <2>2 DEF Replays_Slot
    <3>2. \/ full[s] # NoPP /\ pre_prepare'[r][s] = full[s]
          \/ Holds_No_Op(r, s)'
      BY <1>4, <3>1 DEF Rebuilt
    <3>3. ~Holds_No_Op(r, s)'
      <4>1. Holds_No_Op(r, s)' => pre_prepare'[r][s].view = 0
        BY DEF Holds_No_Op
      <4> QED
        BY <1>5, <4>1
    <3> QED
      BY <1>2, <1>3, <3>2, <3>3
  <2> QED
    BY <2>1, <2>2
<1>6. ASSUME NEW s \in Seqs, NEW q \in Servers, prepare'[r][s][q] # NoPP
      PROVE  /\ q # UTIL_Leader_Of_View[prepare'[r][s][q].view]
             /\ q \notin Byzantine => Prepare(q, prepare'[r][s][q]) \in msgs'
  <2>1. prepare'[r][s] = prepare[r][s]
    BY <1>1, <1>6 DEF Replays_Slot
  <2> QED
    BY <1>1, <1>6, <2>1 DEF SlotsBacked
<1>7. ASSUME NEW s \in Seqs, prepare_certificate'[r][s] # NoPP
      PROVE  Certifiable(prepare_certificate'[r][s], msgs')
  <2>1. prepare_certificate'[r][s] = prepare_certificate[r][s]
    BY <1>1, <1>7 DEF Replays_Slot
  <2> QED
    BY <1>2, <1>7, <2>1 DEF SlotsBacked
<1>8. \A told \in report'[r] : \A pp \in told.pc_set : Certifiable(pp, msgs')
  BY <1>1, <1>2 DEF SlotsBacked
<1> QED
  BY <1>5, <1>6, <1>7, <1>8 DEF SlotsBacked

(* What slots and reports hold is backed by messages after every step. *)
LEMMA SlotsBackedStep ==
  ASSUME NEW r, NEW p, VC_Step(r), VCSlots, RoundsAgree, r \in Correct, p \in Correct,
         \A q \in Correct : SlotsBacked(q)
  PROVE  SlotsBacked(p)'
<1>1. SlotTypes
  BY DEF VCSlots
<1>2. CASE Acts(r) \/ Replays(r)
  <2>1. CASE p = r
    BY <1>2, <2>1, SlotsBackedActs, SlotsBackedReplays
  <2>2. CASE p # r
    <3>1. Rests(p) /\ report'[p] = report[p] /\ msgs \subseteq msgs'
      BY <1>2, <2>2 DEF Acts, Replays, Sends
    <3>2. \A pp : /\ Is_Proposed(pp, msgs) => Is_Proposed(pp, msgs')
                  /\ Certifiable(pp, msgs) => Certifiable(pp, msgs')
      BY <3>1, StillCertifiable
    <3> QED
      BY <3>1, <3>2 DEF SlotsBacked, Rests
  <2> QED
    BY <2>1, <2>2
<1>3. CASE VIEW_Start_View_Change(r)
  <2> DEFINE certs == {prepare_certificate[r][s] : s \in ARU[r] + 1 .. MaxSeq} \ {NoPP}
  <2> PICK v \in Views :
        /\ report' = [report EXCEPT ![r] = @ \cup
                        {[view |-> v, execARU |-> ARU[r], pc_set |-> certs]}]
        /\ UNCHANGED <<slotVars, execVars, poVars, seq, msgs>>
    BY <1>3 DEF VIEW_Start_View_Change
  <2>1. UNCHANGED <<pre_prepare, prepare, prepare_certificate, msgs>>
    BY DEF slotVars
  <2>2. \A pp : /\ Is_Proposed(pp, msgs) => Is_Proposed(pp, msgs')
                /\ Certifiable(pp, msgs) => Certifiable(pp, msgs')
    BY <2>1, StillCertifiable
  <2>3. \A pp \in certs : Certifiable(pp, msgs)
    <3>1. ARU[r] + 1 .. MaxSeq \subseteq Seqs
      BY <1>1, OrderingBounds DEF SlotTypes, Seqs
    <3> QED
      BY <3>1 DEF SlotsBacked
  <2>4. \A rep \in report'[p] : rep \in report[p] \/ rep.pc_set = certs
    BY <1>1 DEF SlotTypes
  <2> HIDE DEF certs
  <2>5. \A rep \in report'[p] : \A pp \in rep.pc_set : Certifiable(pp, msgs)
    BY <2>3, <2>4 DEF SlotsBacked
  <2> QED
    BY <2>1, <2>2, <2>5 DEF SlotsBacked
<1>4. CASE Agrees_On_Replay(r)
  <2>1. UNCHANGED <<pre_prepare, prepare, prepare_certificate, msgs, report>>
    BY <1>4, AgreesOnReplay DEF vars, viewVars, slotVars
  <2>2. \A pp : /\ Is_Proposed(pp, msgs) => Is_Proposed(pp, msgs')
                /\ Certifiable(pp, msgs) => Certifiable(pp, msgs')
    BY <2>1, StillCertifiable
  <2> QED
    BY <2>1, <2>2 DEF SlotsBacked
<1> QED
  BY <1>2, <1>3, <1>4 DEF VC_Step

(* Together, over any number of views. *)
LEMMA VoteInvInit ==
  ASSUME VCInit
  PROVE  VoteInv
BY DEF VCInit, Init, VoteInv, CorrectReplays, SentOnce, ReplayedFirst, SlotsBacked, EmptySlots

(* Every step keeps it. *)
LEMMA VoteInvStep ==
  ASSUME VCInv, VoteInv, [VCNext]_allVars
  PROVE  VoteInv'
<1>0. VCSlots /\ RoundsAgree /\ ReportsOnce /\ CommitsCounted
  BY DEF VCInv
<1>1. CASE VCNext
  <2>1. PICK r \in Correct \ aborted : VC_Step(r)
    BY <1>0, <1>1, VCNextSteps
  <2>2. CorrectReplays' /\ SentOnce' /\ \A m \in msgs' : VoteSent(m)'
    BY <1>0, <2>1, CorrectReplaysStep, SentOnceStep, VotesSentStep DEF VoteInv
  <2>3. \A p \in Correct : ReplayedFirst(p)' /\ SlotsBacked(p)'
    BY <1>0, <2>1, ReplayedFirstStep, SlotsBackedStep DEF VoteInv
  <2> QED
    BY <2>2, <2>3 DEF VoteInv
<1>2. CASE UNCHANGED allVars
  <2>1. UNCHANGED <<View, view_change_done, report, seq, pre_prepare, prepare,
                    prepare_certificate, msgs, replay>>
    BY <1>2 DEF allVars, vars, viewVars, slotVars, vcVars
  <2>2. CorrectReplays' /\ SentOnce'
    BY <2>1 DEF VoteInv, CorrectReplays, SentOnce
  <2>3. \A m \in msgs' : VoteSent(m)'
    BY <2>1 DEF VoteInv, VoteSent, Proposal_Sent, Prepare_Sent, Commit_Sent
  <2>4. \A r \in Correct : ReplayedFirst(r)'
    BY <2>1 DEF VoteInv, ReplayedFirst, I_Am_Leader
  <2>5. \A pp : /\ Is_Proposed(pp, msgs) => Is_Proposed(pp, msgs')
                /\ Certifiable(pp, msgs) => Certifiable(pp, msgs')
    BY <2>1, StillCertifiable
  <2>6. \A r \in Correct : SlotsBacked(r)'
    BY <2>1, <2>5 DEF VoteInv, SlotsBacked
  <2> QED
    BY <2>2, <2>3, <2>4, <2>6 DEF VoteInv
<1> QED
  BY <1>1, <1>2

(* Two certificates for a number and a view are for the same Pre-Prepare:  *)
(* its leader proposed one, or the replicas that prepared each meet.       *)
LEMMA OneCertificate ==
  ASSUME NEW p, NEW q, VoteInv, Certifiable(p, msgs), Certifiable(q, msgs), p.view = q.view, p.seq = q.seq
  PROVE  p = q
<1> DEFINE l == UTIL_Leader_Of_View[p.view]
<1>0. l \in Servers /\ SentOnce
  BY OrderingBounds DEF Certifiable, PrePrepare, VoteInv
<1>1. CASE l \notin Byzantine
  <2>1. Pre_Prepare(l, p) \in msgs /\ Pre_Prepare(l, q) \in msgs
    BY <1>1 DEF Certifiable, Is_Proposed
  <2>2. Same_Vote(Pre_Prepare(l, p), Pre_Prepare(l, q))
        /\ Pre_Prepare(l, p).pp = p /\ Pre_Prepare(l, q).pp = q
    BY <1>1 DEF Same_Vote, Pre_Prepare
  <2> QED
    BY <1>0, <2>1, <2>2 DEF SentOnce
<1>2. CASE l \in Byzantine
  <2>1. PICK A \in SUBSET Servers :
          /\ Cardinality(A) >= Quorum - 1
          /\ l \notin A
          /\ \A x \in A \ Byzantine : Prepare(x, p) \in msgs
    BY DEF Certifiable
  <2>2. PICK B \in SUBSET Servers :
          /\ Cardinality(B) >= Quorum - 1
          /\ l \notin B
          /\ \A x \in B \ Byzantine : Prepare(x, q) \in msgs
    BY DEF Certifiable
  <2>3. /\ IsFiniteSet(A) /\ IsFiniteSet(B)
        /\ Cardinality(A) \in Nat /\ Cardinality(B) \in Nat
    BY FaultModel, FS_Subset, FS_CardinalityType
  <2>4. Cardinality(A \cup {l}) = Cardinality(A) + 1 /\ Cardinality(B \cup {l}) = Cardinality(B) + 1
    BY <2>1, <2>2, <2>3, FS_AddElement
  <2>5. Cardinality(A \cup {l}) >= Quorum /\ Cardinality(B \cup {l}) >= Quorum
    BY <2>1, <2>2, <2>3, <2>4, FaultModel DEF Quorum
  <2>6. A \cup {l} \in SUBSET Servers /\ B \cup {l} \in SUBSET Servers
    BY <1>0
  <2>7. PICK x \in (A \cup {l}) \cap (B \cup {l}) : x \notin Byzantine
    BY <2>5, <2>6, QuorumsMeet
  <2>8. Prepare(x, p) \in msgs /\ Prepare(x, q) \in msgs
    BY <1>2, <2>1, <2>2, <2>7
  <2>9. Same_Vote(Prepare(x, p), Prepare(x, q)) /\ Prepare(x, p).pp = p /\ Prepare(x, q).pp = q
    BY <2>7 DEF Same_Vote, Prepare
  <2> QED
    BY <1>0, <2>8, <2>9 DEF SentOnce
<1> QED
  BY <1>1, <1>2

-----------------------------------------------------------------------------
(* Slot s of r comes from the Replay of its view, and nobody who counts in *)
(* it has reported s as executed.                                          *)
Replayed_At(r, s) ==
  LET rep == replay[View[r]] IN
  /\ rep # NoReplay
  /\ s < rep.startSeq
  /\ Rebuilt(r, s)
  /\ \A q \in rep.list : \A told \in Report_For(q, View[r]) : told.execARU < s

(* Over two views, what is executed was ordered or comes from the one      *)
(* Replay.                                                                 *)
ExecutedHow(r) ==
  \A s \in Seqs : s <= ARU[r] => s \in ordered[r] \/ Replayed_At(r, s)

(* A slot of the first view is filled in from its own Pre-Prepare, ...     *)
EligibleFirst(r) ==
  \A s \in Seqs :
    Filled_In(r, s) /\ pre_prepare[r][s].view = 1 =>
      made_eligible[r][s] = Made_Eligible(pre_prepare[r][s])

(* ... also at its leader, which fills it in when it proposes and may      *)
(* receive its own Pre-Prepare during the view change.                     *)
OwnProposals(r) ==
  r \notin aborted /\ ~(View[r] > 1 /\ view_change_done[r]) =>
    \A s \in Seqs : pre_prepare[r][s] = NoPP /\ made_eligible[r][s] # Unpopulated =>
      \E m \in Sent("PRE_PREPARE") :
        /\ m.sender = r /\ m.pp.seq = s /\ m.pp.view = 1
        /\ made_eligible[r][s] = Made_Eligible(m.pp)

TwoViewInv ==
  /\ VCInv /\ VoteInv
  /\ \A r \in Correct : ExecutedHow(r) /\ EligibleFirst(r) /\ OwnProposals(r)

(* What a Replay merges depends on the reports of its list alone. *)
LEMMA SameReportsSameFull ==
  ASSUME NEW list, NEW w, list \in SUBSET Servers,
         \A q \in list : Report_For(q, w)' = Report_For(q, w)
  PROVE  Full_PC_Set(list, w)' = Full_PC_Set(list, w)
<1> DEFINE Of(reports, q) == {rep \in reports[q] : rep.view = w}
           Holders(reports, s) ==
             {q \in list : \E rep \in Of(reports, q) : \E pp \in rep.pc_set : pp.seq = s}
           First(holders) == CHOOSE q \in holders : \A p \in holders : Server_ID[q] <= Server_ID[p]
           Choice(reps, s) == CHOOSE pp \in UNION {rep.pc_set : rep \in reps} : pp.seq = s
           At(reports, holders, s) ==
             IF holders = {} THEN NoPP ELSE Choice(Of(reports, First(holders)), s)
<1>1. \A q \in list : Of(report', q) = Of(report, q)
  BY DEF Report_For
<1>2. \A s : Holders(report', s) = Holders(report, s) /\ Holders(report, s) \subseteq list
  <2> HIDE DEF Of
  <2> QED
    BY <1>1
<1>3. ASSUME NEW holders, holders \subseteq list, holders # {}
      PROVE  First(holders) \in list
  <2> DEFINE ids == {Server_ID[q] : q \in holders}
  <2>1. ids \in SUBSET Nat /\ ids # {}
    BY <1>3, ViewChangeBounds
  <2>2. PICK i \in ids : \A j \in ids : i <= j
    BY <2>1, SmallestExists
  <2>3. \E q \in holders : \A p \in holders : Server_ID[q] <= Server_ID[p]
    BY <2>2
  <2>4. First(holders) \in holders
    BY <2>3
  <2> HIDE DEF First
  <2> QED
    BY <1>3, <2>4
<1>4. /\ Full_PC_Set(list, w) = [s \in Seqs |-> At(report, Holders(report, s), s)]
      /\ Full_PC_Set(list, w)' = [s \in Seqs |-> At(report', Holders(report', s), s)]
  BY DEF Full_PC_Set, Certified, Report_For
<1>5. \A s \in Seqs : At(report', Holders(report', s), s) = At(report, Holders(report, s), s)
  <2> SUFFICES ASSUME NEW s \in Seqs
               PROVE  At(report', Holders(report', s), s) = At(report, Holders(report, s), s)
    OBVIOUS
  <2> DEFINE holders == Holders(report, s)
  <2>1. Holders(report', s) = holders /\ holders \subseteq list
    BY <1>2
  <2> HIDE DEF holders
  <2>2. holders # {} => Of(report', First(holders)) = Of(report, First(holders))
    BY <1>1, <1>3, <2>1
  <2>3. At(report', holders, s) = At(report, holders, s)
    <3> HIDE DEF Choice, First, Of
    <3> QED
      BY <2>2
  <2> HIDE DEF At, Holders
  <2> QED
    BY <2>1, <2>3 DEF holders
<1> HIDE DEF At, Holders
<1> QED
  BY <1>4, <1>5

(* A slot that comes from a Replay does, as long as nobody touches it, the *)
(* slot before it, or what was reported.                                   *)
LEMMA ReplayedAtStays ==
  ASSUME NEW p, NEW s, p \in Correct, s \in Seqs, VCSlots, RoundsAgree, Replayed_At(p, s),
         View'[p] = View[p], replay'[View[p]] = replay[View[p]],
         \A q \in Correct : Report_For(q, View[p]) # {} =>
           Report_For(q, View[p])' = Report_For(q, View[p]),
         pre_prepare'[p][s] = pre_prepare[p][s],
         made_eligible'[p][s] = made_eligible[p][s],
         made_eligible'[p][s - 1] = made_eligible[p][s - 1],
         s # 1 => pre_prepare'[p][s - 1] = pre_prepare[p][s - 1]
  PROVE  Replayed_At(p, s)'
<1>1. PICK v \in Views : v = View[p]
  BY DEF VCSlots, SlotTypes
<1>2. PICK rep : rep = replay[v]
  OBVIOUS
<1>3. /\ View[p] = v /\ View'[p] = v /\ replay[v] = rep /\ replay'[v] = rep
      /\ replay'[View'[p]] = rep /\ replay[View[p]] = rep
  BY <1>1, <1>2
<1>4. rep # NoReplay /\ Agreed(rep, v)
  BY <1>1, <1>3 DEF RoundsAgree, Replayed_At
<1>5. \A q \in rep.list : q \in Correct /\ Report_For(q, v)' = Report_For(q, v)
  BY <1>3, <1>4 DEF Agreed
<1>6. Full_PC_Set(rep.list, v)' = Full_PC_Set(rep.list, v)
  <2>1. rep.list \in SUBSET Servers
    BY <1>4 DEF Agreed, Correct
  <2> QED
    BY <1>5, <2>1, SameReportsSameFull
<1>7. (Full_PC_Set(replay[View[p]].list, View[p]))' = Full_PC_Set(replay[View[p]].list, View[p])
  BY <1>3, <1>6
<1>8. Rebuilt(p, s)
  BY DEF Replayed_At
<1>9. Rebuilt(p, s)'
  BY <1>3, <1>7, <1>8 DEF Rebuilt, Holds_No_Op
<1>10. \A q \in rep.list : \A told \in Report_For(q, v)' : told.execARU < s
  BY <1>3, <1>5 DEF Replayed_At
<1>11. s < rep.startSeq
  BY <1>3 DEF Replayed_At
<1> QED
  BY <1>3, <1>4, <1>9, <1>10, <1>11 DEF Replayed_At

(* An executed slot, and the one before it, stay as they are. *)
LEMMA ExecutedStays ==
  ASSUME NEW r, NEW p, NEW s, VC_Step(r), VCSlots, RoundsAgree, r \in Correct, p \in Correct,
         s \in Seqs, s <= ARU[p]
  PROVE  /\ ARU'[p] >= ARU[p]
         /\ pre_prepare'[p][s] = pre_prepare[p][s]
         /\ made_eligible'[p][s] = made_eligible[p][s]
<1>1. SlotTypes /\ SlotsOf(p) /\ ARU[p] \in Int
  BY DEF VCSlots, SlotTypes
<1>2. Filled_In(p, s)
  BY <1>1 DEF SlotsOf
<1>3. CASE p # r /\ (Acts(r) \/ Replays(r))
  <2>1. Rests(p)
    BY <1>3 DEF Acts, Replays
  <2> QED
    BY <1>1, <2>1 DEF Rests
<1>4. CASE p = r /\ Acts(r)
  <2>1. s \in 0 .. MaxSeq
    BY OrderingBounds DEF Seqs
  <2>2. pre_prepare'[r][s] = pre_prepare[r][s]
    BY <1>2, <1>4 DEF Acts, Accepts, Filled_In
  <2>3. made_eligible'[r][s] = made_eligible[r][s]
    BY <1>2, <1>4, <2>1 DEF Acts, Populates, Filled_In
  <2> QED
    BY <1>4, <2>2, <2>3 DEF Acts, Executes
<1>5. CASE p = r /\ Replays(r)
  <2>1. Kept(r, s) /\ Replays_Slot(r, s) /\ ARU'[r] >= ARU[r]
    BY <1>5 DEF Kept, Replays
  <2> QED
    BY <1>5, <2>1 DEF Replays_Slot
<1>6. CASE VIEW_Start_View_Change(r) \/ Agrees_On_Replay(r)
  <2>1. UNCHANGED <<ARU, pre_prepare, made_eligible>>
    BY <1>6, AgreesOnReplay DEF VIEW_Start_View_Change, vars, slotVars, execVars
  <2> QED
    BY <1>1, <2>1
<1> QED
  BY <1>3, <1>4, <1>5, <1>6 DEF VC_Step

(* An executed slot that came from the Replay of its view still does: over *)
(* two views its replica enters no other view, and a report never changes. *)
LEMMA ReplayedStays ==
  ASSUME NEW r, NEW p, NEW s, VC_Step(r), VCSlots, VCSlots', RoundsAgree, ReportsOnce,
         NoFirstReplay, MaxView <= 2, r \in Correct, p \in Correct,
         s \in Seqs, s <= ARU[p], Replayed_At(p, s)
  PROVE  Replayed_At(p, s)'
<1>1. SlotTypes /\ ARU[p] \in Int /\ View[p] \in Views /\ View'[p] \in Views
  BY DEF VCSlots, SlotTypes
<1>1a. s \in Int /\ s >= 1
  BY OrderingBounds DEF Seqs
<1>2. \A w \in Views : replay[w] # NoReplay => replay'[w] = replay[w]
  BY ReplayStays
<1>3. /\ pre_prepare'[p][s] = pre_prepare[p][s]
      /\ made_eligible'[p][s] = made_eligible[p][s]
  BY ExecutedStays
<1>4. s # 1 => /\ pre_prepare'[p][s - 1] = pre_prepare[p][s - 1]
               /\ made_eligible'[p][s - 1] = made_eligible[p][s - 1]
  <2> SUFFICES ASSUME s # 1
               PROVE  /\ pre_prepare'[p][s - 1] = pre_prepare[p][s - 1]
                      /\ made_eligible'[p][s - 1] = made_eligible[p][s - 1]
    OBVIOUS
  <2>1. s - 1 \in Seqs /\ s - 1 <= ARU[p]
    BY <1>1, <1>1a, OrderingBounds DEF Seqs
  <2> QED
    BY <2>1, ExecutedStays
<1>5. s = 1 => made_eligible'[p][s - 1] = made_eligible[p][s - 1]
  <2>1. made_eligible'[p][0] = 0 /\ made_eligible[p][0] = 0
    BY DEF VCSlots, SlotsOf
  <2> QED
    BY <2>1
<1>6. View'[p] = View[p]
  <2>1. CASE VIEW_Start_View_Change(r)
    <3>1. View'[r] > View[r] /\ \A q \in Correct \ {r} : View'[q] = View[q]
      BY <1>1, <2>1 DEF VIEW_Start_View_Change, SlotTypes
    <3>2. View[p] # 1
      BY DEF Replayed_At, NoFirstReplay
    <3>3. View[p] = 2
      BY <1>1, <3>2, OrderingBounds DEF Views
    <3> QED
      BY <1>1, <3>1, <3>3, OrderingBounds DEF Views
  <2>2. CASE ~VIEW_Start_View_Change(r)
    BY <2>2, AgreesOnReplay DEF VC_Step, Acts, Replays, vars, viewVars
  <2> QED
    BY <2>1, <2>2
<1>7. \A q \in Correct : Report_For(q, View[p]) # {} =>
        Report_For(q, View[p])' = Report_For(q, View[p])
  <2>1. CASE VIEW_Start_View_Change(r)
    <3>1. PICK v \in Views : v = View[p]
      BY <1>1
    <3>2. \A q \in Correct : Report_For(q, v) # {} => Report_For(q, v)' = Report_For(q, v)
      BY <2>1, StartViewChangeReports
    <3> QED
      BY <1>6, <3>1, <3>2
  <2>2. CASE ~VIEW_Start_View_Change(r)
    <3>1. report' = report
      BY <2>2, AgreesOnReplay DEF VC_Step, Acts, Replays, vars, viewVars
    <3>2. PICK v \in Views : v = View[p]
      BY <1>1
    <3>3. \A q : Report_For(q, v)' = Report_For(q, v)
      BY <3>1, SameReports
    <3> QED
      BY <1>6, <3>2, <3>3
  <2> QED
    BY <2>1, <2>2
<1>8. replay'[View[p]] = replay[View[p]]
  BY <1>1, <1>2 DEF Replayed_At
<1> QED
  BY <1>3, <1>4, <1>5, <1>6, <1>7, <1>8, ReplayedAtStays

(* What is executed now was ordered before or is, or comes from a Replay   *)
(* that asks for the state of everybody in its list.                       *)
LEMMA ExecutedHowStep ==
  ASSUME NEW r, NEW p, VC_Step(r), VCSlots, VCSlots', RoundsAgree, ReportsOnce,
         NoFirstReplay, MaxView <= 2, ExecutedHow(p), ExecutedFrom(r),
         r \in Correct, r \notin aborted, p \in Correct
  PROVE  ExecutedHow(p)'
<1> SUFFICES ASSUME NEW s \in Seqs, s <= ARU'[p]
             PROVE  s \in ordered'[p] \/ Replayed_At(p, s)'
  BY DEF ExecutedHow
<1>0. SlotTypes /\ SlotTypes'
  BY DEF VCSlots
<1>1. /\ SlotTypes /\ SlotTypes' /\ ARU[p] \in Int /\ ARU'[p] \in Int
      /\ View[p] \in Views
  <2>1. ARU \in [Correct -> 0 .. MaxSeq] /\ View \in [Correct -> Views]
    BY <1>0 DEF SlotTypes
  <2>2. ARU' \in [Correct -> 0 .. MaxSeq]
    BY <1>0 DEF SlotTypes
  <2> QED
    BY <1>0, <2>1, <2>2
<1>2. s \in Int
  BY DEF Seqs
<1>3. CASE s <= ARU[p]
  <2>1. CASE Replayed_At(p, s)
    BY <1>3, <2>1, ReplayedStays
  <2>2. CASE s \in ordered[p]
    <3>1. CASE Acts(r) \/ Replays(r)
      <4>1. CASE p = r
        BY <1>3, <2>2, <3>1, <4>1 DEF Acts, Orders, Replays, Replays_Slot, Kept
      <4>2. CASE p # r
        BY <2>2, <3>1, <4>2 DEF Acts, Replays, Rests
      <4> QED
        BY <4>1, <4>2
    <3>2. CASE VIEW_Start_View_Change(r) \/ Agrees_On_Replay(r)
      BY <2>2, <3>2, AgreesOnReplay DEF VIEW_Start_View_Change, vars, slotVars
    <3> QED
      BY <3>1, <3>2 DEF VC_Step
  <2> QED
    BY <1>3, <2>1, <2>2 DEF ExecutedHow
<1>4. CASE ~(s <= ARU[p])
  <2>1. p = r /\ (Acts(r) \/ Replays(r))
    BY <1>4, AgreesOnReplay DEF VC_Step, Acts, Replays, Rests, VIEW_Start_View_Change, vars, execVars
  <2>2. s > ARU[r]
    BY <1>1, <1>2, <1>4, <2>1
  <2>3. s \in Pending_Execution[r] => s \in ordered[r]
    BY <2>2 DEF ExecutedFrom
  <2>4. CASE Acts(r)
    BY <1>4, <2>1, <2>3, <2>4 DEF Acts, Executes, Orders
  <2>5. CASE Replays(r)
    <3> DEFINE rep == replay[View[r]]
    <3>1. Replays_Slot(r, s)
      BY <2>5 DEF Replays
    <3>2. CASE s \in Pending_Execution[r] /\ Kept(r, s)
      BY <2>1, <2>3, <3>1, <3>2 DEF Replays_Slot
    <3>3. CASE ~Kept(r, s) /\ s < rep.startSeq
      <4>1. Rebuilt(r, s)'
        BY <3>1, <3>3 DEF Replays_Slot
      <4>2. PICK v \in Views : v = View[r]
        BY <1>1, <2>1
      <4>3. PICK agreed : agreed = replay[v]
        OBVIOUS
      <4>4. /\ View'[r] = v /\ replay'[View'[r]] = agreed /\ agreed # NoReplay
            /\ s < agreed.startSeq /\ report' = report
        BY <2>5, <3>3, <4>2, <4>3 DEF Replays
      <4>5. Complete_State(r, agreed.list) /\ agreed.list \subseteq Correct
        BY <2>5, <4>2, <4>3, <4>4 DEF Replays, RoundsAgree, Agreed
      <4>6. ASSUME NEW q \in agreed.list, NEW told \in Report_For(q, v)
            PROVE  told.execARU < s
        <5>1. PICK same \in Report_For(q, v) : ARU[r] >= same.execARU
          BY <4>2, <4>5 DEF Complete_State
        <5>2. told = same
          BY <4>5, <4>6, <5>1 DEF Report_For, ReportsOnce
        <5>3. told.execARU \in Int
          BY <1>1, <4>5, <4>6 DEF Report_For, SlotTypes, Report
        <5> QED
          BY <1>1, <1>2, <2>1, <2>2, <5>1, <5>2, <5>3
      <4>7. \A q \in agreed.list : \A told \in Report_For(q, v)' : told.execARU < s
        BY <4>4, <4>6, SameReports
      <4> QED
        BY <2>1, <4>1, <4>4, <4>7 DEF Replayed_At
    <3> QED
      BY <1>4, <2>1, <2>5, <3>2, <3>3 DEF Replays
  <2> QED
    BY <2>1, <2>4, <2>5
<1> QED
  BY <1>3, <1>4

(* A leader that has its own Pre-Prepare for a number in its slot has      *)
(* proposed it, and goes on after it.                                      *)
LEMMA ProposedBefore ==
  ASSUME NEW r, NEW pp, \A m \in msgs : VoteSent(m), r \in Correct, Is_Proposed(pp, msgs),
         UTIL_Leader_Of_View[pp.view] = r
  PROVE  Pre_Prepare(r, pp) \in msgs /\ Proposal_Sent(Pre_Prepare(r, pp))
<1>1. r \notin Byzantine
  BY DEF Correct
<1>2. Pre_Prepare(r, pp) \in msgs
  BY <1>1 DEF Is_Proposed
<1>3. Pre_Prepare(r, pp).sender = r /\ Pre_Prepare(r, pp).type = "PRE_PREPARE"
  BY DEF Pre_Prepare
<1> QED
  BY <1>1, <1>2, <1>3 DEF VoteSent

(* In the first view a slot is filled in from the Pre-Prepare it holds:   *)
(* when it executes, or when its leader proposes it.                       *)
LEMMA EligibleFirstActs ==
  ASSUME NEW r, NEW s, Acts(r), VCSlots, VoteInv, EligibleFirst(r), OwnProposals(r),
         r \in Correct, r \notin aborted, s \in Seqs,
         pre_prepare'[r][s] # NoPP, made_eligible'[r][s] # Unpopulated,
         pre_prepare'[r][s].view = 1
  PROVE  made_eligible'[r][s] = Made_Eligible(pre_prepare'[r][s])
<1> DEFINE pp == pre_prepare'[r][s]
<1>1. /\ SlotTypes /\ SlotsOf(r) /\ SlotsBacked(r) /\ SentOnce /\ \A m \in msgs : VoteSent(m)
      /\ s \in 0 .. MaxSeq /\ s \in Int /\ View[r] \in Int /\ View[r] >= 1
      /\ seq[r] \in Int /\ ARU[r] \in Int
  BY OrderingBounds DEF VCSlots, VoteInv, SlotTypes, Seqs, Views
<1>2. \/ pp = pre_prepare[r][s]
      \/ pre_prepare[r][s] = NoPP /\ View_Permits(r, 1)
  BY DEF Acts, Accepts
<1>3. pp.seq = s /\ Is_Proposed(pp, msgs)
  <2>1. CASE pp = pre_prepare[r][s]
    BY <1>1, <2>1 DEF SlotsOf, SlotsBacked
  <2>2. CASE pp # pre_prepare[r][s]
    BY <1>1, <2>2 DEF Acts, Accepts, Is_Proposed
  <2> QED
    BY <2>1, <2>2
<1> HIDE DEF pp
<1>4. CASE made_eligible'[r][s] = made_eligible[r][s]
  <2>1. CASE pp = pre_prepare[r][s]
    BY <1>4, <2>1 DEF EligibleFirst, Filled_In, pp
  <2>2. CASE pre_prepare[r][s] = NoPP /\ View_Permits(r, 1)
    <3>1. ~(View[r] > 1 /\ view_change_done[r])
      BY <1>1, <2>2 DEF View_Permits
    <3>2. PICK m \in msgs : /\ m.type = "PRE_PREPARE" /\ m.sender = r /\ m.pp.seq = s /\ m.pp.view = 1
                            /\ made_eligible[r][s] = Made_Eligible(m.pp)
      BY <1>4, <2>2, <3>1 DEF OwnProposals, Sent
    <3>3. UTIL_Leader_Of_View[1] = r /\ r \notin Byzantine
      BY <1>1, <3>2 DEF VoteSent, Proposal_Sent, Correct
    <3>4. Pre_Prepare(r, pp) \in msgs
      BY <1>1, <1>3, <3>3, ProposedBefore DEF pp
    <3>5. Same_Vote(m, Pre_Prepare(r, pp)) /\ Pre_Prepare(r, pp).pp = pp
      BY <1>3, <3>2, <3>3 DEF Same_Vote, Pre_Prepare, pp
    <3> QED
      BY <1>1, <1>4, <3>2, <3>4, <3>5 DEF SentOnce, pp
  <2> QED
    BY <1>2, <2>1, <2>2
<1>5. CASE made_eligible'[r][s] # made_eligible[r][s]
  <2>1. made_eligible[r][s] = Unpopulated
    BY <1>1, <1>5 DEF Acts, Populates
  <2>2. ASSUME NEW n, Proposal(r, n), n.pp.seq = s PROVE FALSE
    <3>1. seq[r] = s /\ I_Am_Leader(r) /\ view_change_done[r]
      BY <2>2 DEF Proposal
    <3>2. View[r] = 1
      <4>1. CASE pp = pre_prepare[r][s]
        <5>1. ~(s <= ARU[r])
          BY <1>1, <2>1 DEF SlotsOf, Filled_In
        <5> QED
          BY <1>1, <3>1, <4>1, <5>1 DEF SlotsOf, pp
      <4>2. CASE View_Permits(r, 1)
        BY <3>1, <4>2 DEF View_Permits
      <4> QED
        BY <1>2, <4>1, <4>2
    <3>3. UTIL_Leader_Of_View[pp.view] = r /\ pp.view = 1
      BY <3>1, <3>2 DEF I_Am_Leader, pp
    <3>4. Proposal_Sent(Pre_Prepare(r, pp))
      BY <1>1, <1>3, <3>3, ProposedBefore
    <3>5. Pre_Prepare(r, pp).pp = pp /\ Pre_Prepare(r, pp).sender = r
      BY DEF Pre_Prepare
    <3>6. s < seq[r]
      BY <1>3, <3>2, <3>3, <3>4, <3>5 DEF Proposal_Sent
    <3> QED
      BY <1>1, <3>1, <3>6
  <2> QED
    BY <1>1, <1>5, <2>2 DEF Acts, Populates, pp
<1> QED
  BY <1>4, <1>5

(* It stays so over the view change: a Replay copies the Pre-Prepares of   *)
(* the slots it rebuilds, and computes what they make eligible.            *)
LEMMA EligibleFirstStep ==
  ASSUME NEW r, NEW p, VC_Step(r), VCSlots, RoundsAgree, VoteInv, EligibleFirst(p), OwnProposals(p),
         r \in Correct, p \in Correct, r \notin aborted
  PROVE  EligibleFirst(p)'
<1> SUFFICES ASSUME NEW s \in Seqs,
                    pre_prepare'[p][s] # NoPP, made_eligible'[p][s] # Unpopulated,
                    pre_prepare'[p][s].view = 1
             PROVE  made_eligible'[p][s] = Made_Eligible(pre_prepare'[p][s])
  BY DEF EligibleFirst, Filled_In
<1>1. CASE p = r /\ Acts(r)
  BY <1>1, EligibleFirstActs
<1>2. CASE p = r /\ Replays(r)
  <2>1. Replays_Slot(r, s)
    BY <1>2 DEF Replays
  <2>2. CASE Kept(r, s)
    BY <1>2, <2>1, <2>2 DEF Replays_Slot, EligibleFirst, Filled_In
  <2>3. CASE ~Kept(r, s)
    <3>1. Rebuilt(r, s)'
      BY <1>2, <2>1, <2>3 DEF Replays_Slot
    <3>2. ~Holds_No_Op(r, s)'
      <4>1. Holds_No_Op(r, s)' => pre_prepare'[r][s].view = 0
        BY DEF Holds_No_Op
      <4> QED
        BY <1>2, <4>1
    <3> QED
      BY <1>2, <3>1, <3>2 DEF Rebuilt
  <2> QED
    BY <2>2, <2>3
<1>3. CASE p # r /\ (Acts(r) \/ Replays(r))
  BY <1>3 DEF Acts, Replays, Rests, EligibleFirst, Filled_In
<1>4. CASE VIEW_Start_View_Change(r) \/ Agrees_On_Replay(r)
  <2>1. UNCHANGED <<pre_prepare, made_eligible>>
    BY <1>4, AgreesOnReplay DEF VIEW_Start_View_Change, vars, slotVars, execVars
  <2> QED
    BY <2>1 DEF EligibleFirst, Filled_In
<1> QED
  BY <1>1, <1>2, <1>3, <1>4 DEF VC_Step

(* A slot that is filled in and has no Pre-Prepare is the own proposal of  *)
(* the leader of the first view, until that one has the Replay.            *)
LEMMA OwnProposalsStep ==
  ASSUME NEW r, NEW p, VC_Step(r), VCSlots, RoundsAgree, NoFirstReplay, MaxView <= 2,
         OwnProposals(p), r \in Correct, p \in Correct, r \notin aborted
  PROVE  OwnProposals(p)'
<1> SUFFICES ASSUME p \notin aborted', ~(View'[p] > 1 /\ view_change_done'[p]), NEW s \in Seqs,
                    pre_prepare'[p][s] = NoPP, made_eligible'[p][s] # Unpopulated
             PROVE  \E m \in msgs' : /\ m.type = "PRE_PREPARE"
                                     /\ m.sender = p /\ m.pp.seq = s /\ m.pp.view = 1
                                     /\ made_eligible'[p][s] = Made_Eligible(m.pp)
  BY DEF OwnProposals, Sent
<1>0. SlotTypes
  BY DEF VCSlots
<1>1. SlotTypes /\ View[p] \in Int /\ View[p] >= 1 /\ s \in 0 .. MaxSeq
  <2>1. View[p] \in Views
    BY <1>0 DEF SlotTypes
  <2> QED
    BY <1>0, <2>1, OrderingBounds DEF Views, Seqs
<1>2. ASSUME p \notin aborted, ~(View[p] > 1 /\ view_change_done[p]),
             pre_prepare[p][s] = NoPP, made_eligible[p][s] = made_eligible'[p][s], msgs \subseteq msgs'
      PROVE  \E m \in msgs' : /\ m.type = "PRE_PREPARE"
                              /\ m.sender = p /\ m.pp.seq = s /\ m.pp.view = 1
                              /\ made_eligible'[p][s] = Made_Eligible(m.pp)
  BY <1>2 DEF OwnProposals, Sent
<1>3. CASE p = r /\ Acts(r) /\ UNCHANGED vcVars
  <2>1. /\ UNCHANGED <<View, view_change_done, aborted>> /\ msgs \subseteq msgs'
        /\ pre_prepare[r][s] = NoPP
    BY <1>3, OrderingBounds DEF Acts, vcVars, Sends, Accepts
  <2>2. CASE made_eligible'[r][s] = made_eligible[r][s]
    BY <1>2, <1>3, <2>1, <2>2
  <2>3. CASE made_eligible'[r][s] # made_eligible[r][s]
    <3>1. PICK n \in msgs' : /\ Proposal(r, n) /\ n.pp.seq = s
                             /\ made_eligible'[r][s] = Made_Eligible(n.pp)
      BY <1>1, <1>3, <2>3 DEF Acts, Populates
    <3>2. n.type = "PRE_PREPARE" /\ n.sender = r /\ n.pp.view = View[r] /\ view_change_done[r]
      BY <3>1 DEF Proposal
    <3>3. View[r] = 1
      BY <1>1, <1>3, <2>1, <3>2
    <3> QED
      BY <1>3, <3>1, <3>2, <3>3
  <2> QED
    BY <2>2, <2>3
<1>4. CASE p = r /\ Replays(r)
  <2>1. ~view_change_done[r] /\ View' = View /\ View[r] # 1
    BY <1>4 DEF Replays, NoFirstReplay
  <2>2. View'[r] > 1
    BY <1>1, <1>4, <2>1
  <2> QED
    BY <1>4, <2>2 DEF Replays
<1>5. CASE p # r /\ ((Acts(r) /\ UNCHANGED vcVars) \/ Replays(r))
  <2>1. /\ Rests(p) /\ View'[p] = View[p] /\ view_change_done'[p] = view_change_done[p]
        /\ (p \in aborted => p \in aborted') /\ msgs \subseteq msgs'
    BY <1>5 DEF Acts, Replays, Sends, vcVars
  <2> QED
    BY <1>2, <2>1 DEF Rests
<1>6. CASE VIEW_Start_View_Change(r) /\ UNCHANGED vcVars
  <2>1. /\ UNCHANGED <<pre_prepare, made_eligible, msgs, aborted>>
        /\ View'[r] > View[r] /\ View'[r] \in Views
        /\ \A q \in Correct \ {r} : View'[q] = View[q] /\ view_change_done'[q] = view_change_done[q]
    BY <1>1, <1>6 DEF VIEW_Start_View_Change, SlotTypes, slotVars, execVars, vcVars
  <2>2. p = r => View[p] = 1
    BY <1>1, <2>1, OrderingBounds DEF Views
  <2> QED
    BY <1>2, <2>1, <2>2
<1>7. CASE Agrees_On_Replay(r)
  <2>1. UNCHANGED <<View, view_change_done, pre_prepare, made_eligible, msgs, aborted>>
    BY <1>7, AgreesOnReplay DEF vars, viewVars, slotVars, execVars
  <2> QED
    BY <1>2, <2>1
<1> QED
  BY <1>3, <1>4, <1>5, <1>6, <1>7 DEF VC_Step

(* What holds over two views, in the initial state ... *)
LEMMA TwoViewInit ==
  ASSUME VCInit
  PROVE  TwoViewInv
<1>1. VCInv /\ VoteInv
  BY VCInvInit, VoteInvInit
<1>2. ASSUME NEW r \in Correct PROVE ExecutedHow(r) /\ EligibleFirst(r) /\ OwnProposals(r)
  <2>1. /\ ARU[r] = 0
        /\ \A s \in Seqs : pre_prepare[r][s] = NoPP /\ made_eligible[r][s] = Unpopulated
    BY OrderingBounds DEF VCInit, Init, EmptySlots, Seqs
  <2>2. \A s \in Seqs : ~(s <= 0)
    BY DEF Seqs
  <2> QED
    BY <2>1, <2>2 DEF ExecutedHow, EligibleFirst, OwnProposals, Filled_In
<1> QED
  BY <1>1, <1>2 DEF TwoViewInv

(* ... and after every step. *)
LEMMA TwoViewStep ==
  ASSUME MaxView <= 2, TwoViewInv, [VCNext]_allVars
  PROVE  TwoViewInv'
<1>0. VCInv /\ VoteInv /\ VCSlots /\ RoundsAgree /\ ReportsOnce /\ CommitsCounted /\ NoFirstReplay
  BY DEF TwoViewInv, VCInv
<1>1. VCInv' /\ VoteInv' /\ VCSlots'
  <2>1. VCInv' /\ VoteInv'
    BY <1>0, VCInvStep, VoteInvStep
  <2> QED
    BY <2>1 DEF VCInv
<1>2. CASE VCNext
  <2>1. PICK r \in Correct \ aborted : VC_Step(r)
    BY <1>0, <1>2, VCNextSteps
  <2>2. ASSUME NEW p \in Correct PROVE ExecutedHow(p)'
    BY <1>0, <1>1, <2>1, ExecutedHowStep DEF TwoViewInv, VCInv
  <2>3. ASSUME NEW p \in Correct PROVE EligibleFirst(p)' /\ OwnProposals(p)'
    BY <1>0, <2>1, EligibleFirstStep, OwnProposalsStep DEF TwoViewInv
  <2> QED
    BY <1>1, <2>2, <2>3 DEF TwoViewInv
<1>3. CASE UNCHANGED allVars
  <2>1. UNCHANGED <<View, view_change_done, report, ARU, pre_prepare, ordered, made_eligible,
                    msgs, replay, aborted>>
    BY <1>3 DEF allVars, vars, viewVars, slotVars, execVars, vcVars
  <2>2. \A p \in Correct : EligibleFirst(p)' /\ OwnProposals(p)'
    BY <2>1 DEF TwoViewInv, EligibleFirst, OwnProposals, Filled_In, Sent
  <2>3. ASSUME NEW p \in Correct PROVE ExecutedHow(p)'
    <3>1. \A q, w : Report_For(q, w)' = Report_For(q, w)
      BY <2>1 DEF Report_For
    <3>2. ASSUME NEW s \in Seqs, Replayed_At(p, s) PROVE Replayed_At(p, s)'
      BY <1>0, <2>1, <3>1, <3>2, ReplayedAtStays
    <3> QED
      BY <2>1, <3>2 DEF TwoViewInv, ExecutedHow
  <2> QED
    BY <1>1, <2>2, <2>3 DEF TwoViewInv
<1> QED
  BY <1>2, <1>3

(* Proposals, Prepares and Commits are backed as VoteInv says, over any    *)
(* number of views.                                                        *)
THEOREM VoteInvariant == VCSpec => []VoteInv
<1>1. VCInit => VCInv /\ VoteInv
  BY VCInvInit, VoteInvInit
<1>2. VCInv /\ VoteInv /\ [VCNext]_allVars => VCInv' /\ VoteInv'
  BY VCInvStep, VoteInvStep
<1> QED
  BY <1>1, <1>2, PTL DEF VCSpec

(* Over two views, what is executed was ordered or comes from the Replay.  *)
THEOREM TwoViewInvariant ==
  ASSUME MaxView <= 2
  PROVE  VCSpec => []TwoViewInv
<1>1. VCInit => TwoViewInv
  BY TwoViewInit
<1>2. TwoViewInv /\ [VCNext]_allVars => TwoViewInv'
  BY TwoViewStep
<1> QED
  BY <1>1, <1>2, PTL DEF VCSpec

-----------------------------------------------------------------------------
(* An ordered slot holds a Pre-Prepare to which a correct replica has      *)
(* committed.                                                              *)
LEMMA OrderedEntry ==
  ASSUME NEW r, NEW s, VCInv, r \in Correct, s \in ordered[r]
  PROVE  /\ s \in Seqs
         /\ pre_prepare[r][s] \in PrePrepare /\ pre_prepare[r][s].seq = s
         /\ \E q \in Servers \ Byzantine : Commit(q, pre_prepare[r][s]) \in msgs
<1> DEFINE A == {q \in Servers : commit[r][s][q] = pre_prepare[r][s]}
<1>1. SlotTypes /\ SlotsOf(r) /\ CommitsStored(r)
  BY DEF VCInv, VCSlots
<1>2. s \in Seqs
  BY <1>1 DEF SlotTypes
<1>3. pre_prepare[r][s] # NoPP /\ Cardinality(A) >= Quorum /\ A \in SUBSET Servers
  BY <1>1, <1>2 DEF CommitsStored
<1>4. PICK q \in A : q \notin Byzantine
  BY <1>3, QuorumsMeet
<1>5. q \in Servers /\ commit[r][s][q] = pre_prepare[r][s]
  BY <1>4
<1>6. commit[r][s][q] \in PrePrepare \cup {NoPP}
  BY <1>1, <1>2, <1>5 DEF SlotTypes
<1>7. Commit(q, commit[r][s][q]) \in msgs /\ commit[r][s][q].seq = s
  BY <1>1, <1>2, <1>3, <1>4, <1>5 DEF CommitsStored
<1> QED
  BY <1>2, <1>3, <1>4, <1>5, <1>6, <1>7

(* What is ordered for a number in one view is one Pre-Prepare: of the     *)
(* replicas that committed to each, a correct one has committed to both.   *)
LEMMA OrderedOfOneView ==
  ASSUME NEW r, NEW p, NEW s, VCInv, VoteInv, r \in Correct, p \in Correct,
         s \in ordered[r], s \in ordered[p], pre_prepare[r][s].view = pre_prepare[p][s].view
  PROVE  pre_prepare[r][s] = pre_prepare[p][s]
<1> DEFINE A == {q \in Servers : commit[r][s][q] = pre_prepare[r][s]}
           B == {q \in Servers : commit[p][s][q] = pre_prepare[p][s]}
<1>1. /\ SlotTypes /\ CommitsStored(r) /\ CommitsStored(p) /\ SentOnce /\ s \in Seqs
      /\ pre_prepare[r][s].seq = s /\ pre_prepare[p][s].seq = s
  BY OrderedEntry DEF VCInv, VCSlots, VoteInv
<1>2. /\ pre_prepare[r][s] # NoPP /\ Cardinality(A) >= Quorum /\ A \in SUBSET Servers
      /\ pre_prepare[p][s] # NoPP /\ Cardinality(B) >= Quorum /\ B \in SUBSET Servers
  BY <1>1 DEF CommitsStored
<1>3. PICK q \in A \cap B : q \notin Byzantine
  BY <1>2, QuorumsMeet
<1>4. q \in Servers /\ commit[r][s][q] = pre_prepare[r][s] /\ commit[p][s][q] = pre_prepare[p][s]
  BY <1>3
<1>5. PICK x : x = pre_prepare[r][s]
  OBVIOUS
<1>6. PICK y : y = pre_prepare[p][s]
  OBVIOUS
<1>7. Commit(q, x) \in msgs /\ Commit(q, y) \in msgs
  BY <1>1, <1>2, <1>3, <1>4, <1>5, <1>6 DEF CommitsStored
<1>8. Same_Vote(Commit(q, x), Commit(q, y)) /\ Commit(q, x).pp = x /\ Commit(q, y).pp = y
  BY <1>1, <1>3, <1>5, <1>6 DEF Same_Vote, Commit
<1> QED
  BY <1>1, <1>5, <1>6, <1>7, <1>8 DEF SentOnce

(* The leader of a new view proposes nothing before the startSeq of its    *)
(* Replay, so no slot holds a Pre-Prepare of that view there.              *)
LEMMA ProposedAfterReplay ==
  ASSUME NEW p, NEW s, NEW v, VCInv, VoteInv, p \in Correct, s \in Seqs, v \in Views, v > 1,
         pre_prepare[p][s] # NoPP, pre_prepare[p][s].view = v, replay[v] # NoReplay
  PROVE  ~(s < replay[v].startSeq)
<1>1. /\ SlotsOf(p) /\ SlotsBacked(p) /\ CorrectReplays /\ RoundTypes
      /\ \A m \in msgs : VoteSent(m)
  BY DEF VCInv, VCSlots, VoteInv
<1>2. PICK pp : pp = pre_prepare[p][s]
  OBVIOUS
<1>3. pp.seq = s /\ pp.view = v /\ Is_Proposed(pp, msgs)
  <2>1. v > 0 /\ v \in Int
    BY DEF Views
  <2> QED
    BY <1>1, <1>2, <2>1 DEF SlotsOf, SlotsBacked
<1>4. PICK l \in Correct : l = UTIL_Leader_Of_View[v]
  BY <1>1 DEF CorrectReplays
<1>5. Proposal_Sent(Pre_Prepare(l, pp))
  BY <1>1, <1>3, <1>4, ProposedBefore
<1>6. Pre_Prepare(l, pp).pp = pp
  BY DEF Pre_Prepare
<1>7. s >= replay[v].startSeq
  BY <1>3, <1>5, <1>6 DEF Proposal_Sent
<1>8. s \in Int /\ replay[v].startSeq \in Int
  BY <1>1 DEF RoundTypes, Replay, Seqs
<1> QED
  BY <1>7, <1>8

(* Over two views, what two replicas have ordered for a number is one      *)
(* Pre-Prepare.                                                            *)
LEMMA OrderedAlike ==
  ASSUME NEW r, NEW p, NEW s, MaxView <= 2, VCInv, VoteInv, r \in Correct, p \in Correct,
         s \in ordered[r], s \in ordered[p]
  PROVE  pre_prepare[r][s] = pre_prepare[p][s]
<1>1. ASSUME NEW x \in Correct, NEW y \in Correct, s \in ordered[x], s \in ordered[y],
             pre_prepare[x][s].view = 1, pre_prepare[y][s].view = 2
      PROVE  FALSE
  <2>1. pre_prepare[y][s] \in PrePrepare /\ s \in Seqs
    BY <1>1, OrderedEntry
  <2>2. PICK q \in Servers \ Byzantine : Commit(q, pre_prepare[y][s]) \in msgs
    BY <1>1, OrderedEntry
  <2>3. /\ Commit(q, pre_prepare[y][s]).type = "COMMIT"
        /\ Commit(q, pre_prepare[y][s]).sender = q
        /\ Commit(q, pre_prepare[y][s]).pp = pre_prepare[y][s]
    BY DEF Commit
  <2>4. Commit_Sent(Commit(q, pre_prepare[y][s]))
    BY <2>2, <2>3 DEF VoteInv, VoteSent
  <2>5. 2 \in Views /\ replay[2] # NoReplay
    BY <1>1, <2>1, <2>3, <2>4 DEF Commit_Sent, PrePrepare
  <2>6. s < replay[2].startSeq
    BY <1>1, <2>5, OrderedLiesBefore DEF OrderedIsReplayed
  <2>7. pre_prepare[y][s] # NoPP
    BY <2>1, OrderingBounds
  <2> QED
    BY <1>1, <2>1, <2>5, <2>6, <2>7, ProposedAfterReplay
<1>2. pre_prepare[r][s].view \in {1, 2} /\ pre_prepare[p][s].view \in {1, 2}
  <2>1. pre_prepare[r][s].view \in Views /\ pre_prepare[p][s].view \in Views
    BY OrderedEntry DEF PrePrepare
  <2> QED
    BY <2>1, OrderingBounds DEF Views
<1> QED
  BY <1>1, <1>2, OrderedOfOneView

(* What a Replay copies is certified in the first view.                    *)
LEMMA CopiedIsCertified ==
  ASSUME NEW s, MaxView <= 2, VCInv, VoteInv, s \in Seqs, 2 \in Views, replay[2] # NoReplay,
         Full_PC_Set(replay[2].list, 2)[s] # NoPP
  PROVE  /\ Certifiable(Full_PC_Set(replay[2].list, 2)[s], msgs)
         /\ Full_PC_Set(replay[2].list, 2)[s].seq = s
         /\ Full_PC_Set(replay[2].list, 2)[s].view = 1
<1>1. /\ SlotTypes /\ Agreed(replay[2], 2) /\ ReportsOnce
      /\ \A q \in Correct : SlotsBacked(q)
  BY DEF VCInv, VCSlots, RoundsAgree, VoteInv
<1>2. replay[2].list \in SUBSET Correct
  BY <1>1 DEF Agreed
<1>3. PICK list : list = replay[2].list
  OBVIOUS
<1>4. PICK full : full = Full_PC_Set(list, 2)[s]
  OBVIOUS
<1>5. /\ full \in PrePrepare /\ full.seq = s
      /\ \E q \in list : \E rep \in Report_For(q, 2) : full \in rep.pc_set
  BY <1>1, <1>2, <1>3, <1>4, FullFromReports
<1>6. PICK q \in Correct : \E rep \in report[q] : rep.view = 2 /\ full \in rep.pc_set
  BY <1>2, <1>3, <1>5 DEF Report_For
<1>7. Certifiable(full, msgs) /\ full.view < 2
  BY <1>1, <1>6 DEF SlotsBacked, ReportsOnce
<1>8. full.view = 1
  BY <1>5, <1>7 DEF PrePrepare, Views
<1> QED
  BY <1>3, <1>4, <1>5, <1>7, <1>8

(* A slot that comes from a Replay does so in the second view. *)
LEMMA ReplayedInSecond ==
  ASSUME NEW p, NEW s, MaxView <= 2, VCInv, p \in Correct, Replayed_At(p, s)
  PROVE  View[p] = 2 /\ 2 \in Views /\ replay[2] # NoReplay /\ s < replay[2].startSeq
<1>1. SlotTypes /\ NoFirstReplay
  BY DEF VCInv, VCSlots
<1>2. View[p] \in Views
  BY <1>1 DEF SlotTypes
<1>3. replay[View[p]] # NoReplay /\ s < replay[View[p]].startSeq
  BY DEF Replayed_At
<1>4. View[p] # 1
  BY <1>1, <1>3 DEF NoFirstReplay
<1>5. View[p] = 2
  BY <1>2, <1>4, OrderingBounds DEF Views
<1> QED
  BY <1>2, <1>3, <1>5

(* What was ordered and is not reported as executed is what a Replay puts  *)
(* in the slot: a correct replica of the list reports a certificate for    *)
(* it, and no other is certified.                                          *)
LEMMA OrderedIsCopied ==
  ASSUME NEW r, NEW p, NEW s, MaxView <= 2, VCInv, VoteInv, r \in Correct, p \in Correct,
         s \in ordered[r], Replayed_At(p, s)
  PROVE  pre_prepare[r][s] = pre_prepare[p][s]
<1>1. View[p] = 2 /\ 2 \in Views /\ replay[2] # NoReplay /\ s < replay[2].startSeq
  BY ReplayedInSecond
<1>2. PICK pp : pp = pre_prepare[r][s]
  OBVIOUS
<1>3. s \in Seqs /\ s \in Int /\ pp \in PrePrepare /\ pp # NoPP /\ pp.seq = s
  BY <1>2, OrderedEntry, OrderingBounds DEF Seqs
<1>4. pp.view = 1
  <2>1. pp.view # 2
    BY <1>1, <1>2, <1>3, ProposedAfterReplay
  <2>2. pp.view \in Views
    BY <1>3 DEF PrePrepare
  <2> QED
    BY <2>1, <2>2, OrderingBounds DEF Views
<1>5. PICK list : list = replay[2].list
  OBVIOUS
<1>6. /\ SlotTypes /\ list \in SUBSET Correct /\ ReportsOnce
      /\ \A q \in Correct : SlotsBacked(q)
  BY <1>1, <1>5 DEF VCInv, VCSlots, RoundsAgree, Agreed, VoteInv
<1>7. PICK q \in list : \E told \in Report_For(q, 2) : told.execARU >= s \/ pp \in told.pc_set
  BY <1>1, <1>2, <1>3, <1>4, <1>5, CommittedIsCounted
<1>8. PICK told \in Report_For(q, 2) : told.execARU >= s \/ pp \in told.pc_set
  BY <1>7
<1>9. told.execARU < s /\ told.execARU \in Int
  <2>1. told.execARU < s
    BY <1>1, <1>5, <1>7, <1>8 DEF Replayed_At
  <2>2. told \in Report
    BY <1>6, <1>7, <1>8 DEF Report_For, SlotTypes
  <2> QED
    BY <2>1, <2>2 DEF Report
<1>10. pp \in told.pc_set
  BY <1>3, <1>8, <1>9
<1>11. Certifiable(pp, msgs)
  BY <1>6, <1>7, <1>8, <1>10 DEF SlotsBacked, Report_For
<1>12. PICK full : full = Full_PC_Set(list, 2)[s]
  OBVIOUS
<1>13. full # NoPP
  BY <1>3, <1>6, <1>7, <1>8, <1>10, <1>12, FullFromReports, OrderingBounds
<1>14. Certifiable(full, msgs) /\ full.seq = s /\ full.view = 1
  BY <1>1, <1>3, <1>5, <1>12, <1>13, CopiedIsCertified
<1>15. full = pp
  BY <1>3, <1>4, <1>11, <1>14, OneCertificate
<1>16. pre_prepare[p][s] = full
  BY <1>1, <1>5, <1>12, <1>13 DEF Replayed_At, Rebuilt
<1> QED
  BY <1>2, <1>15, <1>16

(* Before the startSeq, two replicas that have executed the same           *)
(* Pre-Prepare have made the same eligible with it.                        *)
LEMMA EligibleAlike ==
  ASSUME NEW r, NEW p, NEW s, MaxView <= 2, TwoViewInv, r \in Correct, p \in Correct, s \in Seqs,
         s <= ARU[r], s <= ARU[p], pre_prepare[r][s] = pre_prepare[p][s],
         2 \in Views, replay[2] # NoReplay, s < replay[2].startSeq
  PROVE  made_eligible[r][s] = made_eligible[p][s]
<1>1. /\ VCInv /\ VoteInv /\ SlotTypes /\ SlotsOf(r) /\ SlotsOf(p)
      /\ EligibleFirst(r) /\ EligibleFirst(p) /\ ExecutedHow(r) /\ ExecutedHow(p)
  BY DEF TwoViewInv, VCInv, VCSlots
<1>2. PICK pp : pp = pre_prepare[r][s]
  OBVIOUS
<1>3. Filled_In(r, s) /\ Filled_In(p, s)
  BY <1>1 DEF SlotsOf
<1>4. pp \in LogEntry /\ pp # NoPP
  BY <1>1, <1>2, <1>3 DEF SlotTypes, Filled_In
<1>5. pp.view \in 0 .. 2
  BY <1>4, OrderingBounds DEF LogEntry
<1>6. CASE pp.view = 1
  BY <1>1, <1>2, <1>3, <1>6 DEF EligibleFirst
<1>7. CASE pp.view = 2
  BY <1>1, <1>2, <1>4, <1>7, ProposedAfterReplay
<1>8. CASE pp.view = 0
  <2>1. ASSUME NEW q \in Correct, pre_prepare[q][s] = pp, s <= ARU[q], ExecutedHow(q)
        PROVE  made_eligible[q][s] =
                 No_Op_Eligible(pp, Full_PC_Set(replay[2].list, 2), s, replay[2].startSeq)
    <3>1. s \notin ordered[q]
      <4>1. pp \notin PrePrepare
        BY <1>8 DEF PrePrepare, Views
      <4> QED
        BY <1>1, <2>1, <4>1, OrderedEntry
    <3>2. Replayed_At(q, s)
      BY <2>1, <3>1 DEF ExecutedHow
    <3>3. View[q] = 2
      BY <1>1, <2>1, <3>2, ReplayedInSecond
    <3>4. Full_PC_Set(replay[2].list, 2)[s] # NoPP => Full_PC_Set(replay[2].list, 2)[s] # pp
      BY <1>1, <1>8, CopiedIsCertified
    <3> QED
      BY <2>1, <3>2, <3>3, <3>4 DEF Replayed_At, Rebuilt
  <2> QED
    BY <1>1, <1>2, <2>1
<1> QED
  BY <1>5, <1>6, <1>7, <1>8

(* Two replicas with the same slot before it rebuild a slot alike. *)
LEMMA ReplayedAlike ==
  ASSUME NEW r, NEW p, NEW s, MaxView <= 2, TwoViewInv, r \in Correct, p \in Correct, s \in Seqs,
         s <= ARU[r], s <= ARU[p], Replayed_At(r, s), Replayed_At(p, s),
         s # 1 => pre_prepare[r][s - 1] = pre_prepare[p][s - 1]
  PROVE  pre_prepare[r][s] = pre_prepare[p][s]
<1>1. VCInv /\ SlotTypes /\ SlotsOf(r) /\ SlotsOf(p) /\ RoundTypes
  BY DEF TwoViewInv, VCInv, VCSlots
<1>2. View[r] = 2 /\ View[p] = 2 /\ 2 \in Views /\ replay[2] # NoReplay /\ s < replay[2].startSeq
  BY <1>1, ReplayedInSecond
<1>3. PICK full : full = Full_PC_Set(replay[2].list, 2)[s]
  OBVIOUS
<1>4. CASE full # NoPP
  BY <1>2, <1>3, <1>4 DEF Replayed_At, Rebuilt
<1>5. CASE full = NoPP
  <2>1. Holds_No_Op(r, s) /\ Holds_No_Op(p, s)
    BY <1>2, <1>3, <1>5 DEF Replayed_At, Rebuilt
  <2>2. made_eligible[r][s - 1] = made_eligible[p][s - 1]
    <3>1. CASE s = 1
      BY <1>1, <3>1 DEF SlotsOf
    <3>2. CASE s # 1
      <4>1. ARU[r] \in Int /\ ARU[p] \in Int /\ replay[2].startSeq \in Int
        BY <1>1, <1>2 DEF SlotTypes, RoundTypes, Replay
      <4>2. s - 1 \in Seqs /\ s - 1 <= ARU[r] /\ s - 1 <= ARU[p] /\ s - 1 < replay[2].startSeq
        BY <1>2, <3>2, <4>1, OrderingBounds DEF Seqs
      <4> QED
        BY <1>2, <3>2, <4>2, EligibleAlike
    <3> QED
      BY <3>1, <3>2
  <2> QED
    BY <2>1, <2>2 DEF Holds_No_Op
<1> QED
  BY <1>4, <1>5

(* Agreement, slot by slot: the first one in which two replicas differ     *)
(* would have to be rebuilt from a slot before it in which they do not.    *)
LEMMA TwoViewsAgree ==
  ASSUME MaxView <= 2, TwoViewInv
  PROVE  OrderAgreement
<1> DEFINE Differ(s) == \E r, p \in Correct : /\ s <= ARU[r] /\ s <= ARU[p]
                                              /\ pre_prepare[r][s] # pre_prepare[p][s]
           bad == {s \in Seqs : Differ(s)}
<1> SUFFICES ASSUME bad # {} PROVE FALSE
  BY DEF OrderAgreement
<1>1. bad \in SUBSET Nat
  BY DEF Seqs
<1>2. PICK s \in bad : \A n \in bad : s <= n
  BY <1>1, SmallestExists
<1>3. s \in Seqs /\ s \in Int /\ Differ(s)
  BY <1>2 DEF Seqs
<1>4. s # 1 => s - 1 \in Seqs /\ ~Differ(s - 1)
  <2>1. s - 1 \notin bad
    BY <1>2, <1>3
  <2>2. s # 1 => s - 1 \in Seqs
    BY <1>3, OrderingBounds DEF Seqs
  <2> QED
    BY <2>1, <2>2
<1>5. PICK r \in Correct : \E p \in Correct :
        s <= ARU[r] /\ s <= ARU[p] /\ pre_prepare[r][s] # pre_prepare[p][s]
  BY <1>3
<1>6. PICK p \in Correct : s <= ARU[r] /\ s <= ARU[p] /\ pre_prepare[r][s] # pre_prepare[p][s]
  BY <1>5
<1>7. VCInv /\ VoteInv /\ SlotTypes /\ ExecutedHow(r) /\ ExecutedHow(p)
  BY DEF TwoViewInv, VCInv, VCSlots
<1>8. s # 1 => pre_prepare[r][s - 1] = pre_prepare[p][s - 1]
  <2>1. ARU[r] \in Int /\ ARU[p] \in Int
    BY <1>7 DEF SlotTypes
  <2>2. s - 1 <= ARU[r] /\ s - 1 <= ARU[p]
    BY <1>3, <1>6, <2>1
  <2> QED
    BY <1>4, <2>2
<1> HIDE DEF bad, Differ
<1>9. CASE s \in ordered[r] /\ s \in ordered[p]
  BY <1>6, <1>7, <1>9, OrderedAlike
<1>10. CASE s \in ordered[r] /\ Replayed_At(p, s)
  BY <1>6, <1>7, <1>10, OrderedIsCopied
<1>11. CASE s \in ordered[p] /\ Replayed_At(r, s)
  BY <1>6, <1>7, <1>11, OrderedIsCopied
<1>12. CASE Replayed_At(r, s) /\ Replayed_At(p, s)
  BY <1>3, <1>6, <1>8, <1>12, ReplayedAlike
<1> QED
  BY <1>3, <1>6, <1>7, <1>9, <1>10, <1>11, <1>12 DEF ExecutedHow

(* Two replicas never execute different Pre-Prepares for a number, before  *)
(* and after a view change, whatever Byzantine servers send in ordering    *)
(* and whichever reports the Replay was agreed on.  With a third view this *)
(* fails: see the runs vc_merge and vc_overtaken.                          *)
THEOREM VCOrderAgreement ==
  ASSUME MaxView <= 2
  PROVE  VCSpec => []OrderAgreement
<1>1. TwoViewInv => OrderAgreement
  BY TwoViewsAgree
<1> QED
  BY <1>1, TwoViewInvariant, PTL

-----------------------------------------------------------------------------
(* The log over a view change: it has what any replica has executed, also  *)
(* the no-ops of a Replay, and nothing else.                               *)
VCLogFacts ==
  \A s \in Seqs :
    /\ Executed_Log[s] \in LogEntry \cup {NoPP}
    /\ \A r \in Correct : s <= ARU[r] =>
         Executed_Log[s] = pre_prepare[r][s] /\ Executed_Log[s] # NoPP
    /\ (\A r \in Correct : ~(s <= ARU[r])) => Executed_Log[s] = NoPP

(* By agreement, whoever is asked for an executed slot answers the same. *)
LEMMA VCLogHolds ==
  ASSUME MaxView <= 2, TwoViewInv
  PROVE  VCLogFacts
<1> SUFFICES ASSUME NEW s \in Seqs
             PROVE  /\ Executed_Log[s] \in LogEntry \cup {NoPP}
                    /\ \A r \in Correct : s <= ARU[r] =>
                         Executed_Log[s] = pre_prepare[r][s] /\ Executed_Log[s] # NoPP
                    /\ (\A r \in Correct : ~(s <= ARU[r])) => Executed_Log[s] = NoPP
  BY DEF VCLogFacts
<1> DEFINE at == Executed_At(s)
<1>1. Executed_Log[s] = IF at = {} THEN NoPP ELSE CHOOSE pp \in at : TRUE
  BY DEF Executed_Log
<1>2. CASE \A r \in Correct : ~(s <= ARU[r])
  <2>1. at = {}
    BY <1>2 DEF Executed_At
  <2> QED
    BY <1>1, <1>2, <2>1
<1>3. CASE \E r \in Correct : s <= ARU[r]
  <2>1. at # {}
    BY <1>3 DEF Executed_At
  <2>2. Executed_Log[s] \in at
    BY <1>1, <2>1
  <2>3. PICK q \in Correct : s <= ARU[q] /\ Executed_Log[s] = pre_prepare[q][s]
    BY <2>2 DEF Executed_At
  <2>4. \A r \in Correct : s <= ARU[r] => pre_prepare[r][s] = pre_prepare[q][s]
    BY <2>3, TwoViewsAgree DEF OrderAgreement
  <2>5. SlotTypes /\ SlotsOf(q)
    BY DEF TwoViewInv, VCInv, VCSlots
  <2>6. pre_prepare[q][s] # NoPP /\ pre_prepare[q][s] \in LogEntry \cup {NoPP}
    BY <2>3, <2>5 DEF SlotTypes, SlotsOf, Filled_In
  <2> QED
    BY <1>3, <2>3, <2>4, <2>6
<1> QED
  BY <1>2, <1>3

(* A step executes at the replica that takes it, if at all. *)
LEMMA OneExecutes ==
  ASSUME NEW r, VC_Step(r), VCSlots, VCSlots', RoundsAgree, r \in Correct
  PROVE  ARU' = [ARU EXCEPT ![r] = ARU'[r]] /\ ARU'[r] \in ARU[r] .. MaxSeq
<1>1. ARU \in [Correct -> 0 .. MaxSeq]
  BY DEF VCSlots, SlotTypes
<1>2. ARU' \in [Correct -> 0 .. MaxSeq]
  BY DEF VCSlots, SlotTypes
<1>3. ASSUME NEW p \in Correct
      PROVE  ARU'[p] >= ARU[p] /\ (p # r => ARU'[p] = ARU[p])
  <2>1. CASE Acts(r) \/ Replays(r)
    BY <1>1, <2>1 DEF Acts, Executes, Replays, Rests
  <2>2. CASE VIEW_Start_View_Change(r) \/ Agrees_On_Replay(r)
    <3>1. UNCHANGED ARU
      BY <2>2, AgreesOnReplay DEF VIEW_Start_View_Change, vars, execVars
    <3> QED
      BY <1>1, <3>1
  <2> QED
    BY <2>1, <2>2 DEF VC_Step
<1> QED
  BY <1>1, <1>2, <1>3

(* What a step executes extends the log, and what the log has stays. *)
LEMMA VCLogStep ==
  ASSUME TwoViewInv, TwoViewInv', VCLogFacts, VCLogFacts', [VCNext]_allVars
  PROVE  [Log!LogNext]_<<Executed_Log, ARU>>
<1>0. VCSlots /\ VCSlots' /\ RoundsAgree /\ ReportsOnce
  BY DEF TwoViewInv, VCInv
<1>1. CASE UNCHANGED allVars
  BY <1>1 DEF allVars, vars, slotVars, execVars, Executed_Log, Executed_At
<1>2. CASE VCNext
  <2> PICK r \in Correct \ aborted : VC_Step(r)
    BY <1>0, <1>2, VCNextSteps
  <2>1. PICK n \in ARU[r] .. MaxSeq : ARU' = [ARU EXCEPT ![r] = n]
    BY <1>0, OneExecutes
  <2>2. \A q \in Correct, s \in Seqs : s <= ARU[q] => pre_prepare'[q][s] = pre_prepare[q][s]
    BY <1>0, ExecutedStays
  <2>3. ARU \in [Correct -> 0 .. MaxSeq] /\ MaxSeq \in Nat /\ Seqs = 1 .. MaxSeq
    BY <1>0, OrderingBounds DEF VCSlots, SlotTypes, Seqs
  <2>4. \A q \in Correct : ARU'[q] \in Nat /\ ARU[q] \in Nat /\ ARU[q] <= ARU'[q]
    BY <2>1, <2>3
  <2>5. ASSUME NEW s \in Seqs, Executed_Log[s] # NoPP
        PROVE  Executed_Log'[s] = Executed_Log[s]
    <3>1. PICK q \in Correct : s <= ARU[q]
      BY <2>5 DEF VCLogFacts
    <3>2. s <= ARU'[q]
      BY <2>3, <2>4, <3>1
    <3>3. Executed_Log[s] = pre_prepare[q][s] /\ Executed_Log'[s] = pre_prepare'[q][s]
      BY <3>1, <3>2 DEF VCLogFacts
    <3> QED
      BY <2>2, <3>1, <3>3
  <2>6. ASSUME NEW s \in Seqs, s > n, Executed_Log[s] = NoPP
        PROVE  Executed_Log'[s] = NoPP
    <3>1. \A q \in Correct : ~(s <= ARU[q])
      BY <2>6 DEF VCLogFacts
    <3>2. \A q \in Correct : ~(s <= ARU'[q])
      BY <2>1, <2>3, <2>6, <3>1
    <3> QED
      BY <3>2 DEF VCLogFacts
  <2>7. ASSUME NEW s \in Seqs, s <= n PROVE Executed_Log'[s] # NoPP
    <3>1. s <= ARU'[r]
      BY <2>1, <2>3, <2>7
    <3> QED
      BY <3>1 DEF VCLogFacts
  <2>8. CASE n = ARU[r]
    <3>1. ARU' = ARU
      BY <2>1, <2>3, <2>8
    <3>2. \A s \in Seqs : Executed_Log'[s] = Executed_Log[s]
      <4> SUFFICES ASSUME NEW s \in Seqs, Executed_Log[s] = NoPP
                   PROVE  Executed_Log'[s] = NoPP
        BY <2>5
      <4>1. \A q \in Correct : ~(s <= ARU'[q])
        BY <3>1 DEF VCLogFacts
      <4> QED
        BY <4>1 DEF VCLogFacts
    <3>3. Executed_Log' = Executed_Log
      BY <3>2 DEF Executed_Log
    <3> QED
      BY <3>1, <3>3
  <2>9. CASE n # ARU[r]
    <3>1. n > ARU[r] /\ n \in 1 .. MaxSeq
      BY <2>1, <2>3, <2>9
    <3>2. Executed_Log' \in [1 .. MaxSeq -> LogEntry \cup {NoPP}]
      <4>1. \A s \in Seqs : Executed_Log'[s] \in LogEntry \cup {NoPP}
        BY DEF VCLogFacts
      <4>2. Executed_Log' = [s \in Seqs |-> Executed_Log'[s]]
        BY DEF Executed_Log
      <4> QED
        BY <2>3, <4>1, <4>2
    <3>3. Log!Execute(r, n)
      BY <2>1, <2>3, <2>5, <2>6, <2>7, <3>1, <3>2 DEF Log!Execute
    <3> QED
      BY <3>1, <3>3 DEF Log!LogNext
  <2> QED
    BY <2>8, <2>9
<1> QED
  BY <1>1, <1>2

(* In the initial state nothing is decided. *)
LEMMA VCLogStarts ==
  ASSUME VCInit, VCLogFacts
  PROVE  Log!LogInit
<1>1. \A s \in Seqs : Executed_Log[s] = NoPP
  <2>1. \A s \in Seqs, r \in Correct : ~(s <= ARU[r])
    BY OrderingBounds DEF VCInit, Init, Seqs
  <2> QED
    BY <2>1 DEF VCLogFacts
<1>2. Executed_Log = [s \in 1 .. MaxSeq |-> NoPP]
  BY <1>1 DEF Executed_Log, Seqs
<1> QED
  BY <1>2 DEF Log!LogInit, VCInit, Init

(* Ordering with a view change implements the agreed log: nothing that was *)
(* executed is replaced, taken back or skipped by VIEW_Execute_Replay, by  *)
(* what is ordered after it, or by what arrives late.                      *)
THEOREM VCImplementsLog ==
  ASSUME MaxView <= 2
  PROVE  VCSpec => ImplementsLog
<1>1. TwoViewInv => VCLogFacts
  BY VCLogHolds
<1>2. VCInit /\ VCLogFacts => Log!LogInit
  BY VCLogStarts
<1>3. TwoViewInv /\ TwoViewInv' /\ VCLogFacts /\ VCLogFacts' /\ [VCNext]_allVars
        => [Log!LogNext]_<<Executed_Log, ARU>>
  BY VCLogStep
<1> QED
  BY <1>1, <1>2, <1>3, TwoViewInvariant, PTL DEF VCSpec, ImplementsLog, Log!LogSpec

-----------------------------------------------------------------------------
(* What was ordered, prepared and replayed follows: each Pre-Prepare       *)
(* starts where the one before it stops.                                   *)

(* A leader that has finished the view change knows nothing of the slots   *)
(* that it will propose.                                                   *)
LeaderFresh(r) ==
  view_change_done[r] /\ I_Am_Leader(r) =>
    \A s \in Seqs : s >= seq[r] => made_eligible[r][s] = Unpopulated

(* Whoever is done with a view change has executed its Replay. *)
CaughtUp(r) ==
  view_change_done[r] /\ View[r] > 1 => ARU[r] >= replay[View[r]].startSeq - 1

(* What a leader's proposal says of the slot before it: nothing is before  *)
(* the first one, and the first one after a Replay starts where the leader *)
(* has executed up to.  Its own slot is filled in from it.                 *)
Proposal_Follows(m) ==
  LET l == m.sender
      v == m.pp.view
      s == m.pp.seq IN
  /\ s = 1 => m.pp.last_executed = 0
  /\ v = View[l] => made_eligible[l][s] = Made_Eligible(m.pp)
  /\ v > 1 /\ s = replay[v].startSeq =>
       ARU[l] >= s - 1 /\ m.pp.last_executed = made_eligible[l][s - 1]

(* What a replica has prepared in its view lies up to ppARU. *)
Prepare_Follows(m) ==
  /\ m.pp.view = View[m.sender] => m.pp.seq <= ppARU[m.sender]
  /\ m.pp.view = 1 /\ m.pp.seq = 1 => m.pp.last_executed = 0

FollowSent(m) ==
  m.sender \notin Byzantine =>
    /\ m.type = "PRE_PREPARE" => Proposal_Follows(m)
    /\ m.type = "PREPARE" => Prepare_Follows(m)
    /\ m.type = "COMMIT" => Certifiable(m.pp, msgs)

(* n is for the number before that of m, from the same replica and in the  *)
(* same view: a proposal, or a Prepare in the first view.                  *)
Chained(n, m) ==
  /\ m.sender \notin Byzantine /\ n.sender = m.sender /\ n.type = m.type
  /\ n.pp.view = m.pp.view /\ n.pp.seq = m.pp.seq - 1
  /\ m.type = "PRE_PREPARE" \/ (m.type = "PREPARE" /\ m.pp.view = 1)

ChainedSent ==
  \A m, n \in msgs : Chained(n, m) => m.pp.last_executed = Made_Eligible(n.pp)

FollowInv ==
  /\ \A r \in Correct : LeaderFresh(r) /\ CaughtUp(r)
  /\ \A m \in msgs : FollowSent(m)
  /\ ChainedSent

(* A slot that a leader has yet to propose holds no Pre-Prepare of its     *)
(* view.                                                                   *)
LEMMA NotYetProposed ==
  ASSUME NEW r, NEW s, NEW pp, VoteInv, r \in Correct, SlotTypes, I_Am_Leader(r),
         pp.view = View[r], pp.seq = s, Is_Proposed(pp, msgs), s \in Int
  PROVE  view_change_done[r] /\ s < seq[r]
<1>1. \A m \in msgs : VoteSent(m)
  BY DEF VoteInv
<1>2. UTIL_Leader_Of_View[pp.view] = r
  BY DEF I_Am_Leader
<1>3. Proposal_Sent(Pre_Prepare(r, pp))
  BY <1>1, <1>2, ProposedBefore
<1>4. Pre_Prepare(r, pp).pp = pp /\ Pre_Prepare(r, pp).sender = r
  BY DEF Pre_Prepare
<1> QED
  BY <1>3, <1>4 DEF Proposal_Sent

(* ... so the leader does not fill in such a slot in Ordering, and a       *)
(* Replay that it executes clears it.                                      *)
LEMMA LeaderFreshStep ==
  ASSUME NEW r, NEW p, VC_Step(r), VCSlots, RoundsAgree, VoteInv, LeaderFresh(p),
         r \in Correct, p \in Correct, r \notin aborted
  PROVE  LeaderFresh(p)'
<1> SUFFICES ASSUME view_change_done'[p], UTIL_Leader_Of_View[View'[p]] = p,
                    NEW s \in Seqs, s >= seq'[p]
             PROVE  made_eligible'[p][s] = Unpopulated
  BY DEF LeaderFresh, I_Am_Leader
<1>0. SlotTypes /\ SlotsOf(r) /\ SlotsBacked(r) /\ View[p] \in Views /\ seq[p] \in Int /\ ARU[p] \in Int
  BY DEF VCSlots, VoteInv, SlotTypes
<1>1. /\ SlotTypes /\ SlotsOf(r) /\ SlotsBacked(r)
      /\ s \in 0 .. MaxSeq /\ s \in Int /\ seq[p] \in Int /\ ARU[p] \in Int /\ View[p] \in Int /\ View[p] >= 1
  BY <1>0, OrderingBounds DEF Seqs, Views
<1>2. CASE p = r /\ Acts(r)
  <2>1. UNCHANGED <<View, view_change_done>> /\ view_change_done[r] /\ I_Am_Leader(r)
    BY <1>2 DEF Acts, I_Am_Leader
  <2>2. seq'[r] >= seq[r] /\ seq'[r] \in Int
    BY <1>1, <1>2, ActsCountsUp
  <2>3. made_eligible[r][s] = Unpopulated
    BY <1>1, <1>2, <2>1, <2>2 DEF LeaderFresh
  <2> SUFFICES ASSUME made_eligible'[r][s] # made_eligible[r][s] PROVE FALSE
    BY <1>2, <2>3
  <2>4. CASE pre_prepare'[r][s] # NoPP
    <3>1. PICK pp : pp = pre_prepare'[r][s]
      OBVIOUS
    <3>2. pp.seq = s /\ pp.view = View[r] /\ Is_Proposed(pp, msgs)
      <4>1. CASE pp = pre_prepare[r][s]
        <5>1. ~(s <= ARU[r])
          BY <1>1, <2>3 DEF SlotsOf, Filled_In
        <5>2. s > ARU[r]
          BY <1>1, <1>2, <5>1
        <5> QED
          BY <1>1, <1>2, <2>1, <2>4, <3>1, <4>1, <5>2 DEF SlotsOf, SlotsBacked
      <4>2. CASE pp # pre_prepare[r][s]
        <5>1. pp.seq = s /\ View_Permits(r, pp.view) /\ Is_Proposed(pp, msgs)
          BY <1>2, <3>1, <4>2 DEF Acts, Accepts, Is_Proposed
        <5> QED
          BY <2>1, <5>1 DEF View_Permits
      <4> QED
        BY <4>1, <4>2
    <3>3. s < seq[r]
      BY <1>1, <2>1, <3>2, NotYetProposed
    <3> QED
      BY <1>1, <1>2, <2>2, <3>3
  <2>5. CASE \E n \in msgs' : Proposal(r, n) /\ n.pp.seq = s
    BY <1>1, <1>2, <2>2, <2>5 DEF Proposal
  <2> QED
    BY <1>1, <1>2, <2>3, <2>4, <2>5 DEF Acts, Populates
<1>3. CASE p = r /\ Replays(r)
  <2>1. /\ View' = View /\ I_Am_Leader(r) /\ ~view_change_done[r]
        /\ seq'[r] = replay[View[r]].startSeq /\ ARU'[r] = replay[View[r]].startSeq - 1
        /\ ARU'[r] >= ARU[r] /\ Replays_Slot(r, s) /\ SlotTypes'
    BY <1>3 DEF Replays, I_Am_Leader
  <2>2. replay[View[r]].startSeq \in Int
    BY <1>3 DEF VCSlots, SlotTypes, RoundTypes, Replays, Replay
  <2>3. ~Kept(r, s)
    <3>1. ~(s <= ARU[r])
      BY <1>1, <1>3, <2>1, <2>2
    <3>2. ASSUME s \in Of_New_View(r, replay[View[r]]) PROVE FALSE
      <4>1. pre_prepare[r][s] # NoPP /\ pre_prepare[r][s].view >= View[r]
        BY <3>2 DEF Of_New_View
      <4>2. PICK pp : pp = pre_prepare[r][s]
        OBVIOUS
      <4>3. pp \in LogEntry
        BY <1>1, <4>1, <4>2 DEF SlotTypes
      <4>4. pp.view \in Int
        BY <4>3 DEF LogEntry
      <4>5. pp.seq = s /\ pp.view = View[r]
        BY <1>1, <1>3, <4>1, <4>2, <4>4 DEF SlotsOf
      <4>6. Is_Proposed(pp, msgs)
        BY <1>1, <1>3, <4>1, <4>2, <4>5 DEF SlotsBacked
      <4> QED
        BY <1>1, <2>1, <4>5, <4>6, NotYetProposed
    <3> QED
      BY <3>1, <3>2 DEF Kept
  <2>4. ~(s < replay[View[r]].startSeq)
    BY <1>1, <1>3, <2>1, <2>2
  <2> QED
    BY <1>3, <2>1, <2>3, <2>4 DEF Replays_Slot
<1>4. CASE p # r /\ (Acts(r) \/ Replays(r))
  <2>1. Rests(p) /\ View'[p] = View[p] /\ view_change_done'[p] = view_change_done[p]
    BY <1>4 DEF Acts, Replays
  <2> QED
    BY <2>1 DEF Rests, LeaderFresh, I_Am_Leader
<1>5. CASE VIEW_Start_View_Change(r)
  <2>1. /\ ~view_change_done'[r]
        /\ \A q \in Correct \ {r} : View'[q] = View[q] /\ view_change_done'[q] = view_change_done[q]
        /\ UNCHANGED <<seq, made_eligible>>
    BY <1>1, <1>5 DEF VIEW_Start_View_Change, SlotTypes, execVars
  <2> QED
    BY <2>1 DEF LeaderFresh, I_Am_Leader
<1>6. CASE Agrees_On_Replay(r)
  <2>1. UNCHANGED <<View, view_change_done, seq, made_eligible>>
    BY <1>6, AgreesOnReplay DEF vars, viewVars, execVars
  <2> QED
    BY <2>1 DEF LeaderFresh, I_Am_Leader
<1> QED
  BY <1>2, <1>3, <1>4, <1>5, <1>6 DEF VC_Step

(* What a replica has executed of a Replay it keeps. *)
LEMMA CaughtUpStep ==
  ASSUME NEW r, NEW p, VC_Step(r), VCSlots, VCSlots', RoundsAgree, ReplayedFirst(p), CaughtUp(p),
         r \in Correct, p \in Correct
  PROVE  CaughtUp(p)'
<1>1. SlotTypes /\ RoundTypes /\ View[p] \in Views /\ ARU[p] \in Int
  BY DEF VCSlots, SlotTypes
<1>2. ARU'[p] \in Int
  BY DEF VCSlots, SlotTypes
<1>3. replay[View[p]] # NoReplay => replay'[View[p]] = replay[View[p]] /\ replay[View[p]].startSeq \in Int
  BY <1>1, ReplayStays DEF RoundTypes, Replay
<1>4. ASSUME View'[p] = View[p], view_change_done'[p] = view_change_done[p], ARU'[p] >= ARU[p]
      PROVE  CaughtUp(p)'
  BY <1>1, <1>2, <1>3, <1>4 DEF CaughtUp, ReplayedFirst
<1>5. CASE Acts(r)
  <2>1. View'[p] = View[p] /\ view_change_done'[p] = view_change_done[p] /\ ARU'[p] >= ARU[p]
    BY <1>1, <1>5 DEF Acts, Executes, Rests
  <2> QED
    BY <1>4, <2>1
<1>6. CASE Replays(r)
  <2>1. CASE p = r
    <3>1. replay[View[r]].startSeq \in Int
      BY <1>3, <1>6, <2>1 DEF Replays
    <3> QED
      BY <1>2, <1>6, <2>1, <3>1 DEF Replays, CaughtUp
  <2>2. CASE p # r
    <3>1. View'[p] = View[p] /\ view_change_done'[p] = view_change_done[p] /\ ARU'[p] >= ARU[p]
      BY <1>1, <1>6, <2>2 DEF Replays, Rests
    <3> QED
      BY <1>4, <3>1
  <2> QED
    BY <2>1, <2>2
<1>7. CASE VIEW_Start_View_Change(r)
  <2>1. /\ ~view_change_done'[r]
        /\ \A q \in Correct \ {r} : View'[q] = View[q] /\ view_change_done'[q] = view_change_done[q]
        /\ UNCHANGED ARU
    BY <1>1, <1>7 DEF VIEW_Start_View_Change, SlotTypes, execVars
  <2>2. CASE p = r
    BY <2>1, <2>2 DEF CaughtUp
  <2>3. CASE p # r
    BY <1>1, <1>4, <2>1, <2>3
  <2> QED
    BY <2>2, <2>3
<1>8. CASE Agrees_On_Replay(r)
  <2>1. UNCHANGED <<View, view_change_done, ARU>>
    BY <1>8, AgreesOnReplay DEF vars, viewVars, execVars
  <2> QED
    BY <1>1, <1>4, <2>1
<1> QED
  BY <1>5, <1>6, <1>7, <1>8 DEF VC_Step

(* A replica only moves to later views, by VIEW_Start_View_Change. *)
LEMMA ViewsGoUp ==
  ASSUME NEW r, NEW p, VC_Step(r), VCSlots, RoundsAgree, r \in Correct, p \in Correct
  PROVE  \/ View'[p] = View[p]
         \/ p = r /\ VIEW_Start_View_Change(r) /\ View'[p] > View[p] /\ View'[p] \in Int
<1>1. CASE VIEW_Start_View_Change(r)
  <2>1. PICK v \in Views : v > View[r] /\ View' = [View EXCEPT ![r] = v]
    BY <1>1 DEF VIEW_Start_View_Change
  <2>2. View \in [Correct -> Views] /\ v \in Int
    BY DEF VCSlots, SlotTypes, Views
  <2> QED
    BY <1>1, <2>1, <2>2
<1>2. CASE ~VIEW_Start_View_Change(r)
  BY <1>2, AgreesOnReplay DEF VC_Step, Acts, Replays, vars, viewVars
<1> QED
  BY <1>1, <1>2

(* A replica that has sent a proposal or a Prepare in the view it is in    *)
(* after a step was in that view before, done with its view change; it has *)
(* neither left the view nor executed the Replay in the step.              *)
LEMMA StillInView ==
  ASSUME NEW r, NEW q, NEW v, VC_Step(r), VCSlots, RoundsAgree, r \in Correct, q \in Correct,
         v \in Int, v <= View[q], v = View'[q], v = View[q] => view_change_done[q]
  PROVE  /\ v = View[q]
         /\ \/ q = r /\ Acts(r)
            \/ /\ made_eligible'[q] = made_eligible[q]
               /\ ppARU'[q] = ppARU[q]
<1>1. View[q] \in Int
  BY DEF VCSlots, SlotTypes, Views
<1>2. v = View[q] /\ ~(q = r /\ VIEW_Start_View_Change(r))
  <2>1. View'[q] = View[q] \/ View'[q] > View[q]
    BY ViewsGoUp
  <2>2. View'[q] = View[q]
    BY <1>1, <2>1
  <2>3. VIEW_Start_View_Change(r) => View'[r] > View[r]
    BY DEF VIEW_Start_View_Change, VCSlots, SlotTypes
  <2> QED
    BY <1>1, <2>2, <2>3
<1>3. ~(q = r /\ Replays(r))
  BY <1>2 DEF Replays
<1>4. CASE q # r /\ (Acts(r) \/ Replays(r))
  BY <1>2, <1>4 DEF Acts, Replays, Rests
<1>5. CASE VIEW_Start_View_Change(r) \/ Agrees_On_Replay(r)
  <2>1. UNCHANGED <<made_eligible, ppARU>>
    BY <1>5, AgreesOnReplay DEF VIEW_Start_View_Change, vars, execVars
  <2> QED
    BY <1>2, <2>1
<1> QED
  BY <1>2, <1>3, <1>4, <1>5 DEF VC_Step

(* What an executed slot makes eligible stays, also before the first one. *)
LEMMA EligibleStays ==
  ASSUME NEW r, NEW p, NEW s, VC_Step(r), VCSlots, VCSlots', RoundsAgree, r \in Correct,
         p \in Correct, s \in 0 .. MaxSeq, s <= ARU[p]
  PROVE  made_eligible'[p][s] = made_eligible[p][s] /\ ARU'[p] >= s
<1>1. ARU[p] \in Int
  BY DEF VCSlots, SlotTypes
<1>2. ARU'[p] \in 0 .. MaxSeq
  BY DEF VCSlots, SlotTypes
<1>3. CASE s = 0
  <2>1. made_eligible'[p][0] = 0 /\ made_eligible[p][0] = 0
    BY DEF VCSlots, SlotsOf
  <2> QED
    BY <1>2, <1>3, <2>1
<1>4. CASE s # 0
  <2>1. s \in Seqs /\ s \in Int
    BY <1>4, OrderingBounds DEF Seqs
  <2>2. ARU'[p] >= ARU[p] /\ made_eligible'[p][s] = made_eligible[p][s]
    BY <2>1, ExecutedStays
  <2> QED
    BY <1>1, <1>2, <2>1, <2>2
<1> QED
  BY <1>3, <1>4

(* What was said of the slot before stays true, ... *)
LEMMA FollowStaysSent ==
  ASSUME NEW r, NEW m, VC_Step(r), VCSlots, VCSlots', RoundsAgree, VoteSent(m), FollowSent(m),
         r \in Correct, m \in msgs, msgs \subseteq msgs'
  PROVE  FollowSent(m)'
<1> SUFFICES ASSUME m.sender \notin Byzantine
             PROVE  /\ m.type = "PRE_PREPARE" => Proposal_Follows(m)'
                    /\ m.type = "PREPARE" => Prepare_Follows(m)'
                    /\ m.type = "COMMIT" => Certifiable(m.pp, msgs')
  BY DEF FollowSent
<1> DEFINE q == m.sender
           v == m.pp.view
           s == m.pp.seq
<1>1. SlotTypes /\ RoundTypes
  BY DEF VCSlots
<1>2. /\ v \in Views /\ v \in Int /\ s \in Seqs /\ s \in 0 .. MaxSeq /\ s - 1 \in 0 .. MaxSeq
      /\ m.pp \in PrePrepare
  BY <1>1, OrderingBounds DEF SlotTypes, Message, PrePrepare, Views, Seqs
<1>3. Made_Eligible(m.pp) \in POSeqs /\ Unpopulated \notin POSeqs
  BY <1>2, EntryType, OrderingBounds
<1>4. ASSUME m.type = "PRE_PREPARE" PROVE Proposal_Follows(m)'
  <2>1. Proposal_Sent(m) /\ Proposal_Follows(m)
    BY <1>4 DEF VoteSent, FollowSent
  <2>2. /\ q \in Correct /\ v <= View[q] /\ (v = View[q] => view_change_done[q])
        /\ v > 1 => replay[v] # NoReplay
    BY <2>1 DEF Proposal_Sent
  <2>3. ASSUME v = View'[q] PROVE made_eligible'[q][s] = Made_Eligible(m.pp)
    <3>1. /\ v = View[q]
          /\ (q = r /\ Acts(r)) \/ made_eligible'[q] = made_eligible[q]
      <4> HIDE DEF q, v
      <4> QED
        BY <1>2, <2>2, <2>3, StillInView
    <3>2. made_eligible[q][s] = Made_Eligible(m.pp)
      BY <2>1, <3>1 DEF Proposal_Follows
    <3> QED
      BY <1>2, <1>3, <3>1, <3>2 DEF Acts, Populates
  <2>4. ASSUME v > 1, s = replay'[v].startSeq
        PROVE  ARU'[q] >= s - 1 /\ m.pp.last_executed = made_eligible'[q][s - 1]
    <3>1. replay'[v] = replay[v]
      BY <1>2, <2>2, <2>4, ReplayStays
    <3>2. ARU[q] >= s - 1 /\ m.pp.last_executed = made_eligible[q][s - 1]
      BY <2>1, <2>4, <3>1 DEF Proposal_Follows
    <3>3. PICK t : t = s - 1
      OBVIOUS
    <3>4. ARU[q] \in Int
      BY <1>1, <2>2 DEF SlotTypes
    <3>5. t <= ARU[q] /\ t \in 0 .. MaxSeq
      BY <1>2, <3>2, <3>3, <3>4
    <3>6. made_eligible'[q][t] = made_eligible[q][t] /\ ARU'[q] >= t
      BY <2>2, <3>5, EligibleStays
    <3> QED
      BY <3>2, <3>3, <3>6
  <2> QED
    BY <2>1, <2>3, <2>4 DEF Proposal_Follows
<1>5. ASSUME m.type = "PREPARE" PROVE Prepare_Follows(m)'
  <2>1. Prepare_Sent(m) /\ Prepare_Follows(m)
    BY <1>5 DEF VoteSent, FollowSent
  <2>2. q \in Correct /\ v <= View[q] /\ (v = View[q] => view_change_done[q])
    BY <2>1 DEF Prepare_Sent
  <2>3. ASSUME v = View'[q] PROVE s <= ppARU'[q]
    <3>1. /\ v = View[q]
          /\ (q = r /\ Acts(r)) \/ ppARU'[q] = ppARU[q]
      <4> HIDE DEF q, v
      <4> QED
        BY <1>2, <2>2, <2>3, StillInView
    <3>2. s <= ppARU[q] /\ ppARU[q] \in Int
      BY <1>1, <2>1, <2>2, <3>1 DEF Prepare_Follows, SlotTypes
    <3>3. ppARU' \in [Correct -> 0 .. MaxSeq]
      BY DEF VCSlots, SlotTypes
    <3>4. ppARU'[q] >= ppARU[q] /\ ppARU'[q] \in Int
      BY <2>2, <3>1, <3>2, <3>3 DEF Acts, GoesUp
    <3> QED
      BY <1>2, <3>2, <3>4
  <2> QED
    BY <2>1, <2>3 DEF Prepare_Follows
<1>6. ASSUME m.type = "COMMIT" PROVE Certifiable(m.pp, msgs')
  BY <1>6, StillCertifiable DEF FollowSent
<1> QED
  BY <1>4, <1>5, <1>6

(* ... and is true of what a step of Ordering sends. *)
LEMMA NewFollowSent ==
  ASSUME NEW r, NEW n, Acts(r), UNCHANGED vcVars, VCSlots, VCSlots', RoundsAgree, r \in Correct,
         VC_Step(r), ReplayedFirst(r), CaughtUp(r), LeaderFresh(r), SlotsBacked(r)',
         n \in msgs', n \notin msgs
  PROVE  FollowSent(n)'
<1>1. SlotTypes /\ RoundTypes /\ SlotsOf(r)
  BY DEF VCSlots
<1>1a. SlotsOf(r)'
  BY DEF VCSlots
<1>2. UNCHANGED <<View, view_change_done, replay>> /\ View[r] \in Views /\ seq[r] \in Int /\ ARU[r] \in Int
  BY <1>1 DEF Acts, vcVars, SlotTypes
<1>3. CASE Flooded(n)
  BY <1>3 DEF Flooded, FollowSent
<1>4. CASE Proposal(r, n)
  <2> DEFINE s == n.pp.seq
  <2>1. /\ n \in Message /\ n.sender = r /\ n.type = "PRE_PREPARE" /\ n.pp.view = View[r] /\ s = seq[r]
        /\ view_change_done[r] /\ I_Am_Leader(r)
        /\ n.pp.last_executed = made_eligible[r][s - 1]
        /\ made_eligible'[r][s] \in {made_eligible[r][s], Made_Eligible(n.pp)}
        /\ made_eligible'[r][s] # Unpopulated
    BY <1>4 DEF Proposal
  <2>2. s \in Seqs /\ s \in Int /\ s - 1 \in 0 .. MaxSeq
    BY <2>1, OrderingBounds DEF Message, PrePrepare, Seqs
  <2>3. s = 1 => n.pp.last_executed = 0
    BY <1>1, <2>1 DEF SlotsOf
  <2>4. made_eligible'[r][s] = Made_Eligible(n.pp)
    BY <1>2, <2>1, <2>2 DEF LeaderFresh
  <2>5. ASSUME View[r] > 1, s = replay[View[r]].startSeq
        PROVE  ARU'[r] >= s - 1 /\ n.pp.last_executed = made_eligible'[r][s - 1]
    <3>1. PICK t : t = s - 1
      OBVIOUS
    <3>2. t <= ARU[r] /\ t \in 0 .. MaxSeq
      BY <1>2, <2>1, <2>2, <2>5, <3>1 DEF CaughtUp
    <3>3. made_eligible'[r][t] = made_eligible[r][t] /\ ARU'[r] >= t
      BY <3>2, EligibleStays
    <3> QED
      BY <2>1, <3>1, <3>3
  <2>6. Proposal_Follows(n)'
    BY <1>2, <2>1, <2>3, <2>4, <2>5 DEF Proposal_Follows
  <2> QED
    BY <2>1, <2>6 DEF FollowSent
<1>5. CASE NewPrepare(r, pre_prepare'[r], n)
  <2>1. /\ n.sender = r /\ n.type = "PREPARE" /\ n.pp.seq <= ppARU'[r]
        /\ n.pp.last_executed = made_eligible'[r][n.pp.seq - 1]
    BY <1>5 DEF NewPrepare
  <2>2. n.pp.seq = 1 => n.pp.last_executed = 0
    BY <1>1a, <2>1 DEF SlotsOf
  <2> QED
    BY <2>1, <2>2 DEF FollowSent, Prepare_Follows
<1>6. CASE NewCommit(r, n)
  <2>1. /\ n \in Message /\ n.sender = r /\ n.type = "COMMIT" /\ prepare_certificate'[r][n.pp.seq] = n.pp
    BY <1>6 DEF NewCommit
  <2>2. n.pp.seq \in Seqs /\ n.pp # NoPP
    BY <2>1, OrderingBounds DEF Message, PrePrepare
  <2>3. Certifiable(n.pp, msgs')
    BY <2>1, <2>2 DEF SlotsBacked
  <2> QED
    BY <2>1, <2>3 DEF FollowSent
<1> QED
  BY <1>3, <1>4, <1>5, <1>6 DEF Acts, Sends

(* A new message starts where the one before it stops: a leader has its    *)
(* own proposals filled in, and a replica in the first view what it has    *)
(* prepared.  Numbers are not gone back to.                                *)
LEMMA NewChained ==
  ASSUME NEW r, NEW m, NEW n, Acts(r), VCSlots, VCSlots', VoteInv', EligibleFirst(r)',
         r \in Correct, \A k \in msgs : VoteSent(k) /\ FollowSent(k),
         m \in msgs', n \in msgs', m \notin msgs \/ n \notin msgs, Chained(n, m)
  PROVE  m.pp.last_executed = Made_Eligible(n.pp)
<1>1. SlotTypes /\ SlotsOf(r) /\ UNCHANGED <<View, view_change_done>>
  BY DEF VCSlots, Acts
<1>2. SlotTypes' /\ SlotsOf(r)'
  BY DEF VCSlots
<1>3. m \in Message /\ n \in Message
  BY <1>2 DEF SlotTypes
<1>4. /\ m.pp.seq \in Seqs /\ m.pp.seq \in Int /\ n.pp.seq \in Seqs /\ n.pp.seq \in Int
      /\ n.pp # NoPP
  BY <1>3, OrderingBounds DEF Message, PrePrepare, Seqs
<1>5. /\ m.sender = n.sender /\ m.type = n.type /\ m.sender \notin Byzantine /\ n.sender \notin Byzantine
      /\ m.pp.view = n.pp.view /\ n.pp.seq = m.pp.seq - 1
  BY DEF Chained
<1>6. seq[r] \in Int /\ ppARU[r] \in Int
  BY <1>1 DEF SlotTypes
<1>6a. ppARU'[r] \in Int
  BY <1>2 DEF SlotTypes
<1>7. \A k \in msgs' : k \in msgs \/ Flooded(k) \/ Proposal(r, k)
                       \/ NewPrepare(r, pre_prepare'[r], k) \/ NewCommit(r, k)
  BY DEF Acts, Sends
<1>8. CASE m.type = "PRE_PREPARE"
  <2>1. \A k \in {m, n} : k \notin msgs => Proposal(r, k)
    BY <1>5, <1>7, <1>8 DEF Flooded, NewPrepare, NewCommit
  <2>2. CASE n \notin msgs
    <3>1. n.sender = r /\ n.pp.view = View[r] /\ n.pp.seq = seq[r]
      BY <2>1, <2>2 DEF Proposal
    <3>2. CASE m \in msgs
      <4>1. Proposal_Sent(m)
        BY <1>5, <1>8, <3>2 DEF VoteSent
      <4>2. m.pp.seq < seq[r]
        BY <1>5, <3>1, <4>1 DEF Proposal_Sent
      <4> QED
        BY <1>4, <1>5, <1>6, <3>1, <4>2
    <3>3. CASE m \notin msgs
      <4>1. m.pp.seq = seq[r]
        BY <2>1, <3>3 DEF Proposal
      <4> QED
        BY <1>4, <1>5, <1>6, <3>1, <4>1
    <3> QED
      BY <3>2, <3>3
  <2>3. CASE n \in msgs
    <3>1. /\ m.sender = r /\ m.pp.view = View[r] /\ m.pp.seq = seq[r]
          /\ m.pp.last_executed = made_eligible[r][seq[r] - 1]
      BY <2>1, <2>3 DEF Proposal
    <3>2. Proposal_Follows(n)
      BY <1>5, <1>8, <2>3 DEF FollowSent
    <3>3. made_eligible[r][n.pp.seq] = Made_Eligible(n.pp)
      BY <1>5, <3>1, <3>2 DEF Proposal_Follows
    <3> QED
      BY <1>5, <3>1, <3>3
  <2> QED
    BY <2>2, <2>3
<1>9. CASE m.type = "PREPARE" /\ m.pp.view = 1
  <2>1. \A k \in {m, n} : k \notin msgs => NewPrepare(r, pre_prepare'[r], k)
    BY <1>5, <1>7, <1>9 DEF Flooded, Proposal, NewCommit
  <2>2. \A k \in {m, n} : k \notin msgs => k.pp.view = View[r] /\ k.sender = r
    BY <1>1, <2>1, NewPrepareView DEF NewPrepare
  <2>3. View[r] = 1 /\ m.sender = r /\ n.sender = r
    BY <1>5, <1>9, <2>2
  <2>4. CASE m \in msgs
    <3>1. n.pp.seq > ppARU[r]
      BY <2>1, <2>4 DEF NewPrepare
    <3>2. Prepare_Follows(m)
      BY <1>5, <1>9, <2>4 DEF FollowSent
    <3>3. m.pp.seq <= ppARU[r]
      BY <1>9, <2>3, <3>2 DEF Prepare_Follows
    <3> QED
      BY <1>4, <1>5, <1>6, <3>1, <3>3
  <2>5. CASE m \notin msgs
    <3>1. /\ view_change_done[r] /\ m.pp.seq <= ppARU'[r]
          /\ m.pp.last_executed = made_eligible'[r][n.pp.seq]
      BY <1>5, <2>1, <2>5 DEF NewPrepare
    <3>2. VoteSent(n)'
      BY DEF VoteInv
    <3>3. Prepare_Sent(n)'
      BY <1>5, <1>9, <3>2 DEF VoteSent
    <3>4. pre_prepare'[r][n.pp.seq] = n.pp
      BY <1>1, <1>5, <1>9, <2>3, <3>3 DEF Prepare_Sent
    <3>5. n.pp.seq <= ppARU'[r]
      BY <1>4, <1>5, <1>6a, <3>1
    <3>6. Filled_In(r, n.pp.seq)'
      BY <1>1, <1>2, <1>4, <3>1, <3>5 DEF SlotsOf
    <3>7. made_eligible'[r][n.pp.seq] = Made_Eligible(n.pp)
      BY <1>4, <1>5, <1>9, <3>4, <3>6 DEF EligibleFirst, Filled_In
    <3> QED
      BY <3>1, <3>7
  <2> QED
    BY <2>4, <2>5
<1> QED
  BY <1>8, <1>9 DEF Chained

(* In the initial state nothing was sent. *)
LEMMA FollowInit ==
  ASSUME VCInit
  PROVE  FollowInv
<1>1. ASSUME NEW r \in Correct PROVE LeaderFresh(r) /\ CaughtUp(r)
  <2>1. View[r] = 1 /\ \A s \in Seqs : made_eligible[r][s] = Unpopulated
    BY OrderingBounds DEF VCInit, Init, Seqs
  <2> QED
    BY <2>1 DEF LeaderFresh, CaughtUp
<1>2. msgs = {}
  BY DEF VCInit, Init
<1> QED
  BY <1>1, <1>2 DEF FollowInv, ChainedSent

(* Every step keeps what follows what. *)
LEMMA FollowStep ==
  ASSUME TwoViewInv, TwoViewInv', FollowInv, [VCNext]_allVars
  PROVE  FollowInv'
<1>0. /\ VCInv /\ VoteInv /\ VCSlots /\ RoundsAgree /\ ReportsOnce
      /\ \A m \in msgs : VoteSent(m) /\ FollowSent(m)
  BY DEF TwoViewInv, VCInv, VoteInv, FollowInv
<1>1. VCSlots' /\ VoteInv' /\ \A p \in Correct : SlotsBacked(p)' /\ EligibleFirst(p)'
  BY DEF TwoViewInv, VCInv, VoteInv
<1>2. CASE VCNext
  <2>1. PICK r \in Correct \ aborted : VC_Step(r)
    BY <1>0, <1>2, VCNextSteps
  <2>2. \A p \in Correct : LeaderFresh(p)' /\ CaughtUp(p)'
    BY <1>0, <1>1, <2>1, LeaderFreshStep, CaughtUpStep DEF FollowInv, VoteInv
  <2>3. CASE msgs' = msgs
    <3>1. ChainedSent'
      BY <2>3 DEF FollowInv, ChainedSent
    <3>2. \A m \in msgs' : FollowSent(m)'
      BY <1>0, <1>1, <2>1, <2>3, FollowStaysSent
    <3> QED
      BY <2>2, <3>1, <3>2 DEF FollowInv
  <2>4. CASE msgs' # msgs
    <3>1. Acts(r) /\ UNCHANGED vcVars /\ msgs \subseteq msgs'
      BY <1>0, <2>1, <2>4, AgreesOnReplay DEF VC_Step, VIEW_Start_View_Change, Replays, vars, Acts, Sends
    <3>2. ASSUME NEW m \in msgs' PROVE FollowSent(m)'
      <4>1. CASE m \in msgs
        BY <1>0, <1>1, <2>1, <3>1, <4>1, FollowStaysSent
      <4>2. CASE m \notin msgs
        <5>1. ReplayedFirst(r) /\ CaughtUp(r) /\ LeaderFresh(r)
          BY <1>0, <2>1 DEF VoteInv, FollowInv
        <5> QED
          BY <1>0, <1>1, <2>1, <3>1, <4>2, <5>1, NewFollowSent
      <4> QED
        BY <4>1, <4>2
    <3>3. ASSUME NEW m \in msgs', NEW n \in msgs', Chained(n, m)
          PROVE  m.pp.last_executed = Made_Eligible(n.pp)
      <4>1. CASE m \in msgs /\ n \in msgs
        BY <3>3, <4>1 DEF FollowInv, ChainedSent
      <4>2. CASE m \notin msgs \/ n \notin msgs
        BY <1>0, <1>1, <2>1, <3>1, <3>3, <4>2, NewChained
      <4> QED
        BY <4>1, <4>2
    <3>4. ChainedSent'
      BY <3>3 DEF ChainedSent
    <3> QED
      BY <2>2, <3>2, <3>4 DEF FollowInv
  <2> QED
    BY <2>3, <2>4
<1>3. CASE UNCHANGED allVars
  <2>1. UNCHANGED <<View, view_change_done, seq, ARU, ppARU, made_eligible, msgs, replay>>
    BY <1>3 DEF allVars, vars, viewVars, execVars, vcVars
  <2>2. \A p \in Correct : LeaderFresh(p)' /\ CaughtUp(p)'
    BY <2>1 DEF FollowInv, LeaderFresh, CaughtUp, I_Am_Leader
  <2>3. ChainedSent'
    BY <2>1 DEF FollowInv, ChainedSent
  <2>4. \A m \in msgs' : FollowSent(m)'
    <3>1. \A pp : Certifiable(pp, msgs) => Certifiable(pp, msgs')
      BY <2>1, StillCertifiable
    <3> QED
      BY <2>1, <3>1 DEF FollowInv, FollowSent, Proposal_Follows, Prepare_Follows
  <2> QED
    BY <2>2, <2>3, <2>4 DEF FollowInv
<1> QED
  BY <1>2, <1>3

(* Over two views, what a correct replica proposes, and what it prepares   *)
(* in the first view, starts where the Pre-Prepare of the number before it *)
(* stops; a new leader goes on from where its Replay ends.                 *)
THEOREM FollowInvariant ==
  ASSUME MaxView <= 2
  PROVE  VCSpec => []FollowInv
<1>1. VCInit => FollowInv
  BY FollowInit
<1>2. TwoViewInv /\ TwoViewInv' /\ FollowInv /\ [VCNext]_allVars => FollowInv'
  BY FollowStep
<1> QED
  BY <1>1, <1>2, TwoViewInvariant, PTL DEF VCSpec

-----------------------------------------------------------------------------
(* Certified Pre-Prepares of consecutive numbers in the first view follow  *)
(* each other: the leader proposed both, or of the replicas that prepared  *)
(* each, a correct one has prepared both.                                  *)
LEMMA FirstChained ==
  ASSUME NEW p, NEW q, FollowInv, Certifiable(p, msgs), Certifiable(q, msgs),
         p.view = 1, q.view = 1, p.seq = q.seq - 1
  PROVE  q.last_executed = Made_Eligible(p)
<1> DEFINE l == UTIL_Leader_Of_View[1]
<1>0. l \in Servers /\ ChainedSent
  BY OrderingBounds DEF Certifiable, PrePrepare, FollowInv
<1>1. CASE l \notin Byzantine
  <2>1. Pre_Prepare(l, p) \in msgs /\ Pre_Prepare(l, q) \in msgs
    BY <1>1 DEF Certifiable, Is_Proposed
  <2>2. Chained(Pre_Prepare(l, p), Pre_Prepare(l, q))
        /\ Pre_Prepare(l, p).pp = p /\ Pre_Prepare(l, q).pp = q
    BY <1>1 DEF Chained, Pre_Prepare
  <2> QED
    BY <1>0, <2>1, <2>2 DEF ChainedSent
<1>2. CASE l \in Byzantine
  <2>1. PICK A \in SUBSET Servers :
          /\ Cardinality(A) >= Quorum - 1
          /\ l \notin A
          /\ \A x \in A \ Byzantine : Prepare(x, p) \in msgs
    BY DEF Certifiable
  <2>2. PICK B \in SUBSET Servers :
          /\ Cardinality(B) >= Quorum - 1
          /\ l \notin B
          /\ \A x \in B \ Byzantine : Prepare(x, q) \in msgs
    BY DEF Certifiable
  <2>3. /\ IsFiniteSet(A) /\ IsFiniteSet(B)
        /\ Cardinality(A) \in Nat /\ Cardinality(B) \in Nat
    BY FaultModel, FS_Subset, FS_CardinalityType
  <2>4. Cardinality(A \cup {l}) = Cardinality(A) + 1 /\ Cardinality(B \cup {l}) = Cardinality(B) + 1
    BY <2>1, <2>2, <2>3, FS_AddElement
  <2>5. Cardinality(A \cup {l}) >= Quorum /\ Cardinality(B \cup {l}) >= Quorum
    BY <2>1, <2>2, <2>3, <2>4, FaultModel DEF Quorum
  <2>6. A \cup {l} \in SUBSET Servers /\ B \cup {l} \in SUBSET Servers
    BY <1>0
  <2>7. PICK x \in (A \cup {l}) \cap (B \cup {l}) : x \notin Byzantine
    BY <2>5, <2>6, QuorumsMeet
  <2>8. Prepare(x, p) \in msgs /\ Prepare(x, q) \in msgs
    BY <1>2, <2>1, <2>2, <2>7
  <2>9. Chained(Prepare(x, p), Prepare(x, q)) /\ Prepare(x, p).pp = p /\ Prepare(x, q).pp = q
    BY <2>7 DEF Chained, Prepare
  <2> QED
    BY <1>0, <2>8, <2>9 DEF ChainedSent
<1> QED
  BY <1>1, <1>2

(* The first number of the first view starts at 0, likewise. *)
LEMMA FirstStarts ==
  ASSUME NEW q, FollowInv, Certifiable(q, msgs), q.view = 1, q.seq = 1
  PROVE  q.last_executed = 0
<1> DEFINE l == UTIL_Leader_Of_View[1]
<1>0. l \in Servers /\ \A m \in msgs : FollowSent(m)
  BY OrderingBounds DEF Certifiable, PrePrepare, FollowInv
<1>1. CASE l \notin Byzantine
  <2>1. Pre_Prepare(l, q) \in msgs
    BY <1>1 DEF Certifiable, Is_Proposed
  <2>2. /\ Pre_Prepare(l, q).pp = q /\ Pre_Prepare(l, q).type = "PRE_PREPARE"
        /\ Pre_Prepare(l, q).sender = l
    BY DEF Pre_Prepare
  <2> QED
    BY <1>0, <1>1, <2>1, <2>2 DEF FollowSent, Proposal_Follows
<1>2. CASE l \in Byzantine
  <2>1. PICK A \in SUBSET Servers :
          /\ Cardinality(A) >= Quorum - 1
          /\ l \notin A
          /\ \A x \in A \ Byzantine : Prepare(x, q) \in msgs
    BY DEF Certifiable
  <2>2. IsFiniteSet(A) /\ Cardinality(A) \in Nat
    BY FaultModel, FS_Subset, FS_CardinalityType
  <2>3. Cardinality(A \cup {l}) = Cardinality(A) + 1
    BY <2>1, <2>2, FS_AddElement
  <2>4. Cardinality(A \cup {l}) >= Quorum /\ A \cup {l} \in SUBSET Servers
    BY <1>0, <2>1, <2>2, <2>3, FaultModel DEF Quorum
  <2>5. PICK x \in A \cup {l} : x \notin Byzantine
    BY <2>4, QuorumsMeet
  <2>6. Prepare(x, q) \in msgs
    BY <1>2, <2>1, <2>5
  <2>7. Prepare(x, q).pp = q /\ Prepare(x, q).type = "PREPARE" /\ Prepare(x, q).sender = x
    BY DEF Prepare
  <2> QED
    BY <1>0, <2>5, <2>6, <2>7 DEF FollowSent, Prepare_Follows
<1> QED
  BY <1>1, <1>2

(* What is ordered is certified: a correct replica has committed to it.    *)
LEMMA OrderedIsCertifiable ==
  ASSUME NEW r, NEW s, VCInv, FollowInv, r \in Correct, s \in ordered[r]
  PROVE  pre_prepare[r][s].seq = s /\ Certifiable(pre_prepare[r][s], msgs)
<1>1. PICK pp : pp = pre_prepare[r][s]
  OBVIOUS
<1>2. PICK q \in Servers \ Byzantine : Commit(q, pp) \in msgs /\ pp.seq = s
  BY <1>1, OrderedEntry
<1>3. Commit(q, pp).type = "COMMIT" /\ Commit(q, pp).sender = q /\ Commit(q, pp).pp = pp
  BY DEF Commit
<1>4. FollowSent(Commit(q, pp))
  BY <1>2 DEF FollowInv
<1> QED
  BY <1>1, <1>2, <1>3, <1>4 DEF FollowSent

(* So is what is executed of the first view: it was ordered, or is in a    *)
(* report.                                                                 *)
LEMMA ExecutedIsCertifiable ==
  ASSUME NEW r, NEW s, MaxView <= 2, TwoViewInv, FollowInv, r \in Correct, s \in Seqs,
         s <= ARU[r], pre_prepare[r][s].view = 1
  PROVE  pre_prepare[r][s].seq = s /\ Certifiable(pre_prepare[r][s], msgs)
<1>1. VCInv /\ VoteInv /\ (s \in ordered[r] \/ Replayed_At(r, s))
  BY DEF TwoViewInv, ExecutedHow
<1>2. CASE s \in ordered[r]
  BY <1>1, <1>2, OrderedIsCertifiable
<1>3. CASE Replayed_At(r, s)
  <2>1. View[r] = 2 /\ 2 \in Views /\ replay[2] # NoReplay
    BY <1>1, <1>3, ReplayedInSecond
  <2>2. PICK full : full = Full_PC_Set(replay[2].list, 2)[s]
    OBVIOUS
  <2>3. Holds_No_Op(r, s) => pre_prepare[r][s].view = 0
    BY DEF Holds_No_Op
  <2>4. full # NoPP /\ pre_prepare[r][s] = full
    BY <1>3, <2>1, <2>2, <2>3 DEF Replayed_At, Rebuilt
  <2> QED
    BY <1>1, <2>1, <2>2, <2>4, CopiedIsCertified
<1> QED
  BY <1>1, <1>2, <1>3

(* What is executed of the second view was ordered in it, and proposed by  *)
(* its correct leader after the Replay.                                    *)
LEMMA ExecutedInSecond ==
  ASSUME NEW r, NEW s, MaxView <= 2, TwoViewInv, r \in Correct, s \in Seqs, s <= ARU[r],
         pre_prepare[r][s].view = 2
  PROVE  /\ 2 \in Views /\ replay[2] # NoReplay /\ ~(s < replay[2].startSeq)
         /\ UTIL_Leader_Of_View[2] \in Correct
         /\ Pre_Prepare(UTIL_Leader_Of_View[2], pre_prepare[r][s]) \in msgs
<1>1. /\ VCInv /\ VoteInv /\ ExecutedHow(r) /\ SlotTypes /\ SlotsOf(r) /\ CorrectReplays
      /\ SlotsBacked(r) /\ \A m \in msgs : VoteSent(m)
  BY DEF TwoViewInv, VCInv, VCSlots, VoteInv
<1>2. pre_prepare[r][s] # NoPP
  BY <1>1 DEF SlotsOf, Filled_In
<1>3. ~Replayed_At(r, s)
  BY <1>1, <1>2, ReplayedInSecond, ProposedAfterReplay
<1>4. s \in ordered[r]
  BY <1>1, <1>3 DEF ExecutedHow
<1>5. PICK pp : pp = pre_prepare[r][s]
  OBVIOUS
<1>6. PICK q \in Servers \ Byzantine : Commit(q, pp) \in msgs
  BY <1>1, <1>4, <1>5, OrderedEntry
<1>7. Commit(q, pp).type = "COMMIT" /\ Commit(q, pp).sender = q /\ Commit(q, pp).pp = pp
  BY DEF Commit
<1>8. 2 \in Views
  BY <1>1, <1>4, OrderedEntry DEF PrePrepare
<1>9. replay[2] # NoReplay
  BY <1>1, <1>5, <1>6, <1>7 DEF VoteSent, Commit_Sent
<1>10. Is_Proposed(pp, msgs)
  BY <1>1, <1>2, <1>5 DEF SlotsBacked
<1>11. UTIL_Leader_Of_View[2] \in Correct
  BY <1>1, <1>8, <1>9 DEF CorrectReplays
<1>12. Pre_Prepare(UTIL_Leader_Of_View[2], pp) \in msgs
  BY <1>5, <1>10, <1>11 DEF Is_Proposed, Correct
<1> QED
  BY <1>1, <1>2, <1>5, <1>8, <1>9, <1>11, <1>12, ProposedAfterReplay

(* What is executed of the first view, and every no-op, lies before the    *)
(* startSeq of the Replay, ...                                             *)
LEMMA ExecutedBeforeReplay ==
  ASSUME NEW r, NEW s, MaxView <= 2, TwoViewInv, r \in Correct, s \in Seqs, s <= ARU[r],
         pre_prepare[r][s].view # 2, 2 \in Views, replay[2] # NoReplay
  PROVE  s < replay[2].startSeq
<1>1. VCInv /\ ExecutedHow(r)
  BY DEF TwoViewInv
<1>2. CASE Replayed_At(r, s)
  BY <1>1, <1>2, ReplayedInSecond
<1>3. CASE s \in ordered[r]
  <2>1. pre_prepare[r][s].view \in Views
    BY <1>1, <1>3, OrderedEntry DEF PrePrepare
  <2>2. pre_prepare[r][s].view = 1
    BY <2>1, OrderingBounds DEF Views
  <2> QED
    BY <1>1, <1>3, <2>2, OrderedLiesBefore DEF OrderedIsReplayed
<1> QED
  BY <1>1, <1>2, <1>3 DEF ExecutedHow

(* ... and there made_eligible is what the slot's entry says. *)
LEMMA EligibleBefore ==
  ASSUME NEW r, NEW s, MaxView <= 2, TwoViewInv, r \in Correct, s \in 0 .. MaxSeq, s <= ARU[r],
         2 \in Views, replay[2] # NoReplay, s < replay[2].startSeq
  PROVE  made_eligible[r][s] = Stops_At(r, s)
<1>1. VCInv /\ VoteInv /\ SlotTypes /\ SlotsOf(r) /\ EligibleFirst(r)
  BY DEF TwoViewInv, VCInv, VCSlots
<1>2. CASE s = 0
  BY <1>1, <1>2 DEF SlotsOf, Stops_At
<1>3. CASE s # 0
  <2>1. s \in Seqs
    BY <1>3, OrderingBounds DEF Seqs
  <2>2. Filled_In(r, s)
    BY <1>1, <2>1 DEF SlotsOf
  <2>3. pre_prepare[r][s] \in LogEntry
    BY <1>1, <2>1, <2>2 DEF SlotTypes, Filled_In
  <2>4. pre_prepare[r][s].view \in 0 .. 2
    BY <2>3, OrderingBounds DEF LogEntry
  <2>5. pre_prepare[r][s].view # 2
    BY <1>1, <2>1, <2>2, ProposedAfterReplay DEF Filled_In
  <2>6. CASE pre_prepare[r][s].view = 0
    BY <1>3, <2>6 DEF Stops_At
  <2>7. CASE pre_prepare[r][s].view = 1
    BY <1>1, <1>3, <2>1, <2>2, <2>7 DEF Stops_At, EligibleFirst
  <2> QED
    BY <2>4, <2>5, <2>6, <2>7
<1> QED
  BY <1>2, <1>3

(* A slot of the first view after a no-op of the Replay: the no-op stops   *)
(* where the Pre-Prepare starts, since the Replay has it in its merged     *)
(* certificates, also if the replica has ordered it itself.                *)
LEMMA FollowsNoOp ==
  ASSUME NEW r, NEW s, MaxView <= 2, TwoViewInv, FollowInv, r \in Correct, s \in Seqs,
         s - 1 \in Seqs, s <= ARU[r], pre_prepare[r][s].view = 1, pre_prepare[r][s - 1].view = 0
  PROVE  pre_prepare[r][s].last_executed = made_eligible[r][s - 1]
<1>1. /\ VCInv /\ VoteInv /\ SlotTypes /\ RoundTypes /\ SlotsOf(r)
      /\ s \in ordered[r] \/ Replayed_At(r, s)
  BY DEF TwoViewInv, ExecutedHow, VCInv, VCSlots
<1>2. s \in Int /\ ARU[r] \in Int
  BY <1>1 DEF SlotTypes, Seqs
<1>3. PICK t : t = s - 1
  OBVIOUS
<1>4. t \in Seqs /\ t \in Int /\ t <= ARU[r] /\ t + 1 = s /\ pre_prepare[r][t].view = 0
  BY <1>2, <1>3 DEF Seqs
<1>5. Replayed_At(r, t)
  <2>1. pre_prepare[r][t] \notin PrePrepare
    BY <1>4 DEF PrePrepare, Views
  <2>2. t \notin ordered[r]
    BY <1>1, <2>1, OrderedEntry
  <2> QED
    BY <1>4, <2>2 DEF TwoViewInv, ExecutedHow
<1>6. View[r] = 2 /\ 2 \in Views /\ replay[2] # NoReplay
  BY <1>1, <1>5, ReplayedInSecond
<1>7. PICK list : list = replay[2].list
  OBVIOUS
<1>8. PICK full : full = Full_PC_Set(list, 2)
  OBVIOUS
<1>9. PICK start : start = replay[2].startSeq
  OBVIOUS
<1>10. PICK pp : pp = pre_prepare[r][s]
  OBVIOUS
<1>11. s < start
  BY <1>6, <1>9, ExecutedBeforeReplay
<1>12. pp.seq = s /\ Certifiable(pp, msgs) /\ pp.view = 1 /\ pp # NoPP
  <2>1. pp.seq = s /\ Certifiable(pp, msgs)
    BY <1>10, ExecutedIsCertifiable
  <2> QED
    BY <1>10, <2>1, OrderingBounds DEF Certifiable
<1>13. full[s] = pp
  <2>1. CASE Replayed_At(r, s)
    <3>1. Holds_No_Op(r, s) => pre_prepare[r][s].view = 0
      BY DEF Holds_No_Op
    <3> QED
      BY <1>6, <1>7, <1>8, <1>10, <1>12, <2>1, <3>1 DEF Replayed_At, Rebuilt
  <2>2. CASE s \in ordered[r]
    <3>1. PICK q \in list : \E told \in Report_For(q, 2) : told.execARU >= s \/ pp \in told.pc_set
      BY <1>1, <1>6, <1>7, <1>10, <1>12, <2>2, CommittedIsCounted
    <3>2. PICK told \in Report_For(q, 2) : told.execARU >= s \/ pp \in told.pc_set
      BY <3>1
    <3>3. list \in SUBSET Correct
      BY <1>1, <1>6, <1>7 DEF VCInv, RoundsAgree, Agreed
    <3>4. told.execARU < t
      BY <1>5, <1>6, <1>7, <3>1, <3>2 DEF Replayed_At
    <3>5. told.execARU \in Int
      <4>1. told \in Report
        BY <1>1, <3>1, <3>2, <3>3 DEF Report_For, SlotTypes
      <4> QED
        BY <4>1 DEF Report
    <3>6. pp \in told.pc_set
      BY <1>2, <1>4, <3>2, <3>4, <3>5
    <3>7. Full_PC_Set(list, 2)[s] # NoPP
      BY <1>1, <1>12, <3>1, <3>2, <3>3, <3>6, FullFromReports, OrderingBounds
    <3>8. Certifiable(Full_PC_Set(list, 2)[s], msgs) /\ Full_PC_Set(list, 2)[s].seq = s
          /\ Full_PC_Set(list, 2)[s].view = 1
      BY <1>1, <1>6, <1>7, <3>7, CopiedIsCertified
    <3> QED
      BY <1>1, <1>8, <1>12, <3>8, OneCertificate
  <2> QED
    BY <1>1, <2>1, <2>2
<1>14. made_eligible[r][t] = No_Op_Eligible(pre_prepare[r][t], full, t, start)
  <2>1. full[t] # NoPP => full[t].view = 1
    BY <1>1, <1>4, <1>6, <1>7, <1>8, CopiedIsCertified
  <2> QED
    BY <1>4, <1>5, <1>6, <1>7, <1>8, <1>9, <2>1 DEF Replayed_At, Rebuilt
<1>15. made_eligible[r][t] = pp.last_executed
  BY <1>4, <1>11, <1>12, <1>13, <1>14 DEF No_Op_Eligible
<1> QED
  BY <1>3, <1>10, <1>15

(* A slot of the second view follows the one before it: the leader of the  *)
(* view proposed both, or proposed this one after its Replay, which it had *)
(* executed as everybody does.                                             *)
LEMMA FollowsInSecond ==
  ASSUME NEW r, NEW s, MaxView <= 2, TwoViewInv, FollowInv, r \in Correct, s \in Seqs,
         s <= ARU[r], pre_prepare[r][s].view = 2
  PROVE  pre_prepare[r][s].last_executed = Stops_At(r, s - 1)
<1>1. /\ VCInv /\ VoteInv /\ SlotTypes /\ RoundTypes /\ SlotsOf(r) /\ OrderAgreement
      /\ ChainedSent /\ \A m \in msgs : FollowSent(m)
  BY TwoViewsAgree DEF TwoViewInv, VCInv, VCSlots, FollowInv
<1>2. PICK l \in Correct : l = UTIL_Leader_Of_View[2]
  BY ExecutedInSecond
<1>3. PICK pp : pp = pre_prepare[r][s]
  OBVIOUS
<1>4. /\ 2 \in Views /\ replay[2] # NoReplay /\ ~(s < replay[2].startSeq)
      /\ Pre_Prepare(l, pp) \in msgs
  BY <1>2, <1>3, ExecutedInSecond
<1>5. pp.seq = s /\ pp.view = 2
  BY <1>1, <1>3 DEF SlotsOf, Filled_In
<1>6. /\ Pre_Prepare(l, pp).pp = pp /\ Pre_Prepare(l, pp).sender = l
      /\ Pre_Prepare(l, pp).type = "PRE_PREPARE" /\ l \notin Byzantine
  BY DEF Pre_Prepare, Correct
<1>7. Proposal_Follows(Pre_Prepare(l, pp))
  BY <1>1, <1>4, <1>6 DEF FollowSent
<1>8. s \in Int /\ s >= 1 /\ ARU[r] \in Int /\ replay[2].startSeq \in Int
  BY <1>1, <1>4 DEF SlotTypes, RoundTypes, Replay, Seqs
<1>9. CASE s = 1
  BY <1>3, <1>5, <1>6, <1>7, <1>9 DEF Proposal_Follows, Stops_At
<1>10. CASE s # 1
  <2>1. PICK t : t = s - 1
    OBVIOUS
  <2>2. t \in Seqs /\ t \in Int /\ t # 0 /\ t <= ARU[r] /\ t \in 0 .. MaxSeq
    BY <1>8, <1>10, <2>1, OrderingBounds DEF Seqs
  <2>3. PICK before : before = pre_prepare[r][t]
    OBVIOUS
  <2>4. before.seq = t
    BY <1>1, <2>2, <2>3 DEF SlotsOf, Filled_In
  <2>5. CASE before.view = 2
    <3>1. Pre_Prepare(l, before) \in msgs
      BY <1>2, <2>2, <2>3, <2>5, ExecutedInSecond
    <3>2. Chained(Pre_Prepare(l, before), Pre_Prepare(l, pp))
      BY <1>5, <1>6, <2>1, <2>4, <2>5 DEF Chained, Pre_Prepare
    <3>3. Pre_Prepare(l, before).pp = before
      BY DEF Pre_Prepare
    <3>4. pp.last_executed = Made_Eligible(before)
      BY <1>1, <1>4, <1>6, <3>1, <3>2, <3>3 DEF ChainedSent
    <3> QED
      BY <1>3, <2>1, <2>2, <2>3, <2>5, <3>4 DEF Stops_At
  <2>6. CASE before.view # 2
    <3>1. t < replay[2].startSeq
      BY <1>4, <2>2, <2>3, <2>6, ExecutedBeforeReplay
    <3>2. s = replay[2].startSeq
      BY <1>4, <1>8, <2>1, <3>1
    <3>3. ARU[l] >= t /\ pp.last_executed = made_eligible[l][t]
      BY <1>5, <1>6, <1>7, <2>1, <3>2 DEF Proposal_Follows
    <3>4. t <= ARU[l]
      <4>1. ARU[l] \in Int
        BY <1>1 DEF SlotTypes
      <4> QED
        BY <2>2, <3>3, <4>1
    <3>5. pre_prepare[l][t] = pre_prepare[r][t]
      BY <1>1, <2>2, <3>4 DEF OrderAgreement
    <3>6. made_eligible[l][t] = made_eligible[r][t]
      BY <1>4, <2>2, <3>1, <3>4, <3>5, EligibleAlike
    <3>7. made_eligible[r][t] = Stops_At(r, t)
      BY <1>4, <2>2, <3>1, EligibleBefore
    <3> QED
      BY <1>3, <2>1, <3>3, <3>6, <3>7
  <2> QED
    BY <2>5, <2>6
<1> QED
  BY <1>9, <1>10

(* So executed slots follow each other, whichever way they came to be.     *)
LEMMA SlotsFollow ==
  ASSUME MaxView <= 2, TwoViewInv, FollowInv
  PROVE  ReplayedSlotsFollow
<1> SUFFICES ASSUME NEW r \in Correct, NEW s \in Seqs, s <= ARU[r]
             PROVE  pre_prepare[r][s].last_executed = Stops_At(r, s - 1)
  BY DEF ReplayedSlotsFollow
<1>1. /\ VCInv /\ VoteInv /\ SlotTypes /\ RoundTypes /\ SlotsOf(r)
      /\ s \in ordered[r] \/ Replayed_At(r, s)
  BY DEF TwoViewInv, ExecutedHow, VCInv, VCSlots
<1>2. s \in Int /\ s >= 1 /\ ARU[r] \in Int
  BY <1>1 DEF SlotTypes, Seqs
<1>3. PICK pp : pp = pre_prepare[r][s]
  OBVIOUS
<1>4. pp \in LogEntry /\ pp # NoPP /\ pp.seq = s
  BY <1>1, <1>3 DEF SlotsOf, Filled_In, SlotTypes
<1>5. pp.view \in 0 .. 2
  BY <1>4, OrderingBounds DEF LogEntry
<1>6. CASE pp.view = 2
  BY <1>3, <1>6, FollowsInSecond
<1>7. CASE pp.view = 0
  <2>1. pp \notin PrePrepare
    BY <1>7 DEF PrePrepare, Views
  <2>2. Replayed_At(r, s)
    BY <1>1, <1>3, <2>1, OrderedEntry
  <2>3. View[r] = 2 /\ 2 \in Views /\ replay[2] # NoReplay /\ s < replay[2].startSeq
    BY <1>1, <2>2, ReplayedInSecond
  <2>4. PICK full : full = Full_PC_Set(replay[2].list, 2)[s]
    OBVIOUS
  <2>5. full # NoPP => full.view = 1
    BY <1>1, <2>3, <2>4, CopiedIsCertified
  <2>6. Holds_No_Op(r, s)
    BY <1>3, <1>7, <2>2, <2>3, <2>4, <2>5 DEF Replayed_At, Rebuilt
  <2>7. pp.last_executed = made_eligible[r][s - 1]
    BY <1>3, <2>6 DEF Holds_No_Op
  <2>8. PICK t : t = s - 1
    OBVIOUS
  <2>9. replay[2].startSeq \in Int
    BY <1>1, <2>3 DEF RoundTypes, Replay
  <2>10. t \in 0 .. MaxSeq /\ t <= ARU[r] /\ t < replay[2].startSeq
    BY <1>2, <2>3, <2>8, <2>9, OrderingBounds DEF Seqs
  <2>11. made_eligible[r][t] = Stops_At(r, t)
    BY <2>3, <2>10, EligibleBefore
  <2> QED
    BY <1>3, <2>7, <2>8, <2>11
<1>8. CASE pp.view = 1
  <2>1. Certifiable(pp, msgs)
    BY <1>3, <1>8, ExecutedIsCertifiable
  <2>2. CASE s = 1
    BY <1>3, <1>4, <1>8, <2>1, <2>2, FirstStarts DEF Stops_At
  <2>3. CASE s # 1
    <3>1. PICK t : t = s - 1
      OBVIOUS
    <3>2. t \in Seqs /\ s - 1 \in Seqs /\ t \in Int /\ t # 0 /\ t <= ARU[r]
      BY <1>2, <2>3, <3>1, OrderingBounds DEF Seqs
    <3>3. PICK before : before = pre_prepare[r][t]
      OBVIOUS
    <3>4. before \in LogEntry /\ before # NoPP /\ before.seq = t
      BY <1>1, <3>2, <3>3 DEF SlotsOf, Filled_In, SlotTypes
    <3>5. before.view \in 0 .. 2
      BY <3>4, OrderingBounds DEF LogEntry
    <3>6. CASE before.view = 0
      <4>1. pre_prepare[r][s].last_executed = made_eligible[r][s - 1]
        BY <1>3, <1>8, <3>1, <3>2, <3>3, <3>6, FollowsNoOp
      <4> QED
        BY <3>1, <3>2, <3>3, <3>6, <4>1 DEF Stops_At
    <3>7. CASE before.view = 1
      <4>1. Certifiable(before, msgs)
        BY <3>2, <3>3, <3>7, ExecutedIsCertifiable
      <4>2. pp.last_executed = Made_Eligible(before)
        BY <1>4, <1>8, <2>1, <3>1, <3>4, <3>7, <4>1, FirstChained
      <4> QED
        BY <1>3, <3>1, <3>2, <3>3, <3>7, <4>2 DEF Stops_At
    <3>8. CASE before.view = 2
      <4>1. 2 \in Views /\ replay[2] # NoReplay /\ ~(t < replay[2].startSeq)
        BY <3>2, <3>3, <3>8, ExecutedInSecond
      <4>2. s < replay[2].startSeq
        BY <1>3, <1>8, <4>1, ExecutedBeforeReplay
      <4>3. replay[2].startSeq \in Int
        BY <1>1, <4>1 DEF RoundTypes, Replay
      <4> QED
        BY <1>2, <3>1, <3>2, <4>1, <4>2, <4>3
    <3> QED
      BY <3>5, <3>6, <3>7, <3>8
  <2> QED
    BY <2>2, <2>3
<1> QED
  BY <1>5, <1>6, <1>7, <1>8

(* Over a view change every executed slot starts where the one before it   *)
(* stops: no PO-Request is skipped or ordered twice, whether the slots     *)
(* were ordered before it, certified and replayed, filled with no-ops, or  *)
(* proposed by the new leader.                                             *)
THEOREM VCReplayedSlotsFollow ==
  ASSUME MaxView <= 2
  PROVE  VCSpec => []ReplayedSlotsFollow
<1>1. TwoViewInv /\ FollowInv => ReplayedSlotsFollow
  BY SlotsFollow
<1> QED
  BY <1>1, TwoViewInvariant, FollowInvariant, PTL

-----------------------------------------------------------------------------
(* What vc_stale shows is all that can go wrong with made_eligible.        *)

(* r has proposed s in a view of vs, and its slot is filled in from that.  *)
Proposed_In(r, s, vs) ==
  \E m \in msgs :
    /\ m.type = "PRE_PREPARE" /\ m.sender = r /\ m.pp.seq = s /\ m.pp.view \in vs
    /\ made_eligible[r][s] = Made_Eligible(m.pp)

(* A slot that is filled in without a Pre-Prepare is an own proposal, and  *)
(* one of the second view is filled in from its Pre-Prepare or from what   *)
(* the replica proposed in the first view.                                 *)
EligibleFrom(r) ==
  \A s \in Seqs : made_eligible[r][s] # Unpopulated =>
    /\ pre_prepare[r][s] = NoPP => Proposed_In(r, s, Views)
    /\ pre_prepare[r][s] # NoPP /\ pre_prepare[r][s].view = 2 =>
         \/ made_eligible[r][s] = Made_Eligible(pre_prepare[r][s])
         \/ Proposed_In(r, s, {1})

(* Ordering keeps it: whoever accepts its own Pre-Prepare of the second    *)
(* view has filled in the slot from it, and a leader does not propose what *)
(* it has accepted.                                                        *)
LEMMA EligibleFromActs ==
  ASSUME NEW r, NEW s, Acts(r), VCSlots, VoteInv, EligibleFrom(r), MaxView <= 2,
         r \in Correct, r \notin aborted, s \in Seqs, made_eligible'[r][s] # Unpopulated
  PROVE  /\ pre_prepare'[r][s] = NoPP => Proposed_In(r, s, Views)'
         /\ pre_prepare'[r][s] # NoPP /\ pre_prepare'[r][s].view = 2 =>
              \/ made_eligible'[r][s] = Made_Eligible(pre_prepare'[r][s])
              \/ Proposed_In(r, s, {1})'
<1>1. /\ SlotTypes /\ SlotsOf(r) /\ SlotsBacked(r) /\ SentOnce /\ \A m \in msgs : VoteSent(m)
      /\ s \in 0 .. MaxSeq /\ s \in Int /\ seq[r] \in Int /\ ARU[r] \in Int
      /\ msgs \subseteq msgs' /\ r \notin Byzantine
  <2>1. /\ SlotTypes /\ SlotsOf(r) /\ SlotsBacked(r) /\ SentOnce /\ \A m \in msgs : VoteSent(m)
        /\ r \notin Byzantine
    BY DEF VCSlots, VoteInv, Correct
  <2>2. seq[r] \in Int /\ ARU[r] \in Int
    BY <2>1 DEF SlotTypes
  <2>3. msgs \subseteq msgs'
    BY DEF Acts, Sends
  <2> QED
    BY <2>1, <2>2, <2>3, OrderingBounds DEF Seqs
<1>2. View[r] \in Views /\ View' = View /\ Views \subseteq {1, 2}
  BY <1>1, OrderingBounds DEF SlotTypes, Acts, Views
<1>3. ASSUME pre_prepare'[r][s] = NoPP PROVE Proposed_In(r, s, Views)'
  <2>1. pre_prepare[r][s] = NoPP
    BY <1>3, OrderingBounds DEF Acts, Accepts
  <2>2. CASE made_eligible'[r][s] = made_eligible[r][s]
    BY <1>1, <2>1, <2>2 DEF EligibleFrom, Proposed_In
  <2>3. CASE made_eligible'[r][s] # made_eligible[r][s]
    <3>1. PICK n \in msgs' : /\ Proposal(r, n) /\ n.pp.seq = s
                             /\ made_eligible'[r][s] = Made_Eligible(n.pp)
      BY <1>1, <1>3, <2>3 DEF Acts, Populates
    <3> QED
      BY <1>2, <3>1 DEF Proposal, Proposed_In
  <2> QED
    BY <2>2, <2>3
<1>4. ASSUME pre_prepare'[r][s] # NoPP, pre_prepare'[r][s].view = 2
      PROVE  \/ made_eligible'[r][s] = Made_Eligible(pre_prepare'[r][s])
             \/ Proposed_In(r, s, {1})'
  <2>1. PICK pp : pp = pre_prepare'[r][s]
    OBVIOUS
  <2>2. pp.seq = s /\ Is_Proposed(pp, msgs) /\ pp.view = 2 /\ (pp = pre_prepare[r][s] \/ pre_prepare[r][s] = NoPP)
    <3>1. CASE pp = pre_prepare[r][s]
      BY <1>1, <1>4, <2>1, <3>1 DEF SlotsOf, SlotsBacked
    <3>2. CASE pp # pre_prepare[r][s]
      BY <1>4, <2>1, <3>2 DEF Acts, Accepts, Is_Proposed
    <3> QED
      BY <3>1, <3>2
  <2>3. CASE made_eligible'[r][s] = made_eligible[r][s] /\ pp = pre_prepare[r][s]
    BY <1>1, <1>4, <2>1, <2>3 DEF EligibleFrom, Proposed_In
  <2>4. CASE made_eligible'[r][s] = made_eligible[r][s] /\ pre_prepare[r][s] = NoPP
    <3>1. PICK m \in msgs : /\ m.type = "PRE_PREPARE" /\ m.sender = r /\ m.pp.seq = s
                            /\ m.pp.view \in Views /\ made_eligible[r][s] = Made_Eligible(m.pp)
      BY <2>4 DEF EligibleFrom, Proposed_In
    <3>2. CASE m.pp.view = 1
      BY <1>1, <2>4, <3>1, <3>2 DEF Proposed_In
    <3>3. CASE m.pp.view = 2
      <4>1. UTIL_Leader_Of_View[2] = r
        BY <1>1, <3>1, <3>3 DEF VoteSent, Proposal_Sent
      <4>2. Pre_Prepare(r, pp) \in msgs
        BY <1>1, <2>2, <4>1, ProposedBefore
      <4>3. Same_Vote(m, Pre_Prepare(r, pp)) /\ Pre_Prepare(r, pp).pp = pp
        BY <1>1, <2>2, <3>1, <3>3 DEF Same_Vote, Pre_Prepare
      <4>4. m.pp = pp
        BY <1>1, <3>1, <4>2, <4>3 DEF SentOnce
      <4> QED
        BY <2>1, <2>4, <3>1, <4>4
    <3> QED
      BY <1>2, <3>1, <3>2, <3>3
  <2>5. CASE made_eligible'[r][s] # made_eligible[r][s]
    <3>1. ASSUME NEW n \in msgs', Proposal(r, n), n.pp.seq = s,
                 made_eligible'[r][s] = Made_Eligible(n.pp)
          PROVE  Proposed_In(r, s, {1})'
      <4>1. /\ seq[r] = s /\ I_Am_Leader(r) /\ n.type = "PRE_PREPARE" /\ n.sender = r
            /\ n.pp.view = View[r]
        BY <3>1 DEF Proposal
      <4>2. View[r] # 2
        <5>1. View[r] = 2 => s < seq[r]
          BY <1>1, <2>2, <4>1, NotYetProposed
        <5> QED
          BY <1>1, <4>1, <5>1
      <4> QED
        BY <1>2, <3>1, <4>1, <4>2 DEF Proposed_In
    <3> QED
      BY <1>1, <1>4, <2>5, <3>1 DEF Acts, Populates
  <2> QED
    BY <2>2, <2>3, <2>4, <2>5
<1> QED
  BY <1>3, <1>4

(* So does the view change: a Replay leaves a slot as it is with its       *)
(* Pre-Prepare, rebuilds it from an earlier view, or empties it.           *)
LEMMA EligibleFromStep ==
  ASSUME NEW r, NEW p, VC_Step(r), VCSlots, RoundsAgree, VoteInv, EligibleFrom(p), MaxView <= 2,
         r \in Correct, p \in Correct, r \notin aborted
  PROVE  EligibleFrom(p)'
<1>1. SlotTypes /\ SlotsOf(r) /\ View[r] \in Views
  BY DEF VCSlots, SlotTypes
<1>2. ASSUME pre_prepare'[p] = pre_prepare[p], made_eligible'[p] = made_eligible[p],
             msgs \subseteq msgs'
      PROVE  EligibleFrom(p)'
  BY <1>2 DEF EligibleFrom, Proposed_In
<1>3. CASE p = r /\ Acts(r)
  BY <1>3, EligibleFromActs DEF EligibleFrom
<1>4. CASE p = r /\ Replays(r)
  <2> SUFFICES ASSUME NEW s \in Seqs, made_eligible'[r][s] # Unpopulated
               PROVE  /\ pre_prepare'[r][s] = NoPP => Proposed_In(r, s, Views)'
                      /\ pre_prepare'[r][s] # NoPP /\ pre_prepare'[r][s].view = 2 =>
                           \/ made_eligible'[r][s] = Made_Eligible(pre_prepare'[r][s])
                           \/ Proposed_In(r, s, {1})'
    BY <1>4 DEF EligibleFrom
  <2>1. Replays_Slot(r, s) /\ msgs' = msgs
    BY <1>4 DEF Replays
  <2>2. CASE Kept(r, s)
    BY <1>4, <2>1, <2>2 DEF Replays_Slot, EligibleFrom, Proposed_In
  <2>3. CASE ~Kept(r, s)
    <3>1. s < replay[View[r]].startSeq
      BY <2>1, <2>3 DEF Replays_Slot
    <3>2. Filled_In(r, s)' /\ pre_prepare'[r][s].view < View[r]
      BY <2>1, <2>3, <3>1 DEF Replays_Slot
    <3>3. pre_prepare'[r][s].view # 2
      BY <1>1, <3>2, OrderingBounds DEF Views
    <3> QED
      BY <3>2, <3>3 DEF Filled_In
  <2> QED
    BY <2>2, <2>3
<1>5. CASE p # r /\ (Acts(r) \/ Replays(r))
  <2>1. Rests(p) /\ msgs \subseteq msgs'
    BY <1>5 DEF Acts, Replays, Sends
  <2> QED
    BY <1>2, <2>1 DEF Rests
<1>6. CASE VIEW_Start_View_Change(r) \/ Agrees_On_Replay(r)
  <2>1. UNCHANGED <<pre_prepare, made_eligible, msgs>>
    BY <1>6, AgreesOnReplay DEF VIEW_Start_View_Change, vars, slotVars, execVars
  <2> QED
    BY <1>2, <2>1
<1> QED
  BY <1>3, <1>4, <1>5, <1>6 DEF VC_Step

(* Over two views this holds in every state. *)
LEMMA EligibleFromInvariant ==
  ASSUME MaxView <= 2
  PROVE  VCSpec => [](\A r \in Correct : EligibleFrom(r))
<1> DEFINE AllFilled == \A r \in Correct : EligibleFrom(r)
<1>1. VCInit => AllFilled
  <2>1. ASSUME VCInit, NEW r \in Correct, NEW s \in Seqs PROVE made_eligible[r][s] = Unpopulated
    BY <2>1, OrderingBounds DEF VCInit, Init, EmptySlots, Seqs
  <2> QED
    BY <2>1 DEF EligibleFrom
<1>2. TwoViewInv /\ AllFilled /\ [VCNext]_allVars => AllFilled'
  <2> SUFFICES ASSUME TwoViewInv, AllFilled, [VCNext]_allVars PROVE AllFilled'
    OBVIOUS
  <2>1. VCInv /\ VoteInv /\ VCSlots /\ RoundsAgree
    BY DEF TwoViewInv, VCInv
  <2>2. CASE VCNext
    <3>1. PICK r \in Correct \ aborted : VC_Step(r)
      BY <2>1, <2>2, VCNextSteps DEF VCInv
    <3>2. ASSUME NEW p \in Correct PROVE EligibleFrom(p)'
      BY <2>1, <3>1, <3>2, EligibleFromStep
    <3> QED
      BY <3>2
  <2>3. CASE UNCHANGED allVars
    <3>1. UNCHANGED <<pre_prepare, made_eligible, msgs>>
      BY <2>3 DEF allVars, vars, slotVars, execVars
    <3> QED
      BY <3>1 DEF EligibleFrom, Proposed_In
  <2> QED
    BY <2>2, <2>3
<1> HIDE DEF AllFilled
<1>3. VCSpec => []AllFilled
  BY <1>1, <1>2, TwoViewInvariant, PTL DEF VCSpec
<1> QED
  BY <1>3 DEF AllFilled

(* Where two replicas have executed different PO-Requests at a number, one *)
(* of them led the first view and has proposed the number there, and has   *)
(* executed what that proposal makes eligible for a Pre-Prepare of the     *)
(* second view.                                                            *)
ExecutedAlikeOrStale ==
  \A r, q \in Correct : \A s \in Seqs :
    s <= ARU[r] /\ s <= ARU[q] /\ made_eligible[r][s] # made_eligible[q][s] =>
      /\ pre_prepare[r][s].view = 2 /\ pre_prepare[q][s].view = 2
      /\ \E p \in {r, q} : p = UTIL_Leader_Of_View[1] /\ Proposed_In(p, s, {1})

(* A slot of the second view that holds something else than its            *)
(* Pre-Prepare says is the one of the first leader.                        *)
LEMMA StaleAtFirstLeader ==
  ASSUME NEW p, NEW s, TwoViewInv, EligibleFrom(p), p \in Correct, s \in Seqs, s <= ARU[p],
         pre_prepare[p][s].view = 2, made_eligible[p][s] # Made_Eligible(pre_prepare[p][s])
  PROVE  p = UTIL_Leader_Of_View[1] /\ Proposed_In(p, s, {1})
<1>1. SlotsOf(p) /\ p \notin Byzantine /\ \A m \in msgs : VoteSent(m)
  BY DEF TwoViewInv, VCInv, VCSlots, VoteInv, Correct
<1>2. Filled_In(p, s)
  BY <1>1 DEF SlotsOf
<1>3. Proposed_In(p, s, {1})
  BY <1>2 DEF EligibleFrom, Filled_In
<1>4. PICK m \in msgs : m.type = "PRE_PREPARE" /\ m.sender = p /\ m.pp.view = 1
  BY <1>3 DEF Proposed_In
<1>5. UTIL_Leader_Of_View[1] = p
  BY <1>1, <1>4 DEF VoteSent, Proposal_Sent
<1> QED
  BY <1>3, <1>5

(* With one change of view, the disagreement that vc_stale shows is the    *)
(* only one: replicas other than the leader of the first view execute the  *)
(* same PO-Requests at every number, and that leader does too, except at a *)
(* number that it proposed, lost, and got back from the next leader.       *)
THEOREM VCExecutedAlikeOrStale ==
  ASSUME MaxView <= 2
  PROVE  VCSpec => []ExecutedAlikeOrStale
<1>1. TwoViewInv /\ (\A r \in Correct : EligibleFrom(r)) => ExecutedAlikeOrStale
  <2> SUFFICES ASSUME TwoViewInv, \A r \in Correct : EligibleFrom(r), NEW r \in Correct,
                      NEW q \in Correct, NEW s \in Seqs, s <= ARU[r], s <= ARU[q],
                      made_eligible[r][s] # made_eligible[q][s]
               PROVE  /\ pre_prepare[r][s].view = 2 /\ pre_prepare[q][s].view = 2
                      /\ \E p \in {r, q} : p = UTIL_Leader_Of_View[1] /\ Proposed_In(p, s, {1})
    BY DEF ExecutedAlikeOrStale
  <2>1. /\ VCInv /\ VoteInv /\ SlotTypes /\ SlotsOf(r) /\ SlotsOf(q)
        /\ EligibleFirst(r) /\ EligibleFirst(q)
        /\ s \in ordered[r] \/ Replayed_At(r, s)
    BY DEF TwoViewInv, ExecutedHow, VCInv, VCSlots
  <2>2. pre_prepare[r][s] = pre_prepare[q][s]
    BY TwoViewsAgree DEF OrderAgreement
  <2>3. PICK pp : pp = pre_prepare[r][s]
    OBVIOUS
  <2>4. Filled_In(r, s) /\ Filled_In(q, s)
    BY <2>1 DEF SlotsOf
  <2>5. pp \in LogEntry
    BY <2>1, <2>3, <2>4 DEF SlotTypes, Filled_In
  <2>6. pp.view \in 0 .. 2
    BY <2>5, OrderingBounds DEF LogEntry
  <2>7. pp.view # 1
    BY <2>1, <2>2, <2>3, <2>4 DEF EligibleFirst
  <2>8. pp.view # 0
    <3>1. ASSUME pp.view = 0 PROVE pp \notin PrePrepare
      BY <3>1 DEF PrePrepare, Views
    <3>2. ASSUME pp.view = 0 PROVE Replayed_At(r, s)
      BY <2>1, <2>3, <3>1, <3>2, OrderedEntry
    <3>3. ASSUME pp.view = 0 PROVE 2 \in Views /\ replay[2] # NoReplay /\ s < replay[2].startSeq
      BY <2>1, <3>2, <3>3, ReplayedInSecond
    <3> QED
      BY <2>2, <3>3, EligibleAlike
  <2>9. pp.view = 2
    BY <2>6, <2>7, <2>8
  <2>10. \/ made_eligible[r][s] # Made_Eligible(pp)
         \/ made_eligible[q][s] # Made_Eligible(pp)
    OBVIOUS
  <2> QED
    BY <2>2, <2>3, <2>9, <2>10, StaleAtFirstLeader
<1> QED
  BY <1>1, TwoViewInvariant, EligibleFromInvariant, PTL
=============================================================================
