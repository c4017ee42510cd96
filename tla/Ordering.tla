------------------------------ MODULE Ordering -------------------------------
(***************************************************************************)
(* The global ordering protocol of prime/src/order.c: the leader of a view *)
(* assigns sequence numbers to Pre-Prepares, replicas agree on each with a *)
(* round of Prepares and a round of Commits, and execute them in sequence. *)
(*                                                                         *)
(* A Pre-Prepare carries a vector last_executed and a matrix of PO-ARUs;   *)
(* it makes eligible the PO-Requests after last_executed that the matrix   *)
(* proves.  One introducing replica is modelled, so both are a single      *)
(* number.  A Prepare or a Commit names the digest of a Pre-Prepare: here, *)
(* the Pre-Prepare itself.                                                 *)
(*                                                                         *)
(* A replica may leave the view at any time (VIEW_Start_View_Change).  It  *)
(* then goes on accepting messages of the view it left, without sending    *)
(* any, until the view change completes; the completion is not part of     *)
(* this module.                                                            *)
(*                                                                         *)
(* A message, once sent, stays in msgs: it may reach each replica never,   *)
(* once or several times and in any order.                                 *)
(***************************************************************************)
EXTENDS PrimeConfig

CONSTANTS
  UTIL_Leader_Of_View,  \* the leader of every view
  MaxView,              \* bound: views are 1 .. MaxView
  MaxSeq,               \* bound: sequence numbers are 1 .. MaxSeq
  MaxPO,                \* bound: PO-Requests are 1 .. MaxPO
  PreOrdered,           \* PO-Requests every replica holds from the start
  Lies,                 \* bound: what Byzantine servers send to whom
  NoPP,                 \* no Pre-Prepare: a NULL message, an empty slot
  Unpopulated           \* a made_eligible vector with populated_eligible 0

Views == 1 .. MaxView
Seqs == 1 .. MaxSeq
POSeqs == 0 .. MaxPO

PrePrepare == [seq : Seqs, view : Views,
               last_executed : POSeqs, proof_aru : POSeqs]

MessageType == {"PRE_PREPARE", "PREPARE", "COMMIT"}

ASSUME OrderingBounds ==
  /\ MaxView \in Nat \ {0}
  /\ MaxSeq \in Nat \ {0}
  /\ MaxPO \in Nat
  /\ PreOrdered \in POSeqs
  /\ UTIL_Leader_Of_View \in [Views -> Servers]
  /\ Lies \subseteq [type : MessageType, pp : PrePrepare, to : Servers]
  /\ NoPP \notin PrePrepare
  /\ Unpopulated \notin POSeqs

Message == [type : MessageType, sender : Servers, pp : PrePrepare]

VARIABLES
  View,                 \* DATA.View
  view_change_done,     \* DATA.VIEW.view_change_done
  leader_suspected,     \* DATA.SUSP.leader_suspected
  seq,                  \* DATA.ORD.seq: the next sequence number to assign
  ARU,                  \* DATA.ORD.ARU: executed up to here
  ppARU,                \* DATA.ORD.ppARU: Pre-Prepares accepted up to here
  pre_prepare,          \* slot->complete_pre_prepare, once collected
  prepare,              \* slot->prepare: what each server prepared
  commit,               \* slot->commit: what each server committed
  prepare_certificate,  \* slot->prepare_certificate, once ready
  ordered,              \* the slots with slot->ordered
  made_eligible,        \* slot->made_eligible
  Pending_Execution,    \* ORD.Pending_Execution: ordered, not yet executable
  missing,              \* PO.Pending_Execution, by the slot that waits
  execute_queued,       \* ORDER_Attempt_To_Execute_Pending_Commits is queued
  cum_aru,              \* PO.cum_aru: PO-Requests held, up to here
  report,               \* history: what VIEW_Start_View_Change reported
  msgs                  \* every message a correct replica has sent

viewVars == <<View, view_change_done, leader_suspected, report>>
slotVars == <<pre_prepare, prepare, commit, prepare_certificate, ordered>>
execVars == <<ARU, ppARU, made_eligible, Pending_Execution, missing>>
poVars == <<cum_aru, execute_queued>>
vars == <<viewVars, slotVars, execVars, poVars, seq, msgs>>

Report == [view : Views, execARU : 0 .. MaxSeq, pc_set : SUBSET PrePrepare]

TypeOK ==
  /\ View \in [Correct -> Views]
  /\ view_change_done \in [Correct -> BOOLEAN]
  /\ leader_suspected \in [Correct -> BOOLEAN]
  /\ seq \in [Correct -> 1 .. MaxSeq + 1]
  /\ ARU \in [Correct -> 0 .. MaxSeq]
  /\ ppARU \in [Correct -> 0 .. MaxSeq]
  /\ pre_prepare \in [Correct -> [Seqs -> PrePrepare \cup {NoPP}]]
  /\ prepare \in [Correct -> [Seqs -> [Servers -> PrePrepare \cup {NoPP}]]]
  /\ commit \in [Correct -> [Seqs -> [Servers -> PrePrepare \cup {NoPP}]]]
  /\ prepare_certificate \in [Correct -> [Seqs -> PrePrepare \cup {NoPP}]]
  /\ ordered \in [Correct -> SUBSET Seqs]
  /\ made_eligible \in [Correct -> [0 .. MaxSeq -> POSeqs \cup {Unpopulated}]]
  /\ Pending_Execution \in [Correct -> SUBSET Seqs]
  /\ missing \in [Correct -> [Seqs -> SUBSET POSeqs]]
  /\ execute_queued \in [Correct -> BOOLEAN]
  /\ cum_aru \in [Correct -> POSeqs]
  /\ report \in [Correct -> SUBSET Report]
  /\ msgs \subseteq Message

-----------------------------------------------------------------------------
EmptySlots == [s \in Seqs |-> NoPP]

(* ORDER_Initialize_Data_Structure and VIEW_Initialize_Data_Structure: the *)
(* first view needs no view change.  made_eligible[r][0] stands for the    *)
(* all-zero vector that is used where there is no previous slot.           *)
Init ==
  /\ View = [r \in Correct |-> 1]
  /\ view_change_done = [r \in Correct |-> TRUE]
  /\ leader_suspected = [r \in Correct |-> FALSE]
  /\ seq = [r \in Correct |-> 1]
  /\ ARU = [r \in Correct |-> 0]
  /\ ppARU = [r \in Correct |-> 0]
  /\ pre_prepare = [r \in Correct |-> EmptySlots]
  /\ prepare = [r \in Correct |-> [s \in Seqs |-> [q \in Servers |-> NoPP]]]
  /\ commit = [r \in Correct |-> [s \in Seqs |-> [q \in Servers |-> NoPP]]]
  /\ prepare_certificate = [r \in Correct |-> EmptySlots]
  /\ ordered = [r \in Correct |-> {}]
  /\ made_eligible =
       [r \in Correct |-> [s \in 0 .. MaxSeq |-> IF s = 0 THEN 0 ELSE Unpopulated]]
  /\ Pending_Execution = [r \in Correct |-> {}]
  /\ missing = [r \in Correct |-> [s \in Seqs |-> {}]]
  /\ execute_queued = [r \in Correct |-> FALSE]
  /\ cum_aru = [r \in Correct |-> PreOrdered]
  /\ report = [r \in Correct |-> {}]
  /\ msgs = {}

-----------------------------------------------------------------------------
I_Am_Leader(r) == UTIL_Leader_Of_View[View[r]] = r

Pre_Prepare(r, pp) == [type |-> "PRE_PREPARE", sender |-> r, pp |-> pp]
Prepare(r, pp) == [type |-> "PREPARE", sender |-> r, pp |-> pp]
Commit(r, pp) == [type |-> "COMMIT", sender |-> r, pp |-> pp]

(* What the network may hand to r: a message that a correct replica sent   *)
(* or flooded, or one that a Byzantine server makes up.                    *)
Arriving(type, r) ==
  {m \in msgs : m.type = type} \cup
  {[type |-> type, sender |-> b, pp |-> lie.pp] :
     b \in Byzantine, lie \in {l \in Lies : l.type = type /\ l.to = r}}

(* The view checks of the three handlers: a later view is dropped; an      *)
(* earlier one is dropped too, unless a view change is under way and       *)
(* nothing of a later view than the message's was executed last.           *)
View_Permits(r, v) ==
  \/ v = View[r]
  \/ /\ v < View[r]
     /\ ~view_change_done[r]
     /\ ARU[r] > 0 => v >= pre_prepare[r][ARU[r]].view

Larger(a, b) == IF a > b THEN a ELSE b

(* What executing pp makes eligible: never less than was executed before.  *)
Made_Eligible(pp) == Larger(pp.proof_aru, pp.last_executed)

(* The made_eligible of slot s as ORDER_Send_Prepares finds it or fills it *)
Eligible_At(pps, me, s) ==
  IF me[s] # Unpopulated THEN me[s] ELSE Made_Eligible(pps[s])

Populate(pps, me, slots) ==
  [s \in 0 .. MaxSeq |-> IF s \in slots THEN Eligible_At(pps, me, s) ELSE me[s]]

(* ORDER_Send_Prepares goes past slot s: its Pre-Prepare is there, and     *)
(* starts where the one before it stops.  During a view change nothing is  *)
(* compared.                                                               *)
May_Prepare(r, pps, me, s) ==
  /\ pps[s] # NoPP
  /\ view_change_done[r] =>
       pps[s].last_executed = Eligible_At(pps, me, s - 1)

(* ORDER_Send_Prepares, with the slots' Pre-Prepares and made_eligible as  *)
(* the caller leaves them, in a handler that also sends the messages in    *)
(* sent: ppARU goes up to the next slot that may not be prepared.          *)
ORDER_Send_Prepares(r, pps, me, sent) ==
  \E n \in ppARU[r] .. MaxSeq :
    LET new == ppARU[r] + 1 .. n IN
    /\ \A s \in new : May_Prepare(r, pps, me, s)
    /\ n < MaxSeq => ~May_Prepare(r, pps, me, n + 1)
    /\ ppARU' = [ppARU EXCEPT ![r] = n]
    /\ made_eligible' = [made_eligible EXCEPT ![r] =
                           IF view_change_done[r] THEN Populate(pps, me, new) ELSE me]
    /\ msgs' = msgs \cup sent \cup
               {Prepare(r, pps[s]) :
                  s \in IF view_change_done[r] /\ ~I_Am_Leader(r) THEN new ELSE {}}

\* mutants of the two tests below
CertificateWithoutPrePrepare(pp, votes) ==
  Cardinality({q \in Servers : votes[q] = pp}) >= Quorum - 1
AnyCommitCounts(pp, votes) ==
  pp # NoPP /\ Cardinality({q \in Servers : votes[q] # NoPP}) >= Quorum

(* ORDER_Prepare_Certificate_Ready and ORDER_Commit_Certificate_Ready,     *)
(* given the votes stored in a slot.                                       *)
ORDER_Prepare_Certificate_Ready(pp, votes) ==
  pp # NoPP /\ Cardinality({q \in Servers : votes[q] = pp}) >= Quorum - 1

ORDER_Commit_Certificate_Ready(pp, votes) ==
  pp # NoPP /\ Cardinality({q \in Servers : votes[q] = pp}) >= Quorum

(* ORDER_Move_Prepare_Certificate is due: the slot has neither been        *)
(* ordered nor has a certificate yet.                                      *)
Gets_Certificate(r, s, pp, votes) ==
  /\ prepare_certificate[r][s] = NoPP
  /\ s \notin ordered[r]
  /\ ORDER_Prepare_Certificate_Ready(pp, votes)

\* mutant of Commit_After_Certificate: view_change_done is not looked at
CommitDuringViewChange(r, pp) == {Commit(r, pp)}

(* The Commit that follows a new certificate, sent outside view changes    *)
Commit_After_Certificate(r, pp) ==
  IF view_change_done[r] THEN {Commit(r, pp)} ELSE {}

(* The PO-Requests that slot s makes eligible and r does not hold: up to   *)
(* the made_eligible of the slot, which need not be that of its Pre-Prepare*)
Lacking(r, s, me) ==
  {q \in POSeqs : pre_prepare[r][s].last_executed < q /\ q <= me[s] /\ q > cum_aru[r]}

\* mutant of Ready_To_Execute: the slot need not be ordered
ReadyWhenAccepted(r, waiting, s, me) ==
  pre_prepare[r][s] # NoPP /\ missing[r][s] = {} /\ Lacking(r, s, me) = {}

(* ORDER_Ready_To_Execute, in slot order and with the slots waiting        *)
Ready_To_Execute(r, waiting, s, me) ==
  /\ s \in waiting
  /\ missing[r][s] = {}
  /\ Lacking(r, s, me) = {}

(* ORDER_Execute_Commit(s).  A slot out of order waits.  The next slot in  *)
(* order is executed if its PO-Requests are there, and after it, by way of *)
(* ORDER_Attempt_To_Execute_Pending_Commits, every slot waiting behind it; *)
(* the first one that cannot be executed records what it waits for.        *)
ORDER_Execute_Commit(r, s, me) ==
  LET waiting == Pending_Execution[r] \cup {s} IN
  \/ /\ s # ARU[r] + 1
     /\ Pending_Execution' = [Pending_Execution EXCEPT ![r] = waiting]
     /\ made_eligible' = [made_eligible EXCEPT ![r] = me]
     /\ UNCHANGED <<ARU, ppARU, missing, msgs>>
  \/ /\ s = ARU[r] + 1
     /\ \E n \in ARU[r] .. MaxSeq :
          /\ \A i \in ARU[r] + 1 .. n : Ready_To_Execute(r, waiting, i, me)
          /\ n < MaxSeq => ~Ready_To_Execute(r, waiting, n + 1, me)
          /\ ARU' = [ARU EXCEPT ![r] = n]
          /\ Pending_Execution' =
               [Pending_Execution EXCEPT ![r] = waiting \ (1 .. n)]
          /\ missing' = [missing EXCEPT ![r] = [i \in Seqs |->
               IF i = n + 1 /\ i \in waiting /\ missing[r][i] = {}
               THEN Lacking(r, i, me) ELSE missing[r][i]]]
          /\ IF n > ARU[r]
             THEN ORDER_Send_Prepares(r, pre_prepare[r], me, {})
             ELSE /\ made_eligible' = [made_eligible EXCEPT ![r] = me]
                  /\ UNCHANGED <<ppARU, msgs>>

-----------------------------------------------------------------------------
(* ORDER_Periodically at the leader, when there are PO-ARUs to order: the  *)
(* new Pre-Prepare starts where the last slot stops.  Its own slot gets    *)
(* made_eligible now, the Pre-Prepare when the leader receives it.  It is  *)
(* not queued in a view change: the New_Leaders or the proof by which a    *)
(* leader leaves its view dequeue it, the end of the Replay queues it.     *)
ORDER_Send_One_Pre_Prepare(r) ==
  \E a \in POSeqs :
    LET pp == [seq |-> seq[r], view |-> View[r],
               last_executed |-> made_eligible[r][seq[r] - 1], proof_aru |-> a] IN
    /\ I_Am_Leader(r)
    /\ view_change_done[r]
    /\ seq[r] <= MaxSeq
    /\ msgs' = msgs \cup {Pre_Prepare(r, pp)}
    /\ made_eligible' = [made_eligible EXCEPT ![r][seq[r]] =
                           IF @ = Unpopulated THEN Made_Eligible(pp) ELSE @]
    /\ seq' = [seq EXCEPT ![r] = @ + 1]
    /\ UNCHANGED <<viewVars, slotVars, poVars, ARU, ppARU,
                   Pending_Execution, missing>>

(* Nothing more is done for a slot once the next one is executed too.      *)
Done_With_Slot(r, s) == s + 1 <= ARU[r]

\* mutant of ORDER_Flood_Pre_Prepare
FloodNothing(r, m) == {}

(* ORDER_Flood_Pre_Prepare: everyone but the leader passes it on.          *)
ORDER_Flood_Pre_Prepare(r, m) == IF I_Am_Leader(r) THEN {} ELSE {m}

(* ORDER_Process_Pre_Prepare: the first Pre-Prepare of a slot is stored    *)
(* and flooded; early Prepares may complete a certificate at once.         *)
ORDER_Process_Pre_Prepare(r, m) ==
  LET pp == m.pp
      s == pp.seq
      pps == [pre_prepare[r] EXCEPT ![s] = pp]
      certified == Gets_Certificate(r, s, pp, prepare[r][s])
      sent == ORDER_Flood_Pre_Prepare(r, m) \cup
              IF certified THEN Commit_After_Certificate(r, pp) ELSE {}
  IN
  /\ ~Done_With_Slot(r, s)
  /\ View_Permits(r, pp.view)
  /\ m.sender = UTIL_Leader_Of_View[pp.view]
  /\ pre_prepare[r][s] = NoPP
  /\ pre_prepare' = [pre_prepare EXCEPT ![r] = pps]
  /\ prepare_certificate' = [prepare_certificate EXCEPT ![r][s] =
                               IF certified THEN pp ELSE @]
  /\ IF s = ppARU[r] + 1
     THEN ORDER_Send_Prepares(r, pps, made_eligible[r], sent)
     ELSE /\ msgs' = msgs \cup sent
          /\ UNCHANGED <<ppARU, made_eligible>>
  /\ UNCHANGED <<viewVars, poVars, prepare, commit, ordered, seq, ARU,
                 Pending_Execution, missing>>

(* ORDER_Process_Pre_Prepare: a second, different Pre-Prepare of the view  *)
(* for the same slot proves that the leader is faulty.                     *)
Inconsistent_Pre_Prepare(r, m) ==
  LET pp == m.pp IN
  /\ ~Done_With_Slot(r, pp.seq)
  /\ pp.view = View[r]
  /\ m.sender = UTIL_Leader_Of_View[pp.view]
  /\ pre_prepare[r][pp.seq] \notin {NoPP, pp}
  /\ pre_prepare[r][pp.seq].view = pp.view
  /\ ~leader_suspected[r]
  /\ leader_suspected' = [leader_suspected EXCEPT ![r] = TRUE]
  /\ UNCHANGED <<View, view_change_done, report, slotVars, execVars, poVars,
                 seq, msgs>>

(* ORDER_Process_Prepare *)
ORDER_Process_Prepare(r, m) ==
  LET pp == m.pp
      q == m.sender
      s == pp.seq
      votes == [prepare[r][s] EXCEPT ![q] = pp]
      mine == pre_prepare[r][s]
      certified == Gets_Certificate(r, s, mine, votes)
  IN
  /\ s > ARU[r]
  /\ View_Permits(r, pp.view)
  /\ q # UTIL_Leader_Of_View[pp.view]
  /\ prepare[r][s][q] = NoPP
  /\ prepare' = [prepare EXCEPT ![r][s] = votes]
  /\ prepare_certificate' = [prepare_certificate EXCEPT ![r][s] =
                               IF certified THEN mine ELSE @]
  /\ msgs' = msgs \cup
             IF certified THEN Commit_After_Certificate(r, mine) ELSE {}
  /\ UNCHANGED <<viewVars, execVars, poVars, pre_prepare, commit, ordered, seq>>

(* ORDER_Process_Commit *)
ORDER_Process_Commit(r, m) ==
  LET pp == m.pp
      q == m.sender
      s == pp.seq
      votes == [commit[r][s] EXCEPT ![q] = pp]
  IN
  /\ s > ARU[r]
  /\ View_Permits(r, pp.view)
  /\ commit[r][s][q] = NoPP
  /\ commit' = [commit EXCEPT ![r][s] = votes]
  /\ IF s \notin ordered[r] /\ ORDER_Commit_Certificate_Ready(pre_prepare[r][s], votes)
     THEN /\ ordered' = [ordered EXCEPT ![r] = @ \cup {s}]
          /\ ORDER_Execute_Commit(r, s,
               Populate(pre_prepare[r], made_eligible[r], {s}))
     ELSE UNCHANGED <<ordered, execVars, msgs>>
  /\ UNCHANGED <<viewVars, poVars, pre_prepare, prepare, prepare_certificate, seq>>

\* mutant of Hole_Filled
NeverFilled(r, c) == FALSE

(* What slot s still waits for when r holds the PO-Requests up to c, and   *)
(* whether that was the last that some slot waited for                     *)
Still_Missing(r, c, s) == {q \in missing[r][s] : q > c}
Hole_Filled(r, c) ==
  \E s \in Seqs : missing[r][s] # {} /\ Still_Missing(r, c, s) = {}

(* PRE_ORDER_Update_Cum_ARU: r holds the next PO-Requests, acknowledged by *)
(* a quorum.  If that was all that a slot waited for, an attempt to        *)
(* execute is queued.                                                      *)
PRE_ORDER_Update_Cum_ARU(r) ==
  \E c \in POSeqs :
    /\ c > cum_aru[r]
    /\ cum_aru' = [cum_aru EXCEPT ![r] = c]
    /\ missing' = [missing EXCEPT ![r] = [s \in Seqs |-> Still_Missing(r, c, s)]]
    /\ execute_queued' = [execute_queued EXCEPT ![r] = @ \/ Hole_Filled(r, c)]
    /\ UNCHANGED <<viewVars, slotVars, seq, ARU, ppARU, made_eligible,
                   Pending_Execution, msgs>>

(* ORDER_Attempt_To_Execute_Pending_Commits, from the event queue *)
ORDER_Attempt_To_Execute_Pending_Commits(r) ==
  /\ execute_queued[r]
  /\ execute_queued' = [execute_queued EXCEPT ![r] = FALSE]
  /\ IF ARU[r] + 1 \in Pending_Execution[r]
     THEN ORDER_Execute_Commit(r, ARU[r] + 1, made_eligible[r])
     ELSE UNCHANGED <<execVars, msgs>>
  /\ UNCHANGED <<viewVars, slotVars, cum_aru, seq>>

(* VIEW_Start_View_Change, once enough replicas ask for a later view: the  *)
(* report says how far r has executed, and the PC_Sets which Pre-Prepares  *)
(* beyond that it has certificates for.                                    *)
VIEW_Start_View_Change(r) ==
  \E v \in Views :
    /\ v > View[r]
    /\ View' = [View EXCEPT ![r] = v]
    /\ view_change_done' = [view_change_done EXCEPT ![r] = FALSE]
    /\ leader_suspected' = [leader_suspected EXCEPT ![r] = FALSE]
    /\ report' = [report EXCEPT ![r] = @ \cup
         {[view |-> v, execARU |-> ARU[r],
           pc_set |-> {prepare_certificate[r][s] : s \in ARU[r] + 1 .. MaxSeq} \ {NoPP}]}]
    /\ UNCHANGED <<slotVars, execVars, poVars, seq, msgs>>

(* A step of replica r *)
Step(r) ==
  \/ ORDER_Send_One_Pre_Prepare(r)
  \/ \E m \in Arriving("PRE_PREPARE", r) : ORDER_Process_Pre_Prepare(r, m)
  \/ \E m \in Arriving("PRE_PREPARE", r) : Inconsistent_Pre_Prepare(r, m)
  \/ \E m \in Arriving("PREPARE", r) : ORDER_Process_Prepare(r, m)
  \/ \E m \in Arriving("COMMIT", r) : ORDER_Process_Commit(r, m)
  \/ PRE_ORDER_Update_Cum_ARU(r)
  \/ ORDER_Attempt_To_Execute_Pending_Commits(r)
  \/ VIEW_Start_View_Change(r)

Next == \E r \in Correct : Step(r)

Spec == Init /\ [][Next]_vars

Sent(type) == {m \in msgs : m.type = type}

(* Replica r has something to do: a message that a correct replica sent,   *)
(* or a Pre-Prepare that it flooded, has not been handled, PO-Requests are *)
(* wanted, or an attempt to execute is queued.                             *)
Handle_Or_Execute(r) ==
  \/ \E m \in Sent("PRE_PREPARE") : ORDER_Process_Pre_Prepare(r, m)
  \/ \E m \in Sent("PRE_PREPARE") : Inconsistent_Pre_Prepare(r, m)
  \/ \E m \in Sent("PREPARE") : ORDER_Process_Prepare(r, m)
  \/ \E m \in Sent("COMMIT") : ORDER_Process_Commit(r, m)
  \/ PRE_ORDER_Update_Cum_ARU(r)
  \/ ORDER_Attempt_To_Execute_Pending_Commits(r)

(* ORDER_Periodic_Retrans repeats what a replica sent, the event loop      *)
(* serves every socket and every queued event, and PO-Requests in want are *)
(* reconciled.  As each is handled once, it is enough to ask that the      *)
(* replicas do not all stop while one of them has something to do.         *)
(* Nothing obliges a leader to propose, a replica to leave the view, or a  *)
(* Byzantine server to send.                                               *)
Fairness == WF_vars(\E r \in Correct : Handle_Or_Execute(r))

FairSpec == Spec /\ Fairness

-----------------------------------------------------------------------------
(* Two correct replicas that have executed a sequence number have executed *)
(* the same Pre-Prepare, whatever the leader proposed to whom and whoever  *)
(* left the view in between (ORDER_Execute_Commit).                        *)
OrderAgreement ==
  \A r, q \in Correct : \A s \in Seqs :
    s <= ARU[r] /\ s <= ARU[q] => pre_prepare[r][s] = pre_prepare[q][s]

(* Executed slots follow each other: each starts where the one before it   *)
(* stopped, so no PO-Request is executed twice and none is skipped.  Only  *)
(* replicas that send a Prepare compare the two; ORDER_Execute_Commit      *)
(* relies on a quorum having done so.                                      *)
NoRequestTwiceOrSkipped ==
  \A r \in Correct : \A s \in Seqs :
    s <= ARU[r] =>
      pre_prepare[r][s].last_executed =
        (IF s = 1 THEN 0 ELSE Made_Eligible(pre_prepare[r][s - 1]))

(* No wake-up is lost: when the next slot to execute is ordered, either an *)
(* attempt to execute it is queued, or it waits for PO-Requests that are   *)
(* still to come (PO.Pending_Execution), so that their arrival queues one. *)
NoLostWakeup ==
  \A r \in Correct : \A s \in ordered[r] :
    s = ARU[r] + 1 =>
      /\ s \in Pending_Execution[r]
      /\ \/ execute_queued[r]
         \/ missing[r][s] # {} /\ \A q \in missing[r][s] : q > cum_aru[r]

(* ppARU never falls behind ARU, and there is a Pre-Prepare in every slot  *)
(* up to it: ORDER_Send_Prepares and ORDER_Periodic_Retrans assert that    *)
(* the slots they take from there exist.                                   *)
AcceptedCoversExecuted ==
  \A r \in Correct :
    /\ ARU[r] <= ppARU[r]
    /\ \A s \in 1 .. ppARU[r] : pre_prepare[r][s] # NoPP

(* What is executed in a view, however late, survives the view change: any *)
(* quorum of replicas that report for a later view (VIEW_Start_View_Change)*)
(* holds one that reported having executed it or a certificate for it.     *)
CommittedIsReported ==
  \A r \in Correct : \A s \in Seqs : \A v \in Views :
    s <= ARU[r] /\ v > pre_prepare[r][s].view =>
      \A Q \in SUBSET {q \in Servers : q \in Correct =>
                        \E rep \in report[q] : rep.view = v} :
        Cardinality(Q) >= Quorum =>
          \E q \in Q \cap Correct : \E rep \in report[q] :
            /\ rep.view = v
            /\ rep.execARU >= s \/ pre_prepare[r][s] \in rep.pc_set

(* No slot just hangs: once a correct replica has accepted a Pre-Prepare,  *)
(* from a correct leader or not and in whatever order messages and         *)
(* PO-Requests arrive, every correct replica executes the slot, finds out  *)
(* the leader that has sent another Pre-Prepare to somebody else, which it *)
(* sees because replicas flood what they accept, or leaves the view.       *)
NoSlotHangs ==
  \A s \in Seqs, v \in Views :
    (\E r \in Correct : pre_prepare[r][s] # NoPP /\ pre_prepare[r][s].view = v)
      ~> \A r \in Correct : ARU[r] >= s \/ leader_suspected[r] \/ View[r] > v

(* The log that Ordering implements: at each sequence number that some     *)
(* correct replica has executed, the Pre-Prepare it has executed there.    *)
(* A slot that a Replay fills without a certificate has view 0.            *)
LogEntry == [seq : Seqs, view : 0 .. MaxView,
             last_executed : POSeqs, proof_aru : POSeqs]
Executed_At(s) == {pre_prepare[r][s] : r \in {q \in Correct : s <= ARU[q]}}
Executed_Log ==
  [s \in Seqs |-> IF Executed_At(s) = {} THEN NoPP
                  ELSE CHOOSE pp \in Executed_At(s) : TRUE]

Log == INSTANCE AgreedLog WITH
  Replicas <- Correct, Entries <- LogEntry, NoEntry <- NoPP, Length <- MaxSeq,
  log <- Executed_Log, executed <- ARU

(* Ordering implements one agreed log: beyond OrderAgreement, a slot that  *)
(* was executed is never given another Pre-Prepare, execution is never     *)
(* taken back and leaves no number out, whatever is ordered, received late *)
(* or replayed afterwards.                                                 *)
ImplementsLog == Log!LogSpec
=============================================================================
