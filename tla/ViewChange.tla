------------------------------ MODULE ViewChange ------------------------------
(***************************************************************************)
(* The view change of prime/src/view_change.c, composed with Ordering.     *)
(* Replicas that enter a view report how far they have executed and which  *)
(* prepare certificates they hold (VIEW_Start_View_Change, in Ordering).   *)
(* They agree on a list of 2f+k+1 servers whose reports count, the leader  *)
(* proposes it in a Replay, and after a round of Replay_Prepares and one   *)
(* of Replay_Commits each replica rebuilds its slots from those reports    *)
(* and executes them; only then does it take part in ordering again.       *)
(*                                                                         *)
(* Reports travel by ReliableBroadcast, so all replicas see the same ones. *)
(* The handlers here test what has been sent: a message of the view change *)
(* may reach a replica as soon as it is sent, or later, or never.          *)
(*                                                                         *)
(* Byzantine servers lie in Ordering, but take no part in the view change. *)
(***************************************************************************)
EXTENDS Ordering

CONSTANTS
  Server_ID,            \* VAR.My_Server_ID of every server
  VC_Lists,             \* bound: the lists that may be agreed on, by view
  NoReplay              \* a NULL DATA.VIEW.replay

Replay == [list : SUBSET Servers, startSeq : 1 .. MaxSeq + 1]

ASSUME ViewChangeBounds ==
  /\ Server_ID \in [Servers -> Nat]
  /\ \A p, q \in Servers : Server_ID[p] = Server_ID[q] => p = q
  /\ VC_Lists \in [Views -> SUBSET SUBSET Servers]
  /\ NoReplay \notin Replay
  /\ NoPP \notin LogEntry

VARIABLES
  vc_partial_sig,       \* by view, the VC_Partial_Sigs sent: who signed what
  replay,               \* by view, the leader's Replay
  replay_prepare,       \* by view, who sent a Replay_Prepare
  replay_commit,        \* by view, who sent a Replay_Commit
  aborted               \* the replicas that failed an assertion

vcVars == <<vc_partial_sig, replay, replay_prepare, replay_commit, aborted>>
allVars == <<vars, vcVars>>

VCTypeOK ==
  /\ vc_partial_sig \in [Views -> SUBSET (Replay \X Correct)]
  /\ replay \in [Views -> Replay \cup {NoReplay}]
  /\ replay_prepare \in [Views -> SUBSET Correct]
  /\ replay_commit \in [Views -> SUBSET Correct]
  /\ aborted \subseteq Correct
  /\ ARU \in [Correct -> 0 .. MaxSeq]
  /\ made_eligible \in [Correct -> [0 .. MaxSeq -> POSeqs \cup {Unpopulated}]]
  /\ \A r \in Correct : \A s \in Seqs :
       pre_prepare[r][s] # NoPP => pre_prepare[r][s].seq = s

(* VIEW_Initialize_Data_Structure *)
VCInit ==
  /\ Init
  /\ vc_partial_sig = [v \in Views |-> {}]
  /\ replay = [v \in Views |-> NoReplay]
  /\ replay_prepare = [v \in Views |-> {}]
  /\ replay_commit = [v \in Views |-> {}]
  /\ aborted = {}

-----------------------------------------------------------------------------
Report_For(q, v) == {rep \in report[q] : rep.view = v}

(* VIEW_Check_Complete_State: r has the Report and the PC_Sets of every    *)
(* server in list, and has executed as far as they have.                   *)
Complete_State(r, list) ==
  \A q \in list :
    \E rep \in Report_For(q, View[r]) : ARU[r] >= rep.execARU

\* mutant of Start_Seq: certificates are not looked at
StartAfterExecuted(list, v) ==
  LET seqs == {0} \cup UNION {{rep.execARU : rep \in Report_For(q, v)} : q \in list}
  IN 1 + CHOOSE n \in seqs : \A m \in seqs : n >= m

(* VIEW_Construct_VC_Partial_Sig: the first sequence number after all that *)
(* was executed (execARU) or certified (max_pc_seq) by a server in list    *)
Start_Seq(list, v) ==
  LET seqs == {0} \cup UNION {
        UNION {{rep.execARU} \cup {pp.seq : pp \in rep.pc_set} : rep \in Report_For(q, v)} :
          q \in list}
  IN 1 + CHOOSE n \in seqs : \A m \in seqs : n >= m

(* VIEW_Process_VC_List, and the pending lists of                          *)
(* VIEW_Check_Complete_State: r signs a list of 2f+k+1 servers once it has *)
(* complete state from them.                                               *)
VIEW_Process_VC_List(r) ==
  \E list \in VC_Lists[View[r]] :
    LET signed == <<[list |-> list, startSeq |-> Start_Seq(list, View[r])], r>> IN
    /\ ~view_change_done[r]
    /\ list \subseteq Correct
    /\ Cardinality(list) = Quorum
    /\ Complete_State(r, list)
    /\ signed \notin vc_partial_sig[View[r]]
    /\ vc_partial_sig' = [vc_partial_sig EXCEPT ![View[r]] = @ \cup {signed}]
    /\ UNCHANGED <<vars, replay, replay_prepare, replay_commit, aborted>>

(* VIEW_Process_VC_Partial_Sig and VIEW_Process_VC_Proof: the leader turns *)
(* a list that 2f+k+1 replicas signed into its one Replay.                 *)
VIEW_Process_VC_Proof(r) ==
  \E rep \in {signed[1] : signed \in vc_partial_sig[View[r]]} :
    /\ I_Am_Leader(r)
    /\ ~view_change_done[r]
    /\ replay[View[r]] = NoReplay
    /\ Cardinality({q \in Correct : <<rep, q>> \in vc_partial_sig[View[r]]}) >= Quorum
    /\ replay' = [replay EXCEPT ![View[r]] = rep]
    /\ UNCHANGED <<vars, vc_partial_sig, replay_prepare, replay_commit, aborted>>

(* VIEW_Process_Replay, with VIEW_Try_Send_Replay_Prepare: r has complete  *)
(* state from the list of the Replay.  Prepares of the leader do not count.*)
VIEW_Process_Replay(r) ==
  /\ ~view_change_done[r]
  /\ ~I_Am_Leader(r)
  /\ replay[View[r]] # NoReplay
  /\ Complete_State(r, replay[View[r]].list)
  /\ r \notin replay_prepare[View[r]]
  /\ replay_prepare' = [replay_prepare EXCEPT ![View[r]] = @ \cup {r}]
  /\ UNCHANGED <<vars, vc_partial_sig, replay, replay_commit, aborted>>

(* VIEW_Process_Replay_Prepare, with VIEW_Try_Send_Replay_Commit: 2f+k     *)
(* Replay_Prepares make a Replay_Commit.  Complete state is not asked for. *)
VIEW_Process_Replay_Prepare(r) ==
  /\ ~view_change_done[r]
  /\ replay[View[r]] # NoReplay
  /\ Cardinality(replay_prepare[View[r]]) >= Quorum - 1
  /\ r \notin replay_commit[View[r]]
  /\ replay_commit' = [replay_commit EXCEPT ![View[r]] = @ \cup {r}]
  /\ UNCHANGED <<vars, vc_partial_sig, replay, replay_prepare, aborted>>

-----------------------------------------------------------------------------
(* What the servers in list certified for sequence number s *)
Certified(list, v, s) ==
  {q \in list : \E rep \in Report_For(q, v) : \E pp \in rep.pc_set : pp.seq = s}

\* mutant of Full_PC_Set
NothingCertified(list, v) == [s \in Seqs |-> NoPP]

(* VIEW_Execute_Replay merges the PC_Sets, server by server; the first one *)
(* found for a sequence number stays.                                      *)
Full_PC_Set(list, v) ==
  [s \in Seqs |->
     LET holders == Certified(list, v, s)
         first == CHOOSE q \in holders : \A p \in holders : Server_ID[q] <= Server_ID[p]
     IN IF holders = {} THEN NoPP
        ELSE CHOOSE pp \in UNION {rep.pc_set : rep \in Report_For(first, v)} : pp.seq = s]

\* mutant of No_Op: the number of the copied slot is not adjusted
NoOpUnadjusted(s, prev) ==
  [seq |-> prev.pp.seq, view |-> 0,
   last_executed |-> prev.made_eligible, proof_aru |-> prev.pp.proof_aru]

(* What a slot without a certificate is filled with: it starts where the   *)
(* slot before it stopped.  Its slot->view stays 0.                        *)
No_Op(s, prev) ==
  [seq |-> s, view |-> 0,
   last_executed |-> prev.made_eligible, proof_aru |-> prev.pp.proof_aru]

\* mutant of No_Op_Eligible: a no-op never makes anything eligible
NoPeek(no_op, full, s, start) == Made_Eligible(no_op)

(* A no-op before a certified slot (SLOT_NO_OP_PLUS) makes eligible what   *)
(* that slot takes for executed.                                           *)
No_Op_Eligible(no_op, full, s, start) ==
  IF s + 1 < start /\ full[s + 1] # NoPP
  THEN full[s + 1].last_executed
  ELSE Made_Eligible(no_op)

(* The slots that VIEW_Execute_Replay leaves r with before it executes     *)
(* them, each with its made_eligible.  Slots that were executed stay, and  *)
(* slots after the Replay that already hold a Pre-Prepare of the new view. *)
Replayed_Slots(r, rep) ==
  LET full == Full_PC_Set(rep.list, View[r])
      fill[s \in 0 .. MaxSeq] ==
        IF s = 0
        THEN [pp |-> [seq |-> 0, view |-> 0, last_executed |-> 0, proof_aru |-> 0],
              made_eligible |-> 0]
        ELSE IF s <= ARU[r]
        THEN [pp |-> pre_prepare[r][s], made_eligible |-> made_eligible[r][s]]
        ELSE IF s >= rep.startSeq
        THEN [pp |-> NoPP, made_eligible |-> Unpopulated]
        ELSE IF full[s] # NoPP
        THEN [pp |-> full[s], made_eligible |-> Made_Eligible(full[s])]
        ELSE LET no_op == No_Op(s, fill[s - 1]) IN
             [pp |-> no_op,
              made_eligible |-> No_Op_Eligible(no_op, full, s, rep.startSeq)]
  IN fill

Of_New_View(r, rep) ==
  {s \in Seqs : /\ s > ARU[r] /\ s >= rep.startSeq
                /\ pre_prepare[r][s] # NoPP
                /\ pre_prepare[r][s].view >= View[r]}

(* VIEW_Try_Execute_Replay: 2f+k+1 Replay_Commits and complete state.  The *)
(* slots up to startSeq are rebuilt and executed one by one, and with them *)
(* slots of the new view that wait for them; then the code asserts that    *)
(* everything before startSeq is executed, and nothing after it.           *)
VIEW_Try_Execute_Replay(r) ==
  LET v == View[r]
      rep == replay[v]
      fill == Replayed_Slots(r, rep)
      replayed == ARU[r] + 1 .. rep.startSeq - 1
      kept == 1 .. ARU[r] \cup Of_New_View(r, rep)
      pps == [s \in Seqs |-> IF s \in kept THEN pre_prepare[r][s] ELSE fill[s].pp]
      me == [s \in 0 .. MaxSeq |->
               IF s \in kept THEN made_eligible[r][s] ELSE fill[s].made_eligible]
      waiting == replayed \cup (Pending_Execution[r] \cap kept)
      Needs(s) == {q \in pps[s].last_executed + 1 .. me[s] : q > cum_aru[r]}
      Runs(s) == replayed # {} /\ s \in waiting /\ Needs(s) = {}
  IN
  /\ ~view_change_done[r]
  /\ rep # NoReplay
  /\ Cardinality(replay_commit[v]) >= Quorum
  /\ Complete_State(r, rep.list)
  /\ \E n \in ARU[r] .. MaxSeq :
       /\ \A s \in ARU[r] + 1 .. n : Runs(s)
       /\ n < MaxSeq => ~Runs(n + 1)
       /\ ARU' = [ARU EXCEPT ![r] = n]
       /\ ppARU' = [ppARU EXCEPT ![r] = n]
       /\ Pending_Execution' = [Pending_Execution EXCEPT ![r] = waiting \ (1 .. n)]
       /\ missing' = [missing EXCEPT ![r] = [s \in Seqs |->
            IF s \in kept THEN missing[r][s] ELSE
            IF s = n + 1 /\ s \in waiting THEN Needs(s) ELSE {}]]
       /\ IF n = rep.startSeq - 1
          THEN /\ view_change_done' = [view_change_done EXCEPT ![r] = TRUE]
               /\ seq' = [seq EXCEPT ![r] = IF I_Am_Leader(r) THEN rep.startSeq ELSE @]
               /\ UNCHANGED aborted
          ELSE /\ aborted' = aborted \cup {r}
               /\ UNCHANGED <<view_change_done, seq>>
  /\ pre_prepare' = [pre_prepare EXCEPT ![r] = pps]
  /\ made_eligible' = [made_eligible EXCEPT ![r] = me]
  /\ prepare' = [prepare EXCEPT ![r] = [s \in Seqs |->
       IF s \in kept THEN prepare[r][s] ELSE [q \in Servers |-> NoPP]]]
  /\ commit' = [commit EXCEPT ![r] = [s \in Seqs |->
       IF s \in kept THEN commit[r][s] ELSE [q \in Servers |-> NoPP]]]
  /\ prepare_certificate' = [prepare_certificate EXCEPT ![r] = [s \in Seqs |->
       IF s \in kept THEN prepare_certificate[r][s] ELSE NoPP]]
  /\ ordered' = [ordered EXCEPT ![r] = @ \cap kept]
  /\ UNCHANGED <<View, leader_suspected, report, poVars, msgs,
                 vc_partial_sig, replay, replay_prepare, replay_commit>>

(* A replica that has failed an assertion takes no more steps. *)
VCNext ==
  \E r \in Correct \ aborted :
    \/ Step(r) /\ UNCHANGED vcVars
    \/ VIEW_Process_VC_List(r)
    \/ VIEW_Process_VC_Proof(r)
    \/ VIEW_Process_Replay(r)
    \/ VIEW_Process_Replay_Prepare(r)
    \/ VIEW_Try_Execute_Replay(r)

VCSpec == VCInit /\ [][VCNext]_allVars

(* SUSPECT_Process_New_Leader_Proof: whoever enters a view repeats why, so *)
(* that the others follow.                                                 *)
Join_View_Change(r) ==
  /\ \E q \in Correct : View[q] > View[r]
  /\ VIEW_Start_View_Change(r)

(* Ordering's fairness, and the same for the view change: its messages are *)
(* repeated by VIEW_Periodic_Retrans and RB_Periodic_Retrans.              *)
VCFairness ==
  \A r \in Correct :
    LET Up(A) == r \notin aborted /\ A /\ UNCHANGED vcVars IN
    /\ WF_allVars(Up(\E m \in Sent("PRE_PREPARE") : ORDER_Process_Pre_Prepare(r, m)))
    /\ WF_allVars(Up(\E m \in Sent("PREPARE") : ORDER_Process_Prepare(r, m)))
    /\ WF_allVars(Up(\E m \in Sent("COMMIT") : ORDER_Process_Commit(r, m)))
    /\ WF_allVars(Up(PRE_ORDER_Update_Cum_ARU(r)))
    /\ WF_allVars(Up(ORDER_Attempt_To_Execute_Pending_Commits(r)))
    /\ WF_allVars(Up(Join_View_Change(r)))
    /\ WF_allVars(r \notin aborted /\ VIEW_Process_VC_List(r))
    /\ WF_allVars(r \notin aborted /\ VIEW_Process_VC_Proof(r))
    /\ WF_allVars(r \notin aborted /\ VIEW_Process_Replay(r))
    /\ WF_allVars(r \notin aborted /\ VIEW_Process_Replay_Prepare(r))
    /\ WF_allVars(r \notin aborted /\ VIEW_Try_Execute_Replay(r))

VCFairSpec == VCSpec /\ VCFairness

-----------------------------------------------------------------------------
(* Whatever a replica has executed of earlier views lies before the        *)
(* startSeq of every Replay: VIEW_Execute_Replay clears the slots after    *)
(* what r has executed because "anything after that is covered by the PC   *)
(* set messages (or No-Ops) from the Replay set".                          *)
ReplayCoversExecuted ==
  \A r \in Correct : \A s \in Seqs : \A v \in Views :
    /\ s <= ARU[r] /\ pre_prepare[r][s].view < v
    /\ replay[v] # NoReplay
    => s < replay[v].startSeq

(* Where the PO-Requests that slot s of r executes stop: where its         *)
(* Pre-Prepare says, or, for a no-op, where VIEW_Execute_Replay made it    *)
(* stop, which is known at the slot alone.                                 *)
Stops_At(r, s) ==
  IF s = 0 THEN 0
  ELSE IF pre_prepare[r][s].view = 0 THEN made_eligible[r][s]
  ELSE Made_Eligible(pre_prepare[r][s])

(* Executed slots follow each other across a view change: each starts      *)
(* where the one before it stops, so no PO-Request is skipped or ordered   *)
(* twice between a slot of the old view, the certified slots and no-ops    *)
(* that VIEW_Execute_Replay puts after it, and the first Pre-Prepare of    *)
(* the new leader.                                                         *)
ReplayedSlotsFollow ==
  \A r \in Correct : \A s \in Seqs :
    s <= ARU[r] => pre_prepare[r][s].last_executed = Stops_At(r, s - 1)

(* Two replicas that have executed a slot have executed the same           *)
(* PO-Requests in it: ORDER_Execute_Commit runs up to the made_eligible of *)
(* the slot, which everyone is to compute from the Pre-Prepare with 2f+k+1 *)
(* Commits.  A leader fills it in when it proposes, and the slot may come  *)
(* to hold the Pre-Prepare of the next leader.                             *)
ExecutedAlike ==
  \A r, q \in Correct : \A s \in Seqs :
    s <= ARU[r] /\ s <= ARU[q] => made_eligible[r][s] = made_eligible[q][s]

(* After a view change too, what a correct leader proposes is executed by  *)
(* every replica that is up, if nobody leaves the view and no assertion    *)
(* fails: not even a leader that goes on proposing is waited for.          *)
ProposedAfterViewChangeIsExecuted ==
  \A v \in Views \ {1} :
    (\A s \in Seqs : \E m \in Sent("PRE_PREPARE") : m.pp.seq = s /\ m.pp.view = v)
      ~> \/ \A r \in Correct : ARU[r] = MaxSeq
         \/ \E r \in Correct : View[r] > v
         \/ aborted # {}
=============================================================================
