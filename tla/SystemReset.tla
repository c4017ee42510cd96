----------------------------- MODULE SystemReset ------------------------------
(***************************************************************************)
(* The fresh start of the whole system in prime/src/proactive_recovery.c:  *)
(* replicas that come up without a running system collect each other's     *)
(* reset shares, and agree on one proposal of the leader, a set of shares, *)
(* as the membership to start with.  A round is a round of Prepares and    *)
(* one of Commits; a round that takes too long is followed by a view       *)
(* change, in which the new leader carries over what may have been         *)
(* executed.                                                               *)
(*                                                                         *)
(* A share is named by its server: each server has one incarnation.  All   *)
(* have the 2f+k reset votes that make them send their share.              *)
(*                                                                         *)
(* The handlers test what has been sent: a step that needs a number of     *)
(* messages is the arrival of the last of them, and all may be late or     *)
(* lost.  RESET_VIEWCHANGE and RESET_NEWVIEW travel by ReliableBroadcast.  *)
(*                                                                         *)
(* A proof, a certificate or a report is made of signed messages, and the  *)
(* validators count them without asking that their senders differ: what a  *)
(* Byzantine server makes of copies of its own is accepted like a real one.*)
(***************************************************************************)
EXTENDS PrimeConfig

CONSTANTS
  UTIL_Leader_Of_View,  \* the leader of every view
  MaxView,              \* bound: views are 1 .. MaxView
  Prompt,               \* bound: shares every replica has from the start
  Late,                 \* bound: shares that may come later
  Lies,                 \* bound: what Byzantine servers send to whom
  Copies,               \* bound: the proofs and certificates that they make of
                        \* copies, and to whom
  Made_Up,              \* bound: the proposals that they sign themselves to
                        \* report them
  NoProposal            \* a NULL proposal

Views == 1 .. MaxView

(* A proposal has shares of these servers.  num_shares counts them, also   *)
(* the shares of a server that are there more than once.                   *)
Proposal ==
  {p \in [view : Views, shares : SUBSET Servers, num_shares : 0 .. Cardinality(Servers)] :
     Cardinality(p.shares) <= p.num_shares}

NewLeaderProof == [type : {"RESET_NEWLEADERPROOF"}, view : Views]

(* A certificate has the Commits of a quorum or, if it is made up, copies  *)
(* of one Commit; only the model can tell.                                 *)
Certificate == [type : {"RESET_CERT"}, view : Views, proposal : Proposal,
                made_up : BOOLEAN]

ASSUME ResetBounds ==
  /\ MaxView \in Nat \ {0}
  /\ UTIL_Leader_Of_View \in [Views -> Servers]
  /\ Prompt \subseteq Servers /\ Cardinality(Prompt) < Quorum
  /\ Late \subseteq Servers
  /\ Lies \subseteq [type : {"RESET_PROPOSAL", "RESET_PREPARE", "RESET_COMMIT"},
                     proposal : Proposal, to : Servers]
  /\ Copies \subseteq [to : Servers,
                       mess : NewLeaderProof \cup {c \in Certificate : c.made_up}]
  /\ Made_Up \subseteq Proposal
  /\ Byzantine = {} => Copies = {}
  /\ NoProposal \notin Proposal

Message ==
  [type : {"RESET_PROPOSAL", "RESET_PREPARE", "RESET_COMMIT"},
   sender : Servers, proposal : Proposal]
  \cup [type : {"RESET_NEWLEADER"}, sender : Servers, view : Views]
  \cup [type : {"RESET_VIEWCHANGE"}, sender : Servers, view : Views,
        proposal : Proposal \cup {NoProposal}]
  \cup [type : {"RESET_NEWVIEW"}, view : Views, list : SUBSET Servers]
  \cup NewLeaderProof \cup Certificate

VARIABLES
  View,                      \* DATA.View
  recovery_status,           \* PR.recovery_status of the replica itself
  reset_share,               \* PR.reset_share: whose share is there
  delay_queued,              \* PR_Post_Shares_Delay is queued
  rotate_queued,             \* PR_Rotate_Reset_Leader is queued
  reset_proposal,            \* PR.reset_proposal
  reset_viewchange,          \* PR.reset_viewchange_bitmap, once all of the
                             \* list has come (reset_collected_vc_state)
  reset_carry_over_proposal, \* PR.reset_carry_over_proposal
  executed,                  \* the proposal executed (PR.proposal_digest)
  aborted,                   \* the replicas that failed an assertion
  msgs                       \* every message that was sent

timerVars == <<delay_queued, rotate_queued>>
roundVars == <<reset_proposal, reset_viewchange, reset_carry_over_proposal>>
vars == <<View, recovery_status, reset_share, timerVars, roundVars,
          executed, aborted, msgs>>

TypeOK ==
  /\ View \in [Correct -> Views]
  /\ recovery_status \in [Correct -> {"STARTUP", "RESET", "NORMAL"}]
  /\ reset_share \in [Correct -> SUBSET Servers]
  /\ delay_queued \in [Correct -> BOOLEAN]
  /\ rotate_queued \in [Correct -> BOOLEAN]
  /\ reset_proposal \in [Correct -> Proposal \cup {NoProposal}]
  /\ reset_viewchange \in [Correct -> SUBSET Servers]
  /\ reset_carry_over_proposal \in [Correct -> Proposal \cup {NoProposal}]
  /\ executed \in [Correct -> Proposal \cup {NoProposal}]
  /\ aborted \subseteq Correct
  /\ msgs \subseteq Message

-----------------------------------------------------------------------------
(* PR_Initialize_Data_Structure, and the first shares *)
Init ==
  /\ View = [r \in Correct |-> 1]
  /\ recovery_status = [r \in Correct |-> "STARTUP"]
  /\ reset_share = [r \in Correct |-> Prompt]
  /\ delay_queued = [r \in Correct |-> FALSE]
  /\ rotate_queued = [r \in Correct |-> FALSE]
  /\ reset_proposal = [r \in Correct |-> NoProposal]
  /\ reset_viewchange = [r \in Correct |-> {}]
  /\ reset_carry_over_proposal = [r \in Correct |-> NoProposal]
  /\ executed = [r \in Correct |-> NoProposal]
  /\ aborted = {}
  /\ msgs = {}

I_Am_Leader(r) == UTIL_Leader_Of_View[View[r]] = r

Vote(type, r, p) == [type |-> type, sender |-> r, proposal |-> p]

\* mutant of Voters: votes are counted, whatever their view and digest
VotersForAny(type, r, p) ==
  {q \in Servers : \E m \in msgs : m.type = type /\ m.sender = q} \cup
  (IF \E lie \in Lies : lie.type = type /\ lie.to = r THEN Byzantine ELSE {})

(* Whose vote for p may have reached r *)
Voters(type, r, p) ==
  {q \in Servers : Vote(type, q, p) \in msgs} \cup
  (IF [type |-> type, proposal |-> p, to |-> r] \in Lies THEN Byzantine ELSE {})

(* VAL_State_Permits_Message: before its own delay is over, a replica      *)
(* takes only shares, proposals and certificates; afterwards, all of the   *)
(* reset's messages; once it has executed, none.                           *)
Starting(r) == recovery_status[r] \in {"STARTUP", "RESET"}
Resetting(r) == recovery_status[r] = "RESET"

(* The validator counts shares, and repeated ones as well.                 *)
VAL_Validate_Reset_Proposal(p) == p.num_shares \in Quorum .. Cardinality(Servers)

(* What makes the contents of a proposal, which the new leader copies      *)
Same_Content(p, q) == p.shares = q.shares /\ p.num_shares = q.num_shares

(* A proposal covers what r knows, or, if one is carried over, equals it.  *)
Acceptable(r, p, share, carry) ==
  IF carry = NoProposal THEN share \subseteq p.shares ELSE Same_Content(p, carry)

(* PR_Process_Reset_Proposal, from where a proposal p is stored: if r need *)
(* not wait and p is acceptable, r adopts its shares and sends a Prepare.  *)
(* Otherwise status is what the caller makes of recovery_status.           *)
Consider_Proposal(r, p, ready, carry, status) ==
  LET prepares == ready /\ p # NoProposal /\ Acceptable(r, p, reset_share[r], carry) IN
  /\ recovery_status' = [recovery_status EXCEPT ![r] =
                           IF prepares THEN "RESET" ELSE status]
  /\ reset_share' = [reset_share EXCEPT ![r] = IF prepares THEN @ \cup p.shares ELSE @]
  /\ msgs' = msgs \cup (IF prepares THEN {Vote("RESET_PREPARE", r, p)} ELSE {})

-----------------------------------------------------------------------------
(* PR_Process_Reset_Share: the share that makes 2f+k+1 starts the timers.  *)
PR_Process_Reset_Share(r, q) ==
  LET enough == Cardinality(reset_share'[r]) = Quorum /\ ~delay_queued[r] IN
  /\ Starting(r)
  /\ View[r] > 1 => I_Am_Leader(r)
  /\ q \notin reset_share[r]
  /\ reset_share' = [reset_share EXCEPT ![r] = @ \cup {q}]
  /\ delay_queued' = [delay_queued EXCEPT ![r] = @ \/ enough]
  /\ rotate_queued' = [rotate_queued EXCEPT ![r] = @ \/ enough]
  /\ UNCHANGED <<View, recovery_status, roundVars, executed, aborted, msgs>>

\* mutant of Own_Proposal: one share too many is counted
OneTooMany(r) == [view |-> View[r], shares |-> reset_share[r],
                  num_shares |-> Cardinality(reset_share[r]) + 1]

(* PR_Construct_Reset_Proposal *)
Own_Proposal(r) == [view |-> View[r], shares |-> reset_share[r],
                    num_shares |-> Cardinality(reset_share[r])]

(* PR_Post_Shares_Delay: the leader proposes the shares it has, whatever   *)
(* it has proposed before; the others turn to the proposal they have.      *)
PR_Post_Shares_Delay(r) ==
  LET status == IF View[r] = 1 /\ r \in reset_share[r] THEN "RESET" ELSE recovery_status[r]
      p == Own_Proposal(r)
  IN
  /\ delay_queued[r]
  /\ delay_queued' = [delay_queued EXCEPT ![r] = FALSE]
  /\ IF I_Am_Leader(r)
     THEN /\ reset_proposal' = [reset_proposal EXCEPT ![r] = p]
          /\ msgs' = msgs \cup {Vote("RESET_PROPOSAL", r, p)}
          /\ recovery_status' = [recovery_status EXCEPT ![r] = status]
          /\ UNCHANGED reset_share
     ELSE /\ Consider_Proposal(r, reset_proposal[r],
               View[r] = 1 \/ reset_viewchange[r] # {},
               reset_carry_over_proposal[r], status)
          /\ UNCHANGED reset_proposal
  /\ UNCHANGED <<View, rotate_queued, reset_viewchange,
                 reset_carry_over_proposal, executed, aborted>>

\* mutant of Valid_For_Me: one of the two shares is enough
ValidForOther(r, p) == r \in reset_share[r] \/ r \in p.shares

(* A proposal, or a certificate's, has the share that r has for itself.    *)
Valid_For_Me(r, p) == r \in reset_share[r] /\ r \in p.shares

(* PR_Process_Reset_Proposal: the first valid proposal of the view's leader*)
(* that has r's own share is stored.                                       *)
PR_Process_Reset_Proposal(r, p) ==
  /\ Starting(r)
  /\ ~I_Am_Leader(r)
  /\ reset_proposal[r] = NoProposal
  /\ VAL_Validate_Reset_Proposal(p)
  /\ UTIL_Leader_Of_View[p.view] \in Voters("RESET_PROPOSAL", r, p)
  /\ p.view = View[r]
  /\ Valid_For_Me(r, p)
  /\ reset_proposal' = [reset_proposal EXCEPT ![r] = p]
  /\ Consider_Proposal(r, p,
       ~delay_queued[r] /\ (View[r] = 1 \/ reset_viewchange[r] # {}),
       reset_carry_over_proposal[r], recovery_status[r])
  /\ UNCHANGED <<View, timerVars, reset_viewchange, reset_carry_over_proposal,
                 executed, aborted>>

(* reset_sent_commit, which is cleared with every view *)
Sent_Commit(r) ==
  \E m \in msgs : m.type = "RESET_COMMIT" /\ m.sender = r /\ m.proposal.view = View[r]

(* Everyone's Prepares count, the leader's too. *)
Prepare_Certificate(r, p) == Cardinality(Voters("RESET_PREPARE", r, p)) >= Quorum - 1

(* PR_Process_Reset_Prepare: the last of 2f+k Prepares for r's proposal    *)
PR_Process_Reset_Prepare(r) ==
  LET p == reset_proposal[r] IN
  /\ Resetting(r)
  /\ p # NoProposal
  /\ ~Sent_Commit(r)
  /\ Prepare_Certificate(r, p)
  /\ msgs' = msgs \cup {Vote("RESET_COMMIT", r, p)}
  /\ UNCHANGED <<View, recovery_status, reset_share, timerVars, roundVars,
                 executed, aborted>>

(* PR_Execute_Reset_Proposal, and its callers send the certificate: r runs *)
(* with the shares of p as the membership, and both timers go.             *)
PR_Execute_Reset_Proposal(r, p, certificate) ==
  /\ executed' = [executed EXCEPT ![r] = p]
  /\ recovery_status' = [recovery_status EXCEPT ![r] =
                           IF r \in p.shares THEN "NORMAL" ELSE @]
  /\ delay_queued' = [delay_queued EXCEPT ![r] = FALSE]
  /\ rotate_queued' = [rotate_queued EXCEPT ![r] = FALSE]
  /\ msgs' = msgs \cup {certificate}

\* mutant of Commit_Certificate: as many as for a Prepare certificate
TooFewCommits(r, p) == Cardinality(Voters("RESET_COMMIT", r, p)) >= Quorum - 1

Commit_Certificate(r, p) == Cardinality(Voters("RESET_COMMIT", r, p)) >= Quorum

(* PR_Construct_Reset_Certificate *)
Own_Certificate(r) == [type |-> "RESET_CERT", view |-> View[r],
                       proposal |-> reset_proposal[r], made_up |-> FALSE]

(* PR_Process_Reset_Commit: the last of 2f+k+1 Commits for r's proposal    *)
PR_Process_Reset_Commit(r) ==
  LET p == reset_proposal[r] IN
  /\ Resetting(r)
  /\ p # NoProposal
  /\ executed[r] = NoProposal
  /\ Commit_Certificate(r, p)
  /\ PR_Execute_Reset_Proposal(r, p, Own_Certificate(r))
  /\ UNCHANGED <<View, reset_share, roundVars, aborted>>

(* The certificates that r may get: those of others, and those made up.    *)
(* VAL_Validate_Reset_Certificate asks neither that the Commits be of      *)
(* different servers nor that the leader of its view signed the proposal,  *)
(* and does not compare the certificate's view.                            *)
Certificates(r) ==
  {m \in msgs \cup {c.mess : c \in {d \in Copies : d.to = r}} : m.type = "RESET_CERT"}

Max_View(v, w) == IF v < w THEN w ELSE v

(* PR_Process_Reset_Certificate: r adopts a proposal that others have      *)
(* executed, and the view, even if that is an earlier one, and sends the   *)
(* certificate on.  A leader that has executed a proposal without itself   *)
(* has a certificate, and asserts that it has none.                        *)
PR_Process_Reset_Certificate(r) ==
  \E m \in Certificates(r) :
    /\ Starting(r)
    /\ VAL_Validate_Reset_Proposal(m.proposal)
    /\ Valid_For_Me(r, m.proposal)
    /\ \/ /\ executed[r] = NoProposal
          /\ View' = [View EXCEPT ![r] = Max_View(m.view, m.proposal.view)]
          /\ reset_proposal' = [reset_proposal EXCEPT ![r] = m.proposal]
          /\ PR_Execute_Reset_Proposal(r, m.proposal, m)
          /\ UNCHANGED <<reset_share, reset_viewchange, reset_carry_over_proposal,
                         aborted>>
       \/ /\ executed[r] # NoProposal
          /\ aborted' = aborted \cup {r}
          /\ UNCHANGED <<View, recovery_status, reset_share, timerVars, roundVars,
                         executed, msgs>>

-----------------------------------------------------------------------------
(* PR_Rotate_Reset_Leader: the leader has taken too long.  The timer is    *)
(* longer than the delay, with which it is queued in the first view.       *)
PR_Rotate_Reset_Leader(r) ==
  /\ rotate_queued[r]
  /\ View[r] = 1 => ~delay_queued[r]
  /\ View[r] < MaxView
  /\ rotate_queued' = [rotate_queued EXCEPT ![r] = FALSE]
  /\ msgs' = msgs \cup {[type |-> "RESET_NEWLEADER", sender |-> r, view |-> View[r] + 1]}
  /\ UNCHANGED <<View, recovery_status, reset_share, delay_queued, roundVars,
                 executed, aborted>>

\* mutant of Certified_Proposal
ReportNothing(r) == NoProposal

(* PR_Construct_Reset_ViewChange: the proposal r has a certificate for, if *)
(* it got that in the view it leaves                                       *)
Certified_Proposal(r) == IF Sent_Commit(r) THEN reset_proposal[r] ELSE NoProposal

New_Leader_Proof(v) == [type |-> "RESET_NEWLEADERPROOF", view |-> v]

(* PR_Start_View_Change: r reports, and forgets the round that it leaves   *)
(* (PR_Clear_Reset_Data_Structures) but not a delay that is queued.        *)
PR_Start_View_Change(r, v) ==
  /\ View' = [View EXCEPT ![r] = v]
  /\ msgs' = msgs \cup
       {New_Leader_Proof(v),
        [type |-> "RESET_VIEWCHANGE", sender |-> r, view |-> v,
         proposal |-> Certified_Proposal(r)]}
  /\ reset_proposal' = [reset_proposal EXCEPT ![r] = NoProposal]
  /\ reset_viewchange' = [reset_viewchange EXCEPT ![r] = {}]
  /\ reset_carry_over_proposal' = [reset_carry_over_proposal EXCEPT ![r] = NoProposal]
  /\ rotate_queued' = [rotate_queued EXCEPT ![r] = TRUE]
  /\ UNCHANGED <<recovery_status, reset_share, delay_queued, executed, aborted>>

(* PR_Process_Reset_NewLeader: the last of 2f+k+1 votes for view v; and    *)
(* PR_Process_Reset_NewLeaderProof: the proof of somebody who had them, or *)
(* of copies of one RESET_NEWLEADER, as VAL_Validate_Reset_NewLeaderProof  *)
(* says itself                                                             *)
PR_Process_Reset_NewLeader(r, v) ==
  /\ Resetting(r)
  /\ v > View[r]
  /\ Cardinality(Byzantine \cup
       {q \in Correct : [type |-> "RESET_NEWLEADER", sender |-> q, view |-> v] \in msgs})
       >= Quorum
  /\ PR_Start_View_Change(r, v)

PR_Process_Reset_NewLeaderProof(r, v) ==
  /\ Resetting(r)
  /\ v > View[r]
  /\ \/ New_Leader_Proof(v) \in msgs
     \/ [to |-> r, mess |-> New_Leader_Proof(v)] \in Copies
  /\ PR_Start_View_Change(r, v)

View_Changes(v) == {m \in msgs : m.type = "RESET_VIEWCHANGE" /\ m.view = v}
Senders(ms) == {m.sender : m \in ms}

New_View(v, list) == [type |-> "RESET_NEWVIEW", view |-> v, list |-> list]

(* The RESET_NEWVIEWs that may have come: one of a correct leader, and any *)
(* of a Byzantine one, since VAL_Validate_Reset_NewView does not ask how   *)
(* many are in the list.  (That of an empty list is as that of its own.)   *)
New_Views(v) ==
  {m \in msgs : m.type = "RESET_NEWVIEW" /\ m.view = v} \cup
  (IF UTIL_Leader_Of_View[v] \in Byzantine
   THEN {New_View(v, list) : list \in (SUBSET Senders(View_Changes(v))) \ {{}}}
   ELSE {})

(* The proposals that the leaders of their views have signed *)
Signed_Proposals ==
  {m.proposal : m \in {n \in msgs : n.type = "RESET_PROPOSAL"}} \cup
  {l.proposal : l \in {k \in Lies : k.type = "RESET_PROPOSAL"}}

(* A Byzantine server's RESET_VIEWCHANGE, the same for all: it has nothing *)
(* to report, or a proposal with 2f+k Prepares.  Of these                  *)
(* VAL_Validate_Reset_ViewChange does not ask that the senders differ, nor *)
(* of the proposal who signed it and in which view.                        *)
Byzantine_ViewChange(b, v) ==
  \E p \in {NoProposal} \cup
          {q \in Signed_Proposals \cup Made_Up : VAL_Validate_Reset_Proposal(q)} :
    /\ b \in Byzantine
    /\ b \notin Senders(View_Changes(v))
    /\ New_Leader_Proof(v) \in msgs
    /\ msgs' = msgs \cup {[type |-> "RESET_VIEWCHANGE", sender |-> b, view |-> v,
                            proposal |-> p]}
    /\ UNCHANGED <<View, recovery_status, reset_share, timerVars, roundVars,
                   executed, aborted>>

(* PR_Process_Reset_ViewChange at the leader: the first 2f+k+1 of them     *)
(* become the list of the RESET_NEWVIEW.                                   *)
Send_NewView(r) ==
  \E list \in SUBSET Senders(View_Changes(View[r])) :
    /\ Resetting(r)
    /\ I_Am_Leader(r)
    /\ New_Views(View[r]) = {}
    /\ Cardinality(list) = Quorum
    /\ msgs' = msgs \cup {New_View(View[r], list)}
    /\ UNCHANGED <<View, recovery_status, reset_share, timerVars, roundVars,
                   executed, aborted>>

(* PR_Check_Complete_VC_State: the reports of the list, and the proposals  *)
(* of the highest view among them                                          *)
Reports(list, v) ==
  {m \in View_Changes(v) : m.sender \in list /\ m.proposal # NoProposal}

Highest(list, v) ==
  LET ps == {m.proposal : m \in Reports(list, v)}
  IN {p \in ps : \A q \in ps : q.view <= p.view}

Carried_Over(list, v) ==
  IF Highest(list, v) = {} THEN NoProposal ELSE CHOOSE p \in Highest(list, v) : TRUE

(* Two reports of the same view that may differ as signed messages: in the *)
(* proposal, or, where a Byzantine server has signed, in their headers     *)
May_Differ(list, v) ==
  \E m, n \in Reports(list, v) :
    /\ m.sender # n.sender
    /\ m.proposal.view = n.proposal.view
    /\ \/ m.proposal # n.proposal
       \/ {m.sender, n.sender, UTIL_Leader_Of_View[m.proposal.view]} \cap Byzantine # {}

(* PR_Check_Complete_VC_State, when the RESET_VIEWCHANGEs of arrived have  *)
(* come, all of the list among them.  It runs again for each that comes    *)
(* later.  The leader sends what is carried over, or waits for shares; it  *)
(* asserts that it has not sent a proposal yet.  All assert that a report  *)
(* is, byte for byte, the one of the same view that they have chosen so    *)
(* far: it fails if the highest differ, and, by the order of their senders,*)
(* may fail for others.                                                    *)
PR_Check_Complete_VC_State(r, nv, arrived) ==
  LET carry == Carried_Over(nv.list, View[r])
      p == [view |-> View[r], shares |-> carry.shares, num_shares |-> carry.num_shares]
      fails == \/ Cardinality(Highest(nv.list, View[r])) > 1
               \/ I_Am_Leader(r) /\ carry # NoProposal /\ reset_proposal[r] # NoProposal
  IN
  \/ /\ fails \/ May_Differ(nv.list, View[r])
     /\ aborted' = aborted \cup {r}
     /\ UNCHANGED <<View, recovery_status, reset_share, timerVars, roundVars,
                    executed, msgs>>
  \/ /\ ~fails
     /\ reset_viewchange' = [reset_viewchange EXCEPT ![r] = arrived]
     /\ reset_carry_over_proposal' = [reset_carry_over_proposal EXCEPT ![r] = carry]
     /\ \/ /\ I_Am_Leader(r) /\ carry = NoProposal
           /\ delay_queued' = [delay_queued EXCEPT ![r] = TRUE]
           /\ UNCHANGED <<reset_proposal, recovery_status, reset_share, msgs>>
        \/ /\ I_Am_Leader(r) /\ carry # NoProposal
           /\ reset_proposal' = [reset_proposal EXCEPT ![r] = p]
           /\ msgs' = msgs \cup {Vote("RESET_PROPOSAL", r, p)}
           /\ UNCHANGED <<delay_queued, recovery_status, reset_share>>
        \/ /\ ~I_Am_Leader(r)
           /\ Consider_Proposal(r, reset_proposal[r], ~delay_queued[r],
                                carry, recovery_status[r])
           /\ UNCHANGED <<delay_queued, reset_proposal>>
     /\ UNCHANGED <<View, rotate_queued, executed, aborted>>

(* PR_Process_Reset_NewView, or PR_Process_Reset_ViewChange with the last  *)
(* of the list: the state is complete.                                     *)
PR_Process_Reset_NewView(r) ==
  \E nv \in New_Views(View[r]), more \in SUBSET Senders(View_Changes(View[r])) :
    /\ Resetting(r)
    /\ reset_viewchange[r] = {}
    /\ more \cap nv.list = {}
    /\ PR_Check_Complete_VC_State(r, nv, nv.list \cup more)

(* PR_Process_Reset_ViewChange with one that the list does not ask for *)
PR_Process_Reset_ViewChange(r) ==
  \E nv \in New_Views(View[r]), q \in Senders(View_Changes(View[r])) :
    /\ Resetting(r)
    /\ reset_viewchange[r] # {}
    /\ q \notin reset_viewchange[r]
    /\ PR_Check_Complete_VC_State(r, nv, reset_viewchange[r] \cup {q})

-----------------------------------------------------------------------------
(* What may be proposed to r in its view *)
Proposed(r) ==
  {m.proposal : m \in {n \in msgs : n.type = "RESET_PROPOSAL"}} \cup
  {l.proposal : l \in {k \in Lies : k.type = "RESET_PROPOSAL" /\ k.to = r}}

Step(r) ==
  \/ \E q \in Late : PR_Process_Reset_Share(r, q)
  \/ PR_Post_Shares_Delay(r)
  \/ \E p \in Proposed(r) : PR_Process_Reset_Proposal(r, p)
  \/ PR_Process_Reset_Prepare(r)
  \/ PR_Process_Reset_Commit(r)
  \/ PR_Process_Reset_Certificate(r)
  \/ PR_Rotate_Reset_Leader(r)
  \/ \E v \in Views : PR_Process_Reset_NewLeader(r, v)
  \/ \E v \in Views : PR_Process_Reset_NewLeaderProof(r, v)
  \/ Send_NewView(r)
  \/ PR_Process_Reset_NewView(r)
  \/ PR_Process_Reset_ViewChange(r)

Next ==
  \/ \E r \in Correct \ aborted : Step(r)
  \/ \E b \in Byzantine, v \in Views : Byzantine_ViewChange(b, v)

Spec == Init /\ [][Next]_vars

-----------------------------------------------------------------------------
(* Somebody has executed p on a certificate made of copies.                *)
By_Copies(p) ==
  \E m \in msgs : m.type = "RESET_CERT" /\ m.proposal = p /\ m.made_up

(* The second view is not bound by the first: its leader is Byzantine, or  *)
(* a Byzantine server reports a proposal of a later view than the first.   *)
Unbound ==
  \/ UTIL_Leader_Of_View[2] \in Byzantine
  \/ \E m \in View_Changes(2) :
       m.sender \in Byzantine /\ m.proposal # NoProposal /\ m.proposal.view > 1

(* Replicas that finish a reset run with the same membership, whatever the *)
(* leader proposed to whom, and whether by Commits or by a certificate     *)
(* (PR_Execute_Reset_Proposal); those who finish in the second view with   *)
(* that of the first.  The validators allow two exceptions: a certificate  *)
(* made of copies, and, between views, a second one that is not bound.     *)
ResetAgreement ==
  \A r, q \in Correct :
    LET p == executed[r]
        o == executed[q]
    IN
    /\ p # NoProposal /\ ~By_Copies(p) /\ o # NoProposal /\ ~By_Copies(o)
    /\ p.view = o.view \/ (p.view = 1 /\ o.view = 2 /\ ~Unbound)
    => p.shares = o.shares

(* What is executed in the first view is carried over into the second, at  *)
(* every replica that completes the view change: the leader's RESET_NEWVIEW*)
(* names a quorum, and the one who committed it there reports it.  The     *)
(* exceptions are those of ResetAgreement.  Later views are not protected: *)
(* a report is of the view that is left only.                              *)
ExecutedIsCarriedOver ==
  \A r, q \in Correct :
    LET p == executed[r]
        carry == reset_carry_over_proposal[q]
    IN
    /\ p # NoProposal /\ ~By_Copies(p) /\ p.view = 1
    /\ Resetting(q) /\ View[q] = 2 /\ reset_viewchange[q] # {} /\ ~Unbound
    => carry # NoProposal /\ Same_Content(p, carry)

(* A membership has f+k+1 correct servers, the leader counted in, although *)
(* a proposal may name fewer than 2f+k+1 servers (its shares may repeat):  *)
(* each of those who committed it has found itself in it.  The exception is*)
(* a certificate made of copies.                                           *)
EnoughMembers ==
  \A r \in Correct :
    LET p == executed[r] IN
    p # NoProposal /\ ~By_Copies(p)
      => Cardinality((p.shares \cup {UTIL_Leader_Of_View[p.view]}) \ Byzantine)
           >= F + K + 1

(* A replica that finishes the reset is part of the membership it starts   *)
(* with, by Commits or by a certificate of others (Valid_For_Me), made of  *)
(* copies or not, also if a Byzantine leader left it out at the others.    *)
(* The exception is a leader that carries over a proposal without itself.  *)
ExecutesAsMember ==
  \A r \in Correct :
    executed[r] # NoProposal /\ UTIL_Leader_Of_View[executed[r].view] # r
      => r \in executed[r].shares
=============================================================================
