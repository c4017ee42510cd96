------------------------- MODULE SystemResetProofs --------------------------
(***************************************************************************)
(* Proofs about SystemReset, for every number of replicas and of views,    *)
(* and whatever the Byzantine servers send of Lies, Copies and Made_Up.    *)
(* Typing, membership and agreement within a view hold for every view;     *)
(* agreement across views is proved for the first two, since a             *)
(* RESET_VIEWCHANGE reports only what was certified in the view that its   *)
(* sender leaves.                                                          *)
(***************************************************************************)
EXTENDS SystemReset, PrimeConfigProofs

VoteType == {"RESET_PROPOSAL", "RESET_PREPARE", "RESET_COMMIT"}
Done(r) == recovery_status[r] = "NORMAL"

(* A replica that has executed as a member does nothing more.              *)
DoneIsQuiet == \A r \in Correct : Done(r) => ~delay_queued[r]

(* r may run with p: p has its share, or r has led p's view.               *)
Runs_With(r, p) == UTIL_Leader_Of_View[p.view] = r \/ r \in p.shares

(* The stored proposal is one of the replica's view that it may run with.  *)
(* (The view of a certificate that has been executed may be a later one.)  *)
ProposalOfView ==
  \A r \in Correct :
    reset_proposal[r] # NoProposal =>
      /\ Runs_With(r, reset_proposal[r])
      /\ Done(r) \/ reset_proposal[r].view = View[r]

ExecutedRunsWith ==
  \A r \in Correct : executed[r] # NoProposal => Runs_With(r, executed[r])

(* Votes are those of correct replicas; what a Byzantine server votes is   *)
(* in Lies.                                                                *)
VotesCorrect == \A m \in msgs : m.type \in VoteType => m.sender \in Correct

(* One Commit per replica and view                                         *)
OneCommit ==
  \A m, n \in msgs :
    m.type = "RESET_COMMIT" /\ n.type = "RESET_COMMIT" /\ m.sender = n.sender =>
      (m.proposal.view = n.proposal.view => m.proposal = n.proposal)

(* A replica commits only what it may run with.                            *)
CommitsAreMembers ==
  \A m \in msgs : m.type = "RESET_COMMIT" => Runs_With(m.sender, m.proposal)

(* A number of servers, those that are not Byzantine by a message sent,    *)
(* vote for p.                                                             *)
Backed(type, p, number) ==
  \E Q \in SUBSET Servers :
    /\ Cardinality(Q) >= number
    /\ \A q \in Q \ Byzantine : Vote(type, q, p) \in msgs

Committed(p) == Backed("RESET_COMMIT", p, Quorum)

CommitsBacked ==
  \A m \in msgs :
    m.type = "RESET_COMMIT" => Backed("RESET_PREPARE", m.proposal, Quorum - 1)

(* What is executed or certified was committed by a quorum, unless there   *)
(* is a certificate made of copies.                                        *)
ExecutedCommitted ==
  /\ \A r \in Correct : executed[r] # NoProposal =>
       Committed(executed[r]) \/ By_Copies(executed[r])
  /\ \A m \in msgs : m.type = "RESET_CERT" => Committed(m.proposal) \/ m.made_up

(* RESET_VIEWCHANGEs are for a view after the first, and correct replicas  *)
(* report proposals of earlier views.  The list of a correct leader's      *)
(* RESET_NEWVIEW names a quorum of those who have reported.                *)
ViewChangesLater ==
  \A m \in msgs :
    /\ m.type = "RESET_NEWLEADERPROOF" => m.view >= 2
    /\ m.type = "RESET_VIEWCHANGE" =>
         /\ m.view >= 2
         /\ m.sender \notin Byzantine /\ m.proposal # NoProposal =>
              m.proposal.view < m.view

ListsQuorum ==
  \A m \in msgs :
    m.type = "RESET_NEWVIEW" =>
      m.list \subseteq Senders(View_Changes(m.view)) /\ Cardinality(m.list) = Quorum

(* Nobody goes back to a view it has reported to have left, or commits in  *)
(* a view that it has not entered, unless it has executed as a member.     *)
ReportedLeft ==
  \A m \in msgs :
    /\ m.type = "RESET_VIEWCHANGE" /\ m.sender \in Correct =>
         Done(m.sender) \/ View[m.sender] >= m.view
    /\ m.type = "RESET_COMMIT" =>
         Done(m.sender) \/ View[m.sender] >= m.proposal.view

(* In the first view there is nothing from a view change, the delay waits  *)
(* for a quorum of shares, the leader proposes once, and what a replica    *)
(* has committed is what it has stored.                                    *)
FirstView ==
  \A r \in Correct :
    View[r] = 1 /\ ~Done(r) =>
      /\ reset_viewchange[r] = {}
      /\ delay_queued[r] => Cardinality(reset_share[r]) >= Quorum
      /\ I_Am_Leader(r) /\ reset_proposal[r] # NoProposal =>
           ~delay_queued[r] /\ Cardinality(reset_share[r]) >= Quorum
      /\ \A m \in msgs :
           m.type = "RESET_COMMIT" /\ m.sender = r /\ m.proposal.view = 1 =>
             reset_proposal[r] = m.proposal

(* The report for the second view is what was committed in the first.      *)
CommitReported ==
  \A m, n \in msgs :
    m.type = "RESET_VIEWCHANGE" /\ n.type = "RESET_COMMIT" /\ m.sender = n.sender =>
      (m.view = 2 /\ n.proposal.view = 1 => m.proposal = n.proposal)

(* A quorum reports for the second view no other proposal than c.          *)
Covered(c) ==
  \E L \in SUBSET Servers :
    /\ Cardinality(L) >= Quorum
    /\ \A q \in L \ Byzantine : \E m \in View_Changes(2) :
         m.sender = q /\ m.proposal \in {NoProposal, c}

(* What is carried over into the second view is what was reported, if that *)
(* view is bound by the first.                                             *)
CarriedCovered ==
  \A r \in Correct :
    View[r] = 2 /\ reset_viewchange[r] # {} /\ ~Done(r) /\ ~Unbound =>
      Covered(reset_carry_over_proposal[r])

(* A Prepare of the second view is for a proposal with the shares that are *)
(* carried over.                                                           *)
PreparesCovered ==
  \A m \in msgs :
    m.type = "RESET_PREPARE" /\ m.proposal.view = 2 /\ ~Unbound =>
      \E c \in Proposal \cup {NoProposal} :
        Covered(c) /\ (c # NoProposal => m.proposal.shares = c.shares)

(* What holds in every view, and what is said of the first two             *)
RoundInv ==
  /\ TypeOK
  /\ DoneIsQuiet
  /\ ProposalOfView
  /\ ExecutedRunsWith
  /\ VotesCorrect
  /\ OneCommit
  /\ CommitsAreMembers
  /\ CommitsBacked
  /\ ExecutedCommitted

CarryInv ==
  /\ ViewChangesLater
  /\ ListsQuorum
  /\ ReportedLeft
  /\ FirstView
  /\ CommitReported
  /\ CarriedCovered
  /\ PreparesCovered

-----------------------------------------------------------------------------
(* The fields of the messages                                              *)
LEMMA MessageFields ==
  ASSUME NEW m \in Message
  PROVE  /\ m.type \in VoteType => m.sender \in Servers /\ m.proposal \in Proposal
         /\ m.type = "RESET_CERT" => m \in Certificate
         /\ m.type = "RESET_VIEWCHANGE" =>
              /\ m.sender \in Servers /\ m.view \in Views
              /\ m.proposal \in Proposal \cup {NoProposal}
         /\ m.type = "RESET_NEWVIEW" => m.view \in Views /\ m.list \in SUBSET Servers
         /\ m.type = "RESET_NEWLEADERPROOF" => m.view \in Views
BY DEF Message, Certificate, NewLeaderProof, VoteType

(* The fields of a certificate                                             *)
LEMMA CertificateFields ==
  ASSUME NEW m \in Certificate
  PROVE  /\ m \in Message /\ m.type = "RESET_CERT"
         /\ m.view \in Views /\ m.proposal \in Proposal
BY DEF Certificate, Message

(* A vote for a proposal is a message, and has what it is made of.         *)
LEMMA VoteIsMessage ==
  ASSUME NEW type \in VoteType, NEW r \in Servers, NEW p \in Proposal
  PROVE  /\ Vote(type, r, p) \in Message
         /\ Vote(type, r, p).type = type
         /\ Vote(type, r, p).sender = r
         /\ Vote(type, r, p).proposal = p
BY DEF Vote, Message, VoteType

(* Proposals have the view and the shares that they are made of.           *)
LEMMA ProposalFields ==
  ASSUME NEW p \in Proposal
  PROVE  /\ p.view \in Views /\ p.shares \in SUBSET Servers
         /\ p.num_shares \in 0 .. Cardinality(Servers) /\ p # NoProposal
BY ResetBounds DEF Proposal

(* A leader's own proposal is one.                                         *)
LEMMA OwnIsProposal ==
  ASSUME TypeOK, NEW r \in Correct
  PROVE  Own_Proposal(r) \in Proposal /\ Own_Proposal(r).view = View[r]
<1>1. reset_share[r] \in SUBSET Servers /\ View[r] \in Views
  BY DEF TypeOK
<1>2. /\ Cardinality(reset_share[r]) \in Nat /\ Cardinality(Servers) \in Nat
      /\ Cardinality(reset_share[r]) <= Cardinality(Servers)
  BY <1>1, VotersMonotone
<1>3. Cardinality(reset_share[r]) \in 0 .. Cardinality(Servers)
  BY <1>2
<1> QED
  BY <1>1, <1>3 DEF Own_Proposal, Proposal

(* The votes that r counts are backed.                                     *)
LEMMA VotersBacked ==
  ASSUME NEW type, NEW r, NEW p, NEW number, Cardinality(Voters(type, r, p)) >= number
  PROVE  Backed(type, p, number)
<1>1. Voters(type, r, p) \in SUBSET Servers
  BY FaultModel DEF Voters
<1>2. \A q \in Voters(type, r, p) \ Byzantine : Vote(type, q, p) \in msgs
  BY DEF Voters
<1> QED
  BY <1>1, <1>2 DEF Backed

(* What is backed stays so.                                                *)
LEMMA BackedGrows ==
  ASSUME msgs \subseteq msgs', NEW type, NEW p, NEW number, Backed(type, p, number)
  PROVE  Backed(type, p, number)'
BY DEF Backed, Vote

(* What was executed by copies stays so, and so does an unbound view.      *)
LEMMA CopiesGrow ==
  ASSUME msgs \subseteq msgs'
  PROVE  (\A p : By_Copies(p) => By_Copies(p)') /\ (Unbound => Unbound')
BY DEF By_Copies, Unbound, View_Changes

(* The part of RoundInv about messages: each new one has what is said of   *)
(* it, and what is newly executed was committed.                           *)
LEMMA RoundMessages ==
  ASSUME RoundInv, msgs \subseteq msgs',
         \A m \in msgs' \ msgs :
           /\ m \in Message
           /\ m.type \in VoteType => m.sender \in Correct
           /\ m.type = "RESET_COMMIT" =>
                /\ Runs_With(m.sender, m.proposal)
                /\ Backed("RESET_PREPARE", m.proposal, Quorum - 1)
                /\ \A n \in msgs' :
                     n.type = "RESET_COMMIT" /\ n.sender = m.sender =>
                       (n.proposal.view = m.proposal.view => n.proposal = m.proposal)
           /\ m.type = "RESET_CERT" => Committed(m.proposal) \/ m.made_up,
         \A r \in Correct, p \in Proposal :
           executed'[r] = p => executed[r] = p \/ Committed(p) \/ By_Copies(p)',
         executed' \in [Correct -> Proposal \cup {NoProposal}]
  PROVE  msgs' \subseteq Message /\ VotesCorrect' /\ OneCommit' /\ CommitsAreMembers'
         /\ CommitsBacked' /\ ExecutedCommitted'
<1>1. msgs' \subseteq Message
  BY DEF RoundInv, TypeOK
<1>2. VotesCorrect'
  BY DEF RoundInv, VotesCorrect
<1>3. OneCommit'
  <2> SUFFICES ASSUME NEW m \in msgs', NEW n \in msgs',
                      m.type = "RESET_COMMIT", n.type = "RESET_COMMIT", m.sender = n.sender,
                      m.proposal.view = n.proposal.view
               PROVE  m.proposal = n.proposal
    BY DEF OneCommit
  <2>1. CASE m \in msgs /\ n \in msgs
    BY <2>1 DEF RoundInv, OneCommit
  <2>2. CASE m \notin msgs
    BY <2>2
  <2>3. CASE n \notin msgs
    BY <2>3
  <2> QED
    BY <2>1, <2>2, <2>3
<1>4. CommitsBacked'
  <2> SUFFICES ASSUME NEW m \in msgs', m.type = "RESET_COMMIT"
               PROVE  Backed("RESET_PREPARE", m.proposal, Quorum - 1)'
    BY DEF CommitsBacked
  <2>1. Backed("RESET_PREPARE", m.proposal, Quorum - 1)
    BY DEF RoundInv, CommitsBacked
  <2> QED
    BY <2>1, BackedGrows
<1>5. (\A p : Committed(p) => Committed(p)') /\ (\A p : By_Copies(p) => By_Copies(p)')
  BY BackedGrows, CopiesGrow DEF Committed
<1>6. ExecutedCommitted'
  <2>1. ASSUME NEW r \in Correct, executed'[r] # NoProposal
        PROVE  Committed(executed[r])' \/ By_Copies(executed[r])'
    <3>1. PICK p \in Proposal : executed'[r] = p
      BY <2>1
    <3>2. Committed(p) \/ By_Copies(p) \/ By_Copies(p)'
      <4>1. CASE executed[r] = p
        BY <4>1, ProposalFields DEF RoundInv, ExecutedCommitted
      <4> QED
        BY <3>1, <4>1
    <3>3. Committed(p)' \/ By_Copies(p)'
      BY <1>5, <3>2
    <3> QED
      BY <3>1, <3>3 DEF Committed, Backed, Vote, By_Copies
  <2>2. ASSUME NEW m \in msgs', m.type = "RESET_CERT"
        PROVE  Committed(m.proposal)' \/ m.made_up
    <3>1. Committed(m.proposal) \/ m.made_up
      BY <2>2 DEF RoundInv, ExecutedCommitted
    <3> QED
      BY <1>5, <3>1
  <2> QED
    BY <2>1, <2>2 DEF ExecutedCommitted
<1>7. CommitsAreMembers'
  BY DEF RoundInv, CommitsAreMembers, Runs_With
<1> QED
  BY <1>1, <1>2, <1>3, <1>4, <1>6, <1>7

(* PR_Process_Reset_Proposal, from where a proposal is stored: either r    *)
(* only takes on the status, or it prepares an acceptable proposal and     *)
(* adopts its shares.                                                      *)
LEMMA ConsiderEffect ==
  ASSUME NEW r, NEW p, NEW ready, NEW carry, NEW status,
         Consider_Proposal(r, p, ready, carry, status),
         TypeOK, r \in Correct, p \in Proposal \cup {NoProposal},
         status \in {"STARTUP", "RESET", "NORMAL"}
  PROVE  /\ recovery_status' \in [Correct -> {"STARTUP", "RESET", "NORMAL"}]
         /\ reset_share' \in [Correct -> SUBSET Servers]
         /\ \A q \in Correct \ {r} : /\ recovery_status'[q] = recovery_status[q]
                                     /\ reset_share'[q] = reset_share[q]
         /\ \/ /\ recovery_status'[r] = status
               /\ reset_share' = reset_share /\ msgs' = msgs
            \/ /\ ready /\ p \in Proposal /\ Acceptable(r, p, reset_share[r], carry)
               /\ recovery_status'[r] = "RESET"
               /\ reset_share'[r] = reset_share[r] \cup p.shares
               /\ msgs' = msgs \cup {Vote("RESET_PREPARE", r, p)}
<1> DEFINE prepares == ready /\ p # NoProposal /\ Acceptable(r, p, reset_share[r], carry)
<1>1. /\ recovery_status' = [recovery_status EXCEPT ![r] =
                               IF prepares THEN "RESET" ELSE status]
      /\ reset_share' = [reset_share EXCEPT ![r] =
                           IF prepares THEN reset_share[r] \cup p.shares ELSE reset_share[r]]
      /\ msgs' = msgs \cup (IF prepares THEN {Vote("RESET_PREPARE", r, p)} ELSE {})
  BY DEF Consider_Proposal
<1>2. /\ recovery_status \in [Correct -> {"STARTUP", "RESET", "NORMAL"}]
      /\ reset_share \in [Correct -> SUBSET Servers]
  BY DEF TypeOK
<1>3. CASE prepares
  <2>1. p \in Proposal /\ p.shares \in SUBSET Servers
    BY <1>3, ProposalFields
  <2>2. reset_share' = [reset_share EXCEPT ![r] = reset_share[r] \cup p.shares]
        /\ recovery_status' = [recovery_status EXCEPT ![r] = "RESET"]
        /\ msgs' = msgs \cup {Vote("RESET_PREPARE", r, p)}
    BY <1>1, <1>3
  <2> QED
    BY <1>2, <1>3, <2>1, <2>2
<1>4. CASE ~prepares
  <2>1. reset_share' = [reset_share EXCEPT ![r] = reset_share[r]]
        /\ recovery_status' = [recovery_status EXCEPT ![r] = status]
        /\ msgs' = msgs
    BY <1>1, <1>4
  <2> QED
    BY <1>2, <2>1
<1> QED
  BY <1>3, <1>4

(* What RoundInv says of one replica's own state                           *)
LocalRound(r) ==
  /\ Done(r) => ~delay_queued[r]
  /\ reset_proposal[r] # NoProposal =>
       /\ Runs_With(r, reset_proposal[r])
       /\ Done(r) \/ reset_proposal[r].view = View[r]
  /\ executed[r] # NoProposal => Runs_With(r, executed[r])

(* A step of r changes nobody else's.                                      *)
LEMMA RoundLocal ==
  ASSUME RoundInv, NEW r \in Correct, LocalRound(r)',
         \A q \in Correct \ {r} :
           /\ View'[q] = View[q] /\ recovery_status'[q] = recovery_status[q]
           /\ delay_queued'[q] = delay_queued[q]
           /\ reset_proposal'[q] = reset_proposal[q] /\ executed'[q] = executed[q]
  PROVE  DoneIsQuiet' /\ ProposalOfView' /\ ExecutedRunsWith'
<1>1. \A q \in Correct : LocalRound(q)'
  <2> SUFFICES ASSUME NEW q \in Correct \ {r} PROVE LocalRound(q)'
    OBVIOUS
  <2>1. LocalRound(q)
    BY DEF RoundInv, DoneIsQuiet, ProposalOfView, ExecutedRunsWith, LocalRound
  <2> QED
    BY <2>1 DEF LocalRound, Resetting, Done, Runs_With
<1> QED
  BY <1>1 DEF LocalRound, DoneIsQuiet, ProposalOfView, ExecutedRunsWith

(* A step that changes no replica's own state, but for timers that are     *)
(* not the delay and for what failed, and sends what is not a vote.        *)
LEMMA RoundSends ==
  ASSUME RoundInv, msgs \subseteq msgs',
         \A m \in msgs' \ msgs :
           m \in Message /\ m.type \notin VoteType /\ m.type # "RESET_CERT",
         UNCHANGED <<View, recovery_status, reset_share, delay_queued, roundVars, executed>>,
         rotate_queued' \in [Correct -> BOOLEAN], aborted' \subseteq Correct
  PROVE  RoundInv'
<1>1. UNCHANGED <<reset_proposal, reset_viewchange, reset_carry_over_proposal>>
  BY DEF roundVars
<1>2. msgs' \subseteq Message /\ VotesCorrect' /\ OneCommit' /\ CommitsAreMembers'
      /\ CommitsBacked' /\ ExecutedCommitted'
  BY RoundMessages DEF RoundInv, TypeOK, VoteType
<1>3. TypeOK'
  BY <1>1, <1>2 DEF RoundInv, TypeOK
<1>4. DoneIsQuiet' /\ ProposalOfView' /\ ExecutedRunsWith'
  BY <1>1 DEF RoundInv, DoneIsQuiet, ProposalOfView, ExecutedRunsWith,
     Resetting, Done, Runs_With
<1> QED
  BY <1>2, <1>3, <1>4 DEF RoundInv

-----------------------------------------------------------------------------
(* Each action preserves RoundInv: the initial states first.               *)
LEMMA RoundInit ==
  ASSUME Init
  PROVE  RoundInv
<1>0. 1 \in Views /\ Prompt \in SUBSET Servers
  BY ResetBounds DEF Views
<1>1. TypeOK
  BY <1>0 DEF Init, TypeOK
<1>2. DoneIsQuiet /\ ProposalOfView /\ ExecutedRunsWith
  BY DEF Init, DoneIsQuiet, ProposalOfView, ExecutedRunsWith, Resetting, Done
<1>3. VotesCorrect /\ OneCommit /\ CommitsAreMembers /\ CommitsBacked /\ ExecutedCommitted
  BY DEF Init, VotesCorrect, OneCommit, CommitsAreMembers, CommitsBacked, ExecutedCommitted
<1> QED
  BY <1>1, <1>2, <1>3 DEF RoundInv

(* A share may queue the timers.                                           *)
LEMMA ResetShareRound ==
  ASSUME RoundInv, NEW r \in Correct, NEW q \in Servers, PR_Process_Reset_Share(r, q)
  PROVE  RoundInv'
<1> DEFINE enough == Cardinality(reset_share'[r]) = Quorum /\ ~delay_queued[r]
           shares == reset_share[r] \cup {q}
<1>1. /\ Starting(r)
      /\ reset_share' = [reset_share EXCEPT ![r] = shares]
      /\ delay_queued' = [delay_queued EXCEPT ![r] = delay_queued[r] \/ enough]
      /\ rotate_queued' = [rotate_queued EXCEPT ![r] = rotate_queued[r] \/ enough]
      /\ UNCHANGED <<View, recovery_status, roundVars, executed, aborted, msgs>>
  BY DEF PR_Process_Reset_Share
<1>2. /\ reset_share \in [Correct -> SUBSET Servers]
      /\ delay_queued \in [Correct -> BOOLEAN] /\ rotate_queued \in [Correct -> BOOLEAN]
      /\ shares \in SUBSET Servers
  BY DEF RoundInv, TypeOK
<1> DEFINE delay == delay_queued[r] \/ enough
           rotate == rotate_queued[r] \/ enough
<1>4. delay \in BOOLEAN /\ rotate \in BOOLEAN
  BY <1>2, Zenon
<1>5. /\ delay_queued' = [delay_queued EXCEPT ![r] = delay]
      /\ rotate_queued' = [rotate_queued EXCEPT ![r] = rotate]
  BY <1>1
<1> HIDE DEF delay, rotate, enough, shares
<1>7. /\ delay_queued' \in [Correct -> BOOLEAN] /\ rotate_queued' \in [Correct -> BOOLEAN]
      /\ delay_queued'[r] = delay /\ \A x \in Correct \ {r} : delay_queued'[x] = delay_queued[x]
  BY <1>2, <1>4, <1>5, Zenon
<1>8. /\ reset_share' \in [Correct -> SUBSET Servers] /\ reset_share'[r] = shares
      /\ \A x \in Correct \ {r} : reset_share'[x] = reset_share[x]
  BY <1>1, <1>2
<1>9. LocalRound(r)'
  <2>1. ~Done(r)
    BY <1>1 DEF Starting, Done
  <2>2. /\ View'[r] = View[r] /\ recovery_status'[r] = recovery_status[r]
        /\ reset_proposal'[r] = reset_proposal[r] /\ executed'[r] = executed[r]
    BY <1>1 DEF roundVars
  <2> QED
    BY <1>7, <2>1, <2>2
       DEF RoundInv, ProposalOfView, ExecutedRunsWith, LocalRound, Resetting, Done, Runs_With
<1>10. DoneIsQuiet' /\ ProposalOfView' /\ ExecutedRunsWith'
  BY <1>1, <1>7, <1>8, <1>9, RoundLocal DEF roundVars
<1>11. msgs' \subseteq Message /\ VotesCorrect' /\ OneCommit' /\ CommitsAreMembers'
       /\ CommitsBacked' /\ ExecutedCommitted'
  BY <1>1, RoundMessages DEF RoundInv, TypeOK
<1>12. TypeOK'
  BY <1>1, <1>7, <1>8 DEF RoundInv, TypeOK, roundVars
<1> QED
  BY <1>10, <1>11, <1>12 DEF RoundInv

(* A proposal that r stores, and may prepare, is of its view.              *)
LEMMA ConsiderRound ==
  ASSUME NEW r, NEW p, NEW ready, NEW carry, NEW status,
         Consider_Proposal(r, p, ready, carry, status),
         RoundInv, r \in Correct, p \in Proposal \cup {NoProposal},
         status \in {"STARTUP", "RESET", "NORMAL"},
         reset_proposal' \in [Correct -> Proposal \cup {NoProposal}], reset_proposal'[r] = p,
         \A q \in Correct \ {r} : reset_proposal'[q] = reset_proposal[q],
         p # NoProposal => p.view = View[r] /\ Runs_With(r, p),
         status # "NORMAL",
         delay_queued' \in [Correct -> BOOLEAN], delay_queued'[r] => delay_queued[r],
         \A q \in Correct \ {r} : delay_queued'[q] = delay_queued[q],
         reset_viewchange' \in [Correct -> SUBSET Servers],
         reset_carry_over_proposal' \in [Correct -> Proposal \cup {NoProposal}],
         UNCHANGED <<View, rotate_queued, executed, aborted>>
  PROVE  RoundInv'
<1>1. /\ recovery_status' \in [Correct -> {"STARTUP", "RESET", "NORMAL"}]
      /\ reset_share' \in [Correct -> SUBSET Servers]
      /\ \A q \in Correct \ {r} : /\ recovery_status'[q] = recovery_status[q]
                                  /\ reset_share'[q] = reset_share[q]
      /\ \/ /\ recovery_status'[r] = status
            /\ reset_share' = reset_share /\ msgs' = msgs
         \/ /\ p \in Proposal
            /\ recovery_status'[r] = "RESET"
            /\ reset_share'[r] = reset_share[r] \cup p.shares
            /\ msgs' = msgs \cup {Vote("RESET_PREPARE", r, p)}
  BY ConsiderEffect DEF RoundInv
<1>3. msgs' \subseteq Message /\ VotesCorrect' /\ OneCommit' /\ CommitsAreMembers'
      /\ CommitsBacked' /\ ExecutedCommitted'
  <2>1. p \in Proposal => LET m == Vote("RESET_PREPARE", r, p) IN
          m \in Message /\ m.type = "RESET_PREPARE" /\ m.sender = r
    BY VoteIsMessage DEF VoteType, Correct
  <2>2. msgs \subseteq msgs' /\ \A m \in msgs' \ msgs :
          m \in Message /\ m.type = "RESET_PREPARE" /\ m.sender = r
    BY <1>1, <2>1
  <2> QED
    BY <2>2, RoundMessages DEF RoundInv, TypeOK
<1>5. LocalRound(r)'
  <2>2. View'[r] = View[r] /\ executed'[r] = executed[r]
    OBVIOUS
  <2>3. recovery_status'[r] # "NORMAL"
    BY <1>1
  <2> QED
    BY <2>2, <2>3
       DEF RoundInv, ExecutedRunsWith, LocalRound, Resetting, Done, Runs_With
<1>6. DoneIsQuiet' /\ ProposalOfView' /\ ExecutedRunsWith'
  BY <1>1, <1>5, RoundLocal
<1>7. TypeOK'
  BY <1>1, <1>3 DEF RoundInv, TypeOK
<1> QED
  BY <1>3, <1>6, <1>7 DEF RoundInv

(* The leader proposes.                                                    *)
LEMMA ProposeRound ==
  ASSUME RoundInv, NEW r \in Correct, NEW p \in Proposal, NEW status \in {"STARTUP", "RESET"},
         I_Am_Leader(r), p.view = View[r],
         reset_proposal' = [reset_proposal EXCEPT ![r] = p],
         msgs' = msgs \cup {Vote("RESET_PROPOSAL", r, p)},
         recovery_status' = [recovery_status EXCEPT ![r] = status],
         delay_queued' \in [Correct -> BOOLEAN], delay_queued'[r] => delay_queued[r],
         \A q \in Correct \ {r} : delay_queued'[q] = delay_queued[q],
         reset_viewchange' \in [Correct -> SUBSET Servers],
         reset_carry_over_proposal' \in [Correct -> Proposal \cup {NoProposal}],
         UNCHANGED <<View, reset_share, rotate_queued, executed, aborted>>
  PROVE  RoundInv'
<1>1. /\ reset_proposal' \in [Correct -> Proposal \cup {NoProposal}]
      /\ reset_proposal'[r] = p
      /\ \A q \in Correct \ {r} : reset_proposal'[q] = reset_proposal[q]
  BY DEF RoundInv, TypeOK
<1>2. /\ recovery_status' \in [Correct -> {"STARTUP", "RESET", "NORMAL"}]
      /\ recovery_status'[r] = status
      /\ \A q \in Correct \ {r} : recovery_status'[q] = recovery_status[q]
  BY DEF RoundInv, TypeOK
<1>3. msgs' \subseteq Message /\ VotesCorrect' /\ OneCommit' /\ CommitsAreMembers'
      /\ CommitsBacked' /\ ExecutedCommitted'
  <2>1. LET m == Vote("RESET_PROPOSAL", r, p) IN
          m \in Message /\ m.type = "RESET_PROPOSAL" /\ m.sender = r
    BY VoteIsMessage DEF VoteType, Correct
  <2> QED
    BY <2>1, RoundMessages DEF RoundInv, TypeOK
<1>4. LocalRound(r)'
  <2>1. /\ View'[r] = View[r] /\ executed'[r] = executed[r]
        /\ UTIL_Leader_Of_View[p.view] = r
    BY DEF I_Am_Leader
  <2> QED
    BY <1>1, <1>2, <2>1
       DEF RoundInv, ExecutedRunsWith, LocalRound, Done, Runs_With
<1>5. DoneIsQuiet' /\ ProposalOfView' /\ ExecutedRunsWith'
  BY <1>1, <1>2, <1>4, RoundLocal
<1>6. TypeOK'
  BY <1>1, <1>2, <1>3 DEF RoundInv, TypeOK
<1> QED
  BY <1>3, <1>5, <1>6 DEF RoundInv

(* The delay is over.                                                      *)
LEMMA PostSharesDelayRound ==
  ASSUME RoundInv, NEW r \in Correct, PR_Post_Shares_Delay(r)
  PROVE  RoundInv'
<1> DEFINE status == IF View[r] = 1 /\ r \in reset_share[r] THEN "RESET" ELSE recovery_status[r]
           p == Own_Proposal(r)
           ready == View[r] = 1 \/ reset_viewchange[r] # {}
<1>1. /\ delay_queued[r]
      /\ delay_queued' = [delay_queued EXCEPT ![r] = FALSE]
      /\ UNCHANGED <<View, rotate_queued, reset_viewchange,
                     reset_carry_over_proposal, executed, aborted>>
  BY DEF PR_Post_Shares_Delay
<1>2. \/ /\ I_Am_Leader(r)
         /\ reset_proposal' = [reset_proposal EXCEPT ![r] = p]
         /\ msgs' = msgs \cup {Vote("RESET_PROPOSAL", r, p)}
         /\ recovery_status' = [recovery_status EXCEPT ![r] = status]
         /\ UNCHANGED reset_share
      \/ /\ Consider_Proposal(r, reset_proposal[r], ready, reset_carry_over_proposal[r], status)
         /\ UNCHANGED reset_proposal
  BY DEF PR_Post_Shares_Delay
<1>3. ~Done(r)
  BY <1>1 DEF RoundInv, DoneIsQuiet
<1>4. status \in {"STARTUP", "RESET"}
  BY <1>3 DEF RoundInv, TypeOK, Done
<1>5. /\ delay_queued' \in [Correct -> BOOLEAN] /\ ~delay_queued'[r]
      /\ \A q \in Correct \ {r} : delay_queued'[q] = delay_queued[q]
      /\ reset_viewchange' \in [Correct -> SUBSET Servers]
      /\ reset_carry_over_proposal' \in [Correct -> Proposal \cup {NoProposal}]
  BY <1>1 DEF RoundInv, TypeOK
<1>6. CASE /\ I_Am_Leader(r)
           /\ reset_proposal' = [reset_proposal EXCEPT ![r] = p]
           /\ msgs' = msgs \cup {Vote("RESET_PROPOSAL", r, p)}
           /\ recovery_status' = [recovery_status EXCEPT ![r] = status]
           /\ UNCHANGED reset_share
  <2>1. p \in Proposal /\ p.view = View[r]
    BY OwnIsProposal DEF RoundInv
  <2> HIDE DEF p, status
  <2> QED
    BY <1>1, <1>3, <1>4, <1>5, <1>6, <2>1, ProposeRound
<1>7. CASE /\ Consider_Proposal(r, reset_proposal[r], ready, reset_carry_over_proposal[r], status)
           /\ UNCHANGED reset_proposal
  <2>1. /\ reset_proposal[r] \in Proposal \cup {NoProposal}
        /\ reset_proposal' \in [Correct -> Proposal \cup {NoProposal}]
        /\ reset_proposal'[r] = reset_proposal[r]
        /\ \A q \in Correct \ {r} : reset_proposal'[q] = reset_proposal[q]
        /\ reset_proposal[r] # NoProposal =>
             reset_proposal[r].view = View[r] /\ Runs_With(r, reset_proposal[r])
    BY <1>3, <1>7 DEF RoundInv, TypeOK, ProposalOfView
  <2>2. ready \in BOOLEAN /\ status \in {"STARTUP", "RESET", "NORMAL"} /\ status # "NORMAL"
    BY <1>4
  <2> HIDE DEF ready, status
  <2> QED
    BY <1>1, <1>3, <1>5, <1>7, <2>1, <2>2, ConsiderRound
<1> QED
  BY <1>2, <1>6, <1>7

(* The first proposal of the view is stored.                               *)
LEMMA ProcessProposalRound ==
  ASSUME RoundInv, NEW r \in Correct, NEW p \in Proposal, PR_Process_Reset_Proposal(r, p)
  PROVE  RoundInv'
<1> DEFINE ready == ~delay_queued[r] /\ (View[r] = 1 \/ reset_viewchange[r] # {})
<1>1. /\ Starting(r) /\ p.view = View[r] /\ r \in p.shares
      /\ reset_proposal' = [reset_proposal EXCEPT ![r] = p]
      /\ Consider_Proposal(r, p, ready, reset_carry_over_proposal[r], recovery_status[r])
      /\ UNCHANGED <<View, timerVars, reset_viewchange, reset_carry_over_proposal,
                     executed, aborted>>
  BY DEF PR_Process_Reset_Proposal, Valid_For_Me
<1>2. recovery_status[r] \in {"STARTUP", "RESET"}
  BY <1>1 DEF Starting
<1>3. ready \in BOOLEAN /\ Runs_With(r, p) /\ UNCHANGED <<delay_queued, rotate_queued>>
  BY <1>1 DEF RoundInv, TypeOK, Runs_With, timerVars
<1>4. /\ reset_proposal' \in [Correct -> Proposal \cup {NoProposal}] /\ reset_proposal'[r] = p
      /\ \A q \in Correct \ {r} : reset_proposal'[q] = reset_proposal[q]
      /\ delay_queued' \in [Correct -> BOOLEAN]
      /\ reset_viewchange' \in [Correct -> SUBSET Servers]
      /\ reset_carry_over_proposal' \in [Correct -> Proposal \cup {NoProposal}]
  BY <1>1, <1>3 DEF RoundInv, TypeOK
<1> HIDE DEF ready
<1> QED
  BY <1>1, <1>2, <1>3, <1>4, ConsiderRound

(* A replica sends one Commit in a view, with a certificate.               *)
LEMMA ProcessPrepareRound ==
  ASSUME RoundInv, NEW r \in Correct, PR_Process_Reset_Prepare(r)
  PROVE  RoundInv'
<1> DEFINE p == reset_proposal[r]
           c == Vote("RESET_COMMIT", r, p)
<1>1. /\ Resetting(r) /\ p # NoProposal /\ ~Sent_Commit(r) /\ Prepare_Certificate(r, p)
      /\ msgs' = msgs \cup {c}
      /\ UNCHANGED <<View, recovery_status, reset_share, timerVars, roundVars,
                     executed, aborted>>
  BY DEF PR_Process_Reset_Prepare
<1>2. p \in Proposal /\ p.view = View[r] /\ Runs_With(r, p)
  BY <1>1 DEF RoundInv, TypeOK, ProposalOfView, Resetting, Done
<1>3. c \in Message /\ c.type = "RESET_COMMIT" /\ c.sender = r /\ c.proposal = p
  BY <1>2, VoteIsMessage DEF VoteType, Correct
<1>4. Backed("RESET_PREPARE", p, Quorum - 1)
  BY <1>1, VotersBacked DEF Prepare_Certificate
<1>5. \A n \in msgs : n.type = "RESET_COMMIT" /\ n.sender = r => n.proposal.view # p.view
  BY <1>1, <1>2 DEF Sent_Commit
<1> HIDE DEF p, c
<1>6. msgs' \subseteq Message /\ VotesCorrect' /\ OneCommit' /\ CommitsAreMembers'
      /\ CommitsBacked' /\ ExecutedCommitted'
  <2>1. \A m \in msgs' \ msgs : m = c
    BY <1>1
  <2>2. \A n \in msgs' :
          n.type = "RESET_COMMIT" /\ n.sender = r =>
            (n.proposal.view = p.view => n.proposal = p)
    BY <1>1, <1>3, <1>5
  <2> QED
    BY <1>1, <1>2, <1>3, <1>4, <2>1, <2>2, RoundMessages DEF RoundInv, TypeOK
<1>7. DoneIsQuiet' /\ ProposalOfView' /\ ExecutedRunsWith'
  BY <1>1 DEF RoundInv, DoneIsQuiet, ProposalOfView, ExecutedRunsWith,
     Resetting, Done, Runs_With, timerVars, roundVars
<1>8. TypeOK'
  BY <1>1, <1>6 DEF RoundInv, TypeOK, timerVars, roundVars
<1> QED
  BY <1>6, <1>7, <1>8 DEF RoundInv

(* Executing a proposal that a quorum has committed, or that is in a made  *)
(* up certificate, in the proposal's view or as a member                   *)
LEMMA ExecuteRound ==
  ASSUME RoundInv, NEW r \in Correct, NEW p \in Proposal, NEW cert \in Certificate,
         cert.proposal = p, Committed(p) \/ cert.made_up, Runs_With(r, p),
         PR_Execute_Reset_Proposal(r, p, cert),
         NEW v \in Views, v = p.view \/ r \in p.shares,
         View' = [View EXCEPT ![r] = v],
         reset_proposal' = [reset_proposal EXCEPT ![r] = p],
         UNCHANGED <<reset_share, reset_viewchange, reset_carry_over_proposal, aborted>>
  PROVE  RoundInv'
<1> DEFINE status == IF r \in p.shares THEN "NORMAL" ELSE recovery_status[r]
<1>1. /\ executed' = [executed EXCEPT ![r] = p]
      /\ recovery_status' = [recovery_status EXCEPT ![r] = status]
      /\ delay_queued' = [delay_queued EXCEPT ![r] = FALSE]
      /\ rotate_queued' = [rotate_queued EXCEPT ![r] = FALSE]
      /\ msgs' = msgs \cup {cert}
  BY DEF PR_Execute_Reset_Proposal
<1>2. cert \in Message /\ cert.type = "RESET_CERT"
  BY CertificateFields
<1>3. status \in {"STARTUP", "RESET", "NORMAL"}
  BY DEF RoundInv, TypeOK
<1>4. status # "NORMAL" => v = p.view
  OBVIOUS
<1> HIDE DEF status
<1>6. /\ executed' \in [Correct -> Proposal \cup {NoProposal}] /\ executed'[r] = p
      /\ recovery_status' \in [Correct -> {"STARTUP", "RESET", "NORMAL"}]
      /\ recovery_status'[r] = status
      /\ delay_queued' \in [Correct -> BOOLEAN] /\ ~delay_queued'[r]
      /\ rotate_queued' \in [Correct -> BOOLEAN]
      /\ View' \in [Correct -> Views] /\ View'[r] = v
      /\ reset_proposal' \in [Correct -> Proposal \cup {NoProposal}] /\ reset_proposal'[r] = p
  BY <1>1, <1>3 DEF RoundInv, TypeOK
<1>7. \A q \in Correct \ {r} :
        /\ View'[q] = View[q] /\ recovery_status'[q] = recovery_status[q]
        /\ reset_share'[q] = reset_share[q] /\ delay_queued'[q] = delay_queued[q]
        /\ reset_proposal'[q] = reset_proposal[q] /\ executed'[q] = executed[q]
  BY <1>1 DEF RoundInv, TypeOK
<1>8. msgs' \subseteq Message /\ VotesCorrect' /\ OneCommit' /\ CommitsAreMembers'
      /\ CommitsBacked' /\ ExecutedCommitted'
  <2>1. \A m \in msgs' \ msgs : /\ m \in Message /\ m.type = "RESET_CERT"
                                /\ m.proposal = p /\ (Committed(p) \/ m.made_up)
    BY <1>1, <1>2
  <2>2. Committed(p) \/ By_Copies(p)'
    BY <1>1, <1>2 DEF By_Copies
  <2>3. \A q \in Correct, x \in Proposal :
          executed'[q] = x => executed[q] = x \/ Committed(x) \/ By_Copies(x)'
    <3> SUFFICES ASSUME NEW q \in Correct, NEW x \in Proposal, executed'[q] = x
                 PROVE  executed[q] = x \/ Committed(x) \/ By_Copies(x)'
      OBVIOUS
    <3>1. CASE q = r
      <4>1. x = p
        BY <1>6, <3>1
      <4> QED
        BY <2>2, <4>1 DEF By_Copies
    <3>2. CASE q # r
      BY <1>7, <3>2
    <3> QED
      BY <3>1, <3>2
  <2> QED
    BY <1>1, <1>6, <2>1, <2>3, RoundMessages DEF VoteType
<1>9. LocalRound(r)'
  BY <1>4, <1>6 DEF LocalRound, Done, Runs_With
<1>10. DoneIsQuiet' /\ ProposalOfView' /\ ExecutedRunsWith'
  BY <1>7, <1>9, RoundLocal
<1>11. TypeOK'
  BY <1>6, <1>8 DEF RoundInv, TypeOK
<1> QED
  BY <1>8, <1>10, <1>11 DEF RoundInv

(* A quorum of Commits                                                     *)
LEMMA ProcessCommitRound ==
  ASSUME RoundInv, NEW r \in Correct, PR_Process_Reset_Commit(r)
  PROVE  RoundInv'
<1> DEFINE p == reset_proposal[r]
           cert == Own_Certificate(r)
<1>1. /\ Resetting(r) /\ p # NoProposal /\ Commit_Certificate(r, p)
      /\ PR_Execute_Reset_Proposal(r, p, cert)
      /\ UNCHANGED <<View, reset_share, roundVars, aborted>>
  BY DEF PR_Process_Reset_Commit
<1>2. /\ p \in Proposal /\ p.view = View[r] /\ Runs_With(r, p)
      /\ View = [View EXCEPT ![r] = p.view]
      /\ reset_proposal = [reset_proposal EXCEPT ![r] = p]
  BY <1>1 DEF RoundInv, TypeOK, ProposalOfView, Resetting, Done
<1>3. Committed(p)
  BY <1>1, VotersBacked DEF Commit_Certificate, Committed
<1>4. /\ View' = [View EXCEPT ![r] = p.view]
      /\ reset_proposal' = [reset_proposal EXCEPT ![r] = p]
      /\ UNCHANGED <<reset_share, reset_viewchange, reset_carry_over_proposal, aborted>>
  BY <1>1, <1>2 DEF roundVars
<1>5. p.view \in Views /\ cert \in Certificate /\ cert.proposal = p
  BY <1>2, ProposalFields DEF Own_Certificate, Certificate
<1> HIDE DEF p, cert
<1> QED
  BY <1>1, <1>2, <1>3, <1>4, <1>5, ExecuteRound

(* A certificate is one of others or a made up one.                        *)
LEMMA CertificatesAreOf ==
  ASSUME RoundInv, NEW r, NEW m \in Certificates(r)
  PROVE  /\ m \in Certificate /\ m.proposal \in Proposal
         /\ Committed(m.proposal) \/ m.made_up
         /\ Max_View(m.view, m.proposal.view) \in Views
<1>1. m.type = "RESET_CERT"
  BY DEF Certificates
<1>2. m \in Certificate /\ (Committed(m.proposal) \/ m.made_up)
  <2>1. CASE m \in msgs
    BY <1>1, <2>1, MessageFields DEF RoundInv, TypeOK, ExecutedCommitted
  <2>2. CASE m \notin msgs
    <3>1. PICK d \in Copies : d.mess = m
      BY <2>2 DEF Certificates
    <3>2. m \in NewLeaderProof \cup {c \in Certificate : c.made_up}
      BY <3>1, ResetBounds
    <3> QED
      BY <1>1, <3>2 DEF NewLeaderProof
  <2> QED
    BY <2>1, <2>2
<1>3. m.view \in Views /\ m.proposal \in Proposal /\ m.proposal.view \in Views
  BY <1>2, CertificateFields, ProposalFields
<1> QED
  BY <1>2, <1>3 DEF Max_View

(* What PR_Process_Reset_Certificate does with a certificate               *)
Adopts(r, m) ==
  /\ View' = [View EXCEPT ![r] = Max_View(m.view, m.proposal.view)]
  /\ reset_proposal' = [reset_proposal EXCEPT ![r] = m.proposal]
  /\ PR_Execute_Reset_Proposal(r, m.proposal, m)
  /\ UNCHANGED <<reset_share, reset_viewchange, reset_carry_over_proposal, aborted>>

(* A certificate of others                                                 *)
LEMMA ProcessCertificateRound ==
  ASSUME RoundInv, NEW r \in Correct, PR_Process_Reset_Certificate(r)
  PROVE  RoundInv'
<1> PICK m \in Certificates(r) :
      /\ Valid_For_Me(r, m.proposal)
      /\ \/ Adopts(r, m)
         \/ /\ aborted' = aborted \cup {r}
            /\ UNCHANGED <<View, recovery_status, reset_share, timerVars, roundVars,
                           executed, msgs>>
  BY DEF PR_Process_Reset_Certificate, Adopts
<1> DEFINE v == Max_View(m.view, m.proposal.view)
<1>1. /\ m \in Certificate /\ m.proposal \in Proposal /\ v \in Views
      /\ Committed(m.proposal) \/ m.made_up
  BY CertificatesAreOf
<1>2. r \in m.proposal.shares /\ Runs_With(r, m.proposal)
  BY DEF Valid_For_Me, Runs_With
<1>3. CASE Adopts(r, m)
  <2>1. View' = [View EXCEPT ![r] = v]
    BY <1>3 DEF Adopts
  <2> HIDE DEF v
  <2> QED
    BY <1>1, <1>2, <1>3, <2>1, ExecuteRound DEF Adopts
<1>4. CASE /\ aborted' = aborted \cup {r}
           /\ UNCHANGED <<View, recovery_status, reset_share, timerVars, roundVars,
                          executed, msgs>>
  <2>1. /\ UNCHANGED <<View, recovery_status, reset_share, delay_queued, roundVars, executed>>
        /\ rotate_queued' \in [Correct -> BOOLEAN] /\ aborted' \subseteq Correct
    BY <1>4 DEF RoundInv, TypeOK, timerVars
  <2> QED
    BY <1>4, <2>1, RoundSends
<1> QED
  BY <1>3, <1>4

(* A vote for the next leader                                              *)
LEMMA RotateRound ==
  ASSUME RoundInv, NEW r \in Correct, PR_Rotate_Reset_Leader(r)
  PROVE  RoundInv'
<1> DEFINE m == [type |-> "RESET_NEWLEADER", sender |-> r, view |-> View[r] + 1]
<1>1. /\ View[r] < MaxView
      /\ rotate_queued' = [rotate_queued EXCEPT ![r] = FALSE]
      /\ msgs' = msgs \cup {m}
      /\ UNCHANGED <<View, recovery_status, reset_share, delay_queued, roundVars,
                     executed, aborted>>
  BY DEF PR_Rotate_Reset_Leader
<1>2. View[r] + 1 \in Views
  BY <1>1, ResetBounds DEF RoundInv, TypeOK, Views
<1>3. m \in Message /\ m.type = "RESET_NEWLEADER"
  BY <1>2 DEF Message, Correct
<1> HIDE DEF m
<1>4. rotate_queued' \in [Correct -> BOOLEAN] /\ aborted' \subseteq Correct
  BY <1>1 DEF RoundInv, TypeOK
<1> QED
  BY <1>1, <1>3, <1>4, RoundSends DEF VoteType

(* The proposal that is reported is one, or none.                          *)
LEMMA CertifiedIsProposal ==
  ASSUME TypeOK, NEW r \in Correct
  PROVE  Certified_Proposal(r) \in Proposal \cup {NoProposal}
BY DEF Certified_Proposal, TypeOK

(* A replica that enters a view forgets the round of the one before.       *)
LEMMA StartViewChangeRound ==
  ASSUME RoundInv, NEW r \in Correct, NEW v \in Views, PR_Start_View_Change(r, v)
  PROVE  RoundInv'
<1> DEFINE proof == New_Leader_Proof(v)
           report == [type |-> "RESET_VIEWCHANGE", sender |-> r, view |-> v,
                      proposal |-> Certified_Proposal(r)]
<1>1. /\ View' = [View EXCEPT ![r] = v]
      /\ msgs' = msgs \cup {proof, report}
      /\ reset_proposal' = [reset_proposal EXCEPT ![r] = NoProposal]
      /\ reset_viewchange' = [reset_viewchange EXCEPT ![r] = {}]
      /\ reset_carry_over_proposal' = [reset_carry_over_proposal EXCEPT ![r] = NoProposal]
      /\ rotate_queued' = [rotate_queued EXCEPT ![r] = TRUE]
      /\ UNCHANGED <<recovery_status, reset_share, delay_queued, executed, aborted>>
  BY DEF PR_Start_View_Change
<1>2. /\ proof \in Message /\ proof.type = "RESET_NEWLEADERPROOF"
      /\ report \in Message /\ report.type = "RESET_VIEWCHANGE"
  BY CertifiedIsProposal DEF RoundInv, Message, NewLeaderProof, New_Leader_Proof, Correct
<1> HIDE DEF proof, report
<1>3. /\ View' \in [Correct -> Views]
      /\ reset_proposal' \in [Correct -> Proposal \cup {NoProposal}]
      /\ reset_proposal'[r] = NoProposal
      /\ reset_viewchange' \in [Correct -> SUBSET Servers]
      /\ reset_carry_over_proposal' \in [Correct -> Proposal \cup {NoProposal}]
      /\ rotate_queued' \in [Correct -> BOOLEAN]
      /\ \A q \in Correct \ {r} : View'[q] = View[q] /\ reset_proposal'[q] = reset_proposal[q]
  BY <1>1 DEF RoundInv, TypeOK
<1>4. msgs' \subseteq Message /\ VotesCorrect' /\ OneCommit' /\ CommitsAreMembers'
      /\ CommitsBacked' /\ ExecutedCommitted'
  BY <1>1, <1>2, RoundMessages DEF RoundInv, TypeOK, VoteType
<1>5. LocalRound(r)'
  BY <1>1, <1>3 DEF RoundInv, DoneIsQuiet, ExecutedRunsWith,
     LocalRound, Resetting, Done, Runs_With
<1>6. DoneIsQuiet' /\ ProposalOfView' /\ ExecutedRunsWith'
  BY <1>1, <1>3, <1>5, RoundLocal
<1>7. TypeOK'
  BY <1>1, <1>3, <1>4 DEF RoundInv, TypeOK
<1> QED
  BY <1>4, <1>6, <1>7 DEF RoundInv

(* The leader's list                                                       *)
LEMMA SendNewViewRound ==
  ASSUME RoundInv, NEW r \in Correct, Send_NewView(r)
  PROVE  RoundInv'
<1> PICK list \in SUBSET Senders(View_Changes(View[r])) :
      /\ msgs' = msgs \cup {New_View(View[r], list)}
      /\ UNCHANGED <<View, recovery_status, reset_share, timerVars, roundVars,
                     executed, aborted>>
  BY DEF Send_NewView
<1> DEFINE m == New_View(View[r], list)
<1>1. View[r] \in Views /\ list \subseteq Servers
  BY MessageFields DEF RoundInv, TypeOK, Senders, View_Changes
<1>2. m \in Message /\ m.type = "RESET_NEWVIEW" /\ msgs' = msgs \cup {m}
  BY <1>1 DEF Message, New_View
<1> HIDE DEF m
<1>3. /\ UNCHANGED <<View, recovery_status, reset_share, delay_queued, roundVars, executed>>
      /\ rotate_queued' \in [Correct -> BOOLEAN] /\ aborted' \subseteq Correct
  BY DEF RoundInv, TypeOK, timerVars
<1> QED
  BY <1>2, <1>3, RoundSends DEF VoteType

(* What a leader has signed is a proposal.                                 *)
LEMMA SignedIsProposal ==
  ASSUME TypeOK
  PROVE  Signed_Proposals \subseteq Proposal /\ \A r : Proposed(r) \subseteq Proposal
BY ResetBounds, MessageFields DEF TypeOK, Signed_Proposals, Proposed, VoteType

(* A Byzantine server's report                                             *)
LEMMA ByzantineRound ==
  ASSUME RoundInv, NEW b \in Byzantine, NEW v \in Views, Byzantine_ViewChange(b, v)
  PROVE  RoundInv'
<1> PICK p \in {NoProposal} \cup Signed_Proposals \cup Made_Up :
      /\ msgs' = msgs \cup {[type |-> "RESET_VIEWCHANGE", sender |-> b, view |-> v,
                             proposal |-> p]}
      /\ UNCHANGED <<View, recovery_status, reset_share, timerVars, roundVars,
                     executed, aborted>>
  BY DEF Byzantine_ViewChange
<1> DEFINE m == [type |-> "RESET_VIEWCHANGE", sender |-> b, view |-> v, proposal |-> p]
<1>1. p \in Proposal \cup {NoProposal} /\ b \in Servers
  BY SignedIsProposal, ResetBounds, FaultModel DEF RoundInv
<1>2. m \in Message /\ m.type = "RESET_VIEWCHANGE" /\ msgs' = msgs \cup {m}
  BY <1>1 DEF Message
<1> HIDE DEF m
<1>3. /\ UNCHANGED <<View, recovery_status, reset_share, delay_queued, roundVars, executed>>
      /\ rotate_queued' \in [Correct -> BOOLEAN] /\ aborted' \subseteq Correct
  BY DEF RoundInv, TypeOK, timerVars
<1> QED
  BY <1>2, <1>3, RoundSends DEF VoteType

(* What is carried over was reported.                                      *)
LEMMA CarriedOverReported ==
  ASSUME TypeOK, NEW list, NEW v
  PROVE  /\ Highest(list, v) \subseteq Proposal
         /\ Carried_Over(list, v) \in Proposal \cup {NoProposal}
         /\ Carried_Over(list, v) # NoProposal => Carried_Over(list, v) \in Highest(list, v)
         /\ Carried_Over(list, v) = NoProposal => Highest(list, v) = {}
<1>1. Highest(list, v) \subseteq Proposal
  BY MessageFields DEF Highest, Reports, View_Changes, TypeOK
<1>2. Highest(list, v) = {} \/ Carried_Over(list, v) \in Highest(list, v)
  BY DEF Carried_Over
<1>3. Highest(list, v) = {} => Carried_Over(list, v) = NoProposal
  BY DEF Carried_Over
<1> QED
  BY <1>1, <1>2, <1>3, ResetBounds

(* The state of the new view is complete.                                  *)
LEMMA CheckRound ==
  ASSUME RoundInv, NEW r \in Correct, NEW nv, NEW arrived \in SUBSET Servers, Resetting(r),
         PR_Check_Complete_VC_State(r, nv, arrived)
  PROVE  RoundInv'
<1> DEFINE carry == Carried_Over(nv.list, View[r])
           p == [view |-> View[r], shares |-> carry.shares, num_shares |-> carry.num_shares]
           entered == /\ reset_viewchange' = [reset_viewchange EXCEPT ![r] = arrived]
                      /\ reset_carry_over_proposal' =
                           [reset_carry_over_proposal EXCEPT ![r] = carry]
                      /\ UNCHANGED <<View, rotate_queued, executed, aborted>>
<1>1. \/ /\ aborted' = aborted \cup {r}
         /\ UNCHANGED <<View, recovery_status, reset_share, timerVars, roundVars,
                        executed, msgs>>
      \/ /\ entered
         /\ I_Am_Leader(r) /\ carry = NoProposal
         /\ delay_queued' = [delay_queued EXCEPT ![r] = TRUE]
         /\ UNCHANGED <<reset_proposal, recovery_status, reset_share, msgs>>
      \/ /\ entered
         /\ I_Am_Leader(r) /\ carry # NoProposal
         /\ reset_proposal' = [reset_proposal EXCEPT ![r] = p]
         /\ msgs' = msgs \cup {Vote("RESET_PROPOSAL", r, p)}
         /\ UNCHANGED <<delay_queued, recovery_status, reset_share>>
      \/ /\ entered
         /\ Consider_Proposal(r, reset_proposal[r], ~delay_queued[r], carry, recovery_status[r])
         /\ UNCHANGED <<delay_queued, reset_proposal>>
  BY DEF PR_Check_Complete_VC_State
<1>2. carry \in Proposal \cup {NoProposal} /\ View[r] \in Views
  BY CarriedOverReported DEF RoundInv, TypeOK
<1>3. carry # NoProposal => p \in Proposal /\ p.view = View[r]
  BY <1>2, ProposalFields DEF Proposal
<1>4. recovery_status[r] = "RESET" /\ ~Done(r)
  BY DEF Resetting, Done
<1> HIDE DEF carry, p
<1>5. entered => /\ reset_viewchange' \in [Correct -> SUBSET Servers]
                 /\ reset_carry_over_proposal' \in [Correct -> Proposal \cup {NoProposal}]
                 /\ UNCHANGED <<View, rotate_queued, executed, aborted>>
  BY <1>2 DEF RoundInv, TypeOK
<1> HIDE DEF entered
<1>6. CASE /\ aborted' = aborted \cup {r}
           /\ UNCHANGED <<View, recovery_status, reset_share, timerVars, roundVars,
                          executed, msgs>>
  <2>1. /\ UNCHANGED <<View, recovery_status, reset_share, delay_queued, roundVars, executed>>
        /\ rotate_queued' \in [Correct -> BOOLEAN] /\ aborted' \subseteq Correct
    BY <1>6 DEF RoundInv, TypeOK, timerVars
  <2> QED
    BY <1>6, <2>1, RoundSends
<1>7. CASE /\ entered
           /\ delay_queued' = [delay_queued EXCEPT ![r] = TRUE]
           /\ UNCHANGED <<reset_proposal, recovery_status, reset_share, msgs>>
  <2>1. /\ delay_queued' \in [Correct -> BOOLEAN]
        /\ \A q \in Correct \ {r} : delay_queued'[q] = delay_queued[q]
    BY <1>7 DEF RoundInv, TypeOK
  <2>2. LocalRound(r)'
    BY <1>4, <1>5, <1>7 DEF RoundInv, ProposalOfView, ExecutedRunsWith,
       LocalRound, Resetting, Done, Runs_With
  <2>3. DoneIsQuiet' /\ ProposalOfView' /\ ExecutedRunsWith'
    BY <1>5, <1>7, <2>1, <2>2, RoundLocal
  <2>4. msgs' \subseteq Message /\ VotesCorrect' /\ OneCommit' /\ CommitsAreMembers'
        /\ CommitsBacked' /\ ExecutedCommitted'
    BY <1>5, <1>7, RoundMessages DEF RoundInv, TypeOK
  <2>5. TypeOK'
    BY <1>5, <1>7, <2>1 DEF RoundInv, TypeOK
  <2> QED
    BY <2>3, <2>4, <2>5 DEF RoundInv
<1>8. CASE /\ entered
           /\ I_Am_Leader(r) /\ carry # NoProposal
           /\ reset_proposal' = [reset_proposal EXCEPT ![r] = p]
           /\ msgs' = msgs \cup {Vote("RESET_PROPOSAL", r, p)}
           /\ UNCHANGED <<delay_queued, recovery_status, reset_share>>
  <2>1. /\ recovery_status' = [recovery_status EXCEPT ![r] = "RESET"]
        /\ delay_queued' \in [Correct -> BOOLEAN]
    BY <1>4, <1>8 DEF RoundInv, TypeOK
  <2> QED
    BY <1>3, <1>4, <1>5, <1>8, <2>1, ProposeRound
<1>9. CASE /\ entered
           /\ Consider_Proposal(r, reset_proposal[r], ~delay_queued[r], carry, recovery_status[r])
           /\ UNCHANGED <<delay_queued, reset_proposal>>
  <2>1. /\ reset_proposal[r] \in Proposal \cup {NoProposal}
        /\ reset_proposal' \in [Correct -> Proposal \cup {NoProposal}]
        /\ delay_queued' \in [Correct -> BOOLEAN]
        /\ reset_proposal[r] # NoProposal =>
             reset_proposal[r].view = View[r] /\ Runs_With(r, reset_proposal[r])
    BY <1>4, <1>9 DEF RoundInv, TypeOK, ProposalOfView
  <2> QED
    BY <1>4, <1>5, <1>9, <2>1, ConsiderRound
<1> QED
  BY <1>1, <1>6, <1>7, <1>8, <1>9

(* The list of a RESET_NEWVIEW and the senders of RESET_VIEWCHANGEs        *)
LEMMA ListsAreServers ==
  ASSUME TypeOK, NEW v
  PROVE  /\ Senders(View_Changes(v)) \subseteq Servers
         /\ \A nv \in New_Views(v) : nv.list \subseteq Servers
<1>1. Senders(View_Changes(v)) \subseteq Servers
  BY MessageFields DEF TypeOK, Senders, View_Changes
<1>2. ASSUME NEW nv \in New_Views(v) PROVE nv.list \subseteq Servers
  <2>1. CASE nv \in msgs /\ nv.type = "RESET_NEWVIEW"
    BY <2>1, MessageFields DEF TypeOK
  <2>2. CASE \E list \in SUBSET Senders(View_Changes(v)) : nv = New_View(v, list)
    BY <1>1, <2>2 DEF New_View
  <2> QED
    BY <1>2, <2>1, <2>2 DEF New_Views
<1> QED
  BY <1>1, <1>2

(* The list of a RESET_NEWVIEW is there.                                   *)
LEMMA NewViewRound ==
  ASSUME RoundInv, NEW r \in Correct, PR_Process_Reset_NewView(r)
  PROVE  RoundInv'
<1> PICK nv \in New_Views(View[r]), more \in SUBSET Senders(View_Changes(View[r])) :
      Resetting(r) /\ PR_Check_Complete_VC_State(r, nv, nv.list \cup more)
  BY DEF PR_Process_Reset_NewView
<1>1. nv.list \cup more \in SUBSET Servers
  BY ListsAreServers DEF RoundInv
<1> QED
  BY <1>1, CheckRound

(* A RESET_VIEWCHANGE beyond the list                                      *)
LEMMA ViewChangeRound ==
  ASSUME RoundInv, NEW r \in Correct, PR_Process_Reset_ViewChange(r)
  PROVE  RoundInv'
<1> PICK nv \in New_Views(View[r]), q \in Senders(View_Changes(View[r])) :
      Resetting(r) /\ PR_Check_Complete_VC_State(r, nv, reset_viewchange[r] \cup {q})
  BY DEF PR_Process_Reset_ViewChange
<1>1. reset_viewchange[r] \cup {q} \in SUBSET Servers
  BY ListsAreServers DEF RoundInv, TypeOK
<1> QED
  BY <1>1, CheckRound

(* Every step preserves RoundInv.                                          *)
LEMMA RoundStep ==
  ASSUME RoundInv, [Next]_vars
  PROVE  RoundInv'
<1>1. CASE UNCHANGED vars
  <2>1. /\ UNCHANGED <<View, recovery_status, reset_share, delay_queued, roundVars, executed>>
        /\ rotate_queued' \in [Correct -> BOOLEAN] /\ aborted' \subseteq Correct
        /\ msgs' = msgs
    BY <1>1 DEF RoundInv, TypeOK, vars, timerVars
  <2> QED
    BY <2>1, RoundSends
<1>2. ASSUME NEW r \in Correct \ aborted, Step(r) PROVE RoundInv'
  <2>1. CASE \E q \in Late : PR_Process_Reset_Share(r, q)
    BY <2>1, ResetBounds, ResetShareRound
  <2>2. CASE PR_Post_Shares_Delay(r)
    BY <2>2, PostSharesDelayRound
  <2>3. CASE \E p \in Proposed(r) : PR_Process_Reset_Proposal(r, p)
    BY <2>3, ProcessProposalRound, SignedIsProposal DEF RoundInv
  <2>4. CASE PR_Process_Reset_Prepare(r) \/ PR_Process_Reset_Commit(r)
             \/ PR_Process_Reset_Certificate(r)
    BY <2>4, ProcessPrepareRound, ProcessCommitRound, ProcessCertificateRound
  <2>5. CASE PR_Rotate_Reset_Leader(r) \/ Send_NewView(r)
    BY <2>5, RotateRound, SendNewViewRound
  <2>6. CASE \E v \in Views : \/ PR_Process_Reset_NewLeader(r, v)
                              \/ PR_Process_Reset_NewLeaderProof(r, v)
    BY <2>6, StartViewChangeRound
       DEF PR_Process_Reset_NewLeader, PR_Process_Reset_NewLeaderProof
  <2>7. CASE PR_Process_Reset_NewView(r) \/ PR_Process_Reset_ViewChange(r)
    BY <2>7, NewViewRound, ViewChangeRound
  <2> QED
    BY <1>2, <2>1, <2>2, <2>3, <2>4, <2>5, <2>6, <2>7 DEF Step
<1> QED
  BY <1>1, <1>2, ByzantineRound DEF Next

-----------------------------------------------------------------------------
(* RoundInv holds for every number of views.                               *)
THEOREM ResetRounds == Spec => []RoundInv
<1>1. Init => RoundInv
  BY RoundInit
<1>2. RoundInv /\ [Next]_vars => RoundInv'
  BY RoundStep
<1> QED
  BY <1>1, <1>2, PTL DEF Spec

(* Every variable of the reset keeps its type: in particular a leader's    *)
(* own proposal and one it carries over count no more shares than servers. *)
THEOREM ResetTypeOK == Spec => []TypeOK
<1>1. RoundInv => TypeOK
  BY DEF RoundInv
<1> QED
  BY <1>1, ResetRounds, PTL

(* A replica that finishes the reset is part of the membership it starts   *)
(* with, unless it led the view of the proposal, in every number of views  *)
(* (PR_Execute_Reset_Proposal).                                            *)
THEOREM ResetMembers == Spec => []ExecutesAsMember
<1>1. RoundInv => ExecutesAsMember
  BY DEF RoundInv, ExecutedRunsWith, Runs_With, ExecutesAsMember
<1> QED
  BY <1>1, ResetRounds, PTL

(* All but f of a quorum are not Byzantine.                                *)
LEMMA CorrectOfQuorum ==
  ASSUME NEW A \in SUBSET Servers, Cardinality(A) >= Quorum
  PROVE  Cardinality(A \ Byzantine) >= F + K + 1
<1>1. /\ IsFiniteSet(A) /\ IsFiniteSet(A \ Byzantine) /\ IsFiniteSet(Byzantine)
  BY FaultModel, FS_Subset
<1>2. Cardinality(A) = Cardinality(A \ Byzantine) + Cardinality(A \cap Byzantine)
  <2>1. /\ Cardinality(A \ Byzantine) = Cardinality(A) - Cardinality(A \cap Byzantine)
    BY <1>1, FS_Difference
  <2>2. /\ Cardinality(A) \in Nat /\ Cardinality(A \cap Byzantine) \in Nat
    BY <1>1, FS_CardinalityType, FS_Intersection
  <2> QED
    BY <2>1, <2>2
<1>3. /\ Cardinality(A \cap Byzantine) \in Nat /\ Cardinality(Byzantine) \in Nat
      /\ Cardinality(A \cap Byzantine) <= Cardinality(Byzantine)
  <2>1. A \cap Byzantine \in SUBSET Servers /\ Byzantine \in SUBSET Servers
    BY FaultModel
  <2> QED
    BY <2>1, VotersMonotone
<1>4. Cardinality(A \ Byzantine) \in Nat
  BY <1>1, FS_CardinalityType
<1> QED
  BY <1>2, <1>3, <1>4, FaultModel DEF Quorum

(* A membership has f+k+1 servers that are not Byzantine, the leader       *)
(* counted in, in every number of views and whatever shares a proposal     *)
(* repeats, unless it was executed on a certificate made of copies: all    *)
(* who committed it have found themselves in it (valid_for_me).            *)
THEOREM ResetEnoughMembers == Spec => []EnoughMembers
<1>1. ASSUME RoundInv PROVE EnoughMembers
  <2> SUFFICES ASSUME NEW p \in Proposal, Committed(p)
               PROVE  Cardinality((p.shares \cup {UTIL_Leader_Of_View[p.view]}) \ Byzantine)
                        >= F + K + 1
    BY <1>1 DEF RoundInv, TypeOK, ExecutedCommitted, EnoughMembers
  <2> DEFINE M == (p.shares \cup {UTIL_Leader_Of_View[p.view]}) \ Byzantine
  <2>1. PICK A \in SUBSET Servers :
          /\ Cardinality(A) >= Quorum
          /\ \A s \in A \ Byzantine : Vote("RESET_COMMIT", s, p) \in msgs
    BY DEF Committed, Backed
  <2>2. A \ Byzantine \subseteq M
    <3> SUFFICES ASSUME NEW s \in A \ Byzantine PROVE s \in M
      OBVIOUS
    <3> DEFINE n == Vote("RESET_COMMIT", s, p)
    <3>1. n \in msgs /\ n.type = "RESET_COMMIT" /\ n.sender = s /\ n.proposal = p
      BY <2>1, VoteIsMessage DEF VoteType
    <3> HIDE DEF n
    <3>2. Runs_With(s, p)
      BY <1>1, <3>1 DEF RoundInv, CommitsAreMembers
    <3> QED
      BY <3>2 DEF Runs_With
  <2>3. A \ Byzantine \in SUBSET Servers /\ M \in SUBSET Servers
    BY ProposalFields, ResetBounds
  <2>4. Cardinality(A \ Byzantine) >= F + K + 1
    BY <2>1, CorrectOfQuorum
  <2> HIDE DEF M
  <2>5. /\ Cardinality(A \ Byzantine) \in Nat /\ Cardinality(M) \in Nat
        /\ Cardinality(A \ Byzantine) <= Cardinality(M)
    BY <2>2, <2>3, VotersMonotone
  <2>6. Cardinality(M) >= F + K + 1
    BY <2>4, <2>5, FaultModel
  <2> QED
    BY <2>6 DEF M
<1> QED
  BY <1>1, ResetRounds, PTL

(* Two proposals of a view that quorums have committed are the same.       *)
LEMMA CommittedOnce ==
  ASSUME RoundInv, NEW p \in Proposal, NEW q \in Proposal, Committed(p), Committed(q),
         p.view = q.view
  PROVE  p = q
<1>1. PICK A \in SUBSET Servers :
        /\ Cardinality(A) >= Quorum
        /\ \A s \in A \ Byzantine : Vote("RESET_COMMIT", s, p) \in msgs
  BY DEF Committed, Backed
<1>2. PICK B \in SUBSET Servers :
        /\ Cardinality(B) >= Quorum
        /\ \A s \in B \ Byzantine : Vote("RESET_COMMIT", s, q) \in msgs
  BY DEF Committed, Backed
<1>3. PICK s \in A \cap B : s \notin Byzantine
  BY <1>1, <1>2, QuorumsMeet
<1>4. Vote("RESET_COMMIT", s, p) \in msgs /\ Vote("RESET_COMMIT", s, q) \in msgs
  BY <1>1, <1>2, <1>3
<1>5. \A x \in Proposal : LET m == Vote("RESET_COMMIT", s, x) IN
        m.type = "RESET_COMMIT" /\ m.sender = s /\ m.proposal = x
  BY VoteIsMessage DEF VoteType
<1> QED
  BY <1>4, <1>5 DEF RoundInv, OneCommit

(* Replicas that execute proposals of the same view, by Commits or by a    *)
(* certificate, execute the same one, in every number of views, also if    *)
(* the leader proposes two and Prepare certificates for both exist.  The   *)
(* exception is a certificate made of copies.                              *)
ExecutedSameView ==
  \A r, q \in Correct :
    executed[r] # NoProposal /\ ~By_Copies(executed[r]) /\
    executed[q] # NoProposal /\ ~By_Copies(executed[q]) =>
      (executed[r].view = executed[q].view => executed[r] = executed[q])

(* See ExecutedSameView.                                                   *)
THEOREM ResetAgreementInView == Spec => []ExecutedSameView
<1>1. ASSUME RoundInv PROVE ExecutedSameView
  BY <1>1, CommittedOnce DEF RoundInv, TypeOK, ExecutedCommitted, ExecutedSameView
<1> QED
  BY <1>1, ResetRounds, PTL

-----------------------------------------------------------------------------
(* There are finitely many proposals.                                      *)
LEMMA ProposalsFinite == IsFiniteSet(Proposal)
<1> DEFINE Numbers == 0 .. Cardinality(Servers)
           T == (Views \X SUBSET Servers) \X Numbers
           f == [p \in Proposal |-> <<<<p.view, p.shares>>, p.num_shares>>]
<1>1. IsFiniteSet(Views) /\ IsFiniteSet(SUBSET Servers) /\ IsFiniteSet(Numbers)
  <2>1. 1 \in Int /\ MaxView \in Int
    BY ResetBounds
  <2>2. IsFiniteSet(Views)
    BY <2>1, FS_Interval DEF Views
  <2>3. IsFiniteSet(Servers)
    BY FaultModel
  <2>4. 0 \in Int /\ Cardinality(Servers) \in Int
    BY FaultModel
  <2>5. IsFiniteSet(Numbers)
    BY <2>4, FS_Interval
  <2> QED
    BY <2>2, <2>3, <2>5, FS_SUBSET
<1>2. IsFiniteSet(T)
  <2> HIDE DEF Numbers
  <2>1. IsFiniteSet(Views \X SUBSET Servers)
    BY <1>1, FS_Product
  <2> QED
    BY <1>1, <2>1, FS_Product
<1>3. f \in Injection(Proposal, T)
  <2>1. f \in [Proposal -> T]
    BY ProposalFields
  <2>2. ASSUME NEW p \in Proposal, NEW q \in Proposal, f[p] = f[q] PROVE p = q
    <3>1. p.view = q.view /\ p.shares = q.shares /\ p.num_shares = q.num_shares
      BY <2>2
    <3> QED
      BY <3>1 DEF Proposal
  <2> HIDE DEF f, T
  <2> QED
    BY <2>1, <2>2 DEF Injection, IsInjective
<1> QED
  BY <1>2, <1>3, FS_Injection

(* A set of proposals that has not more than one has no two.               *)
LEMMA AtMostOne ==
  ASSUME NEW S \in SUBSET Proposal, ~(Cardinality(S) > 1), NEW p \in S, NEW q \in S
  PROVE  p = q
<1>1. IsFiniteSet(S) /\ Cardinality(S) \in Nat
  BY ProposalsFinite, FS_Subset, FS_CardinalityType
<1>2. S # {}
  OBVIOUS
<1>3. Cardinality(S) = 1
  BY <1>1, <1>2, FS_EmptySet
<1>4. PICK x : S = {x}
  BY <1>1, <1>3, FS_Singleton
<1> QED
  BY <1>4

(* What is covered stays so.                                               *)
LEMMA CoveredGrows ==
  ASSUME msgs \subseteq msgs', NEW c, Covered(c)
  PROVE  Covered(c)'
BY DEF Covered, View_Changes

(* In the second view, if it is bound, what is carried over covers the     *)
(* reports.                                                                *)
LEMMA CarriedOverCovers ==
  ASSUME RoundInv, CarryInv, ~Unbound, NEW nv \in New_Views(2),
         ~(Cardinality(Highest(nv.list, 2)) > 1)
  PROVE  Covered(Carried_Over(nv.list, 2))
<1> DEFINE ps == {m.proposal : m \in Reports(nv.list, 2)}
           c == Carried_Over(nv.list, 2)
<1>1. \A p \in ps : p \in Proposal /\ p.view = 1
  <2> SUFFICES ASSUME NEW m \in View_Changes(2), m.proposal # NoProposal
               PROVE  m.proposal \in Proposal /\ m.proposal.view = 1
    BY DEF Reports
  <2>1. m \in msgs /\ m.type = "RESET_VIEWCHANGE" /\ m.view = 2
    BY DEF View_Changes
  <2>2. m.proposal \in Proposal
    BY <2>1, MessageFields DEF RoundInv, TypeOK
  <2>3. m.proposal.view \in Nat /\ m.proposal.view >= 1
    BY <2>2, ProposalFields, ResetBounds DEF Views
  <2>4. m.sender \in Byzantine => ~(m.proposal.view > 1)
    BY DEF Unbound
  <2>5. m.sender \notin Byzantine => m.proposal.view < 2
    BY <2>1 DEF CarryInv, ViewChangesLater
  <2> QED
    BY <2>2, <2>3, <2>4, <2>5
<1>2. Highest(nv.list, 2) = ps
  BY <1>1 DEF Highest
<1>3. ps \in SUBSET Proposal
  BY <1>1
<1>4. \A p \in ps : p = c
  <2> SUFFICES ASSUME NEW p \in ps PROVE p = c
    OBVIOUS
  <2>1. c \in ps
    BY <1>2, CarriedOverReported DEF RoundInv
  <2> HIDE DEF ps, c
  <2> QED
    BY <1>2, <1>3, <2>1, AtMostOne
<1>5. nv \in msgs /\ nv.list \in SUBSET Servers /\ Cardinality(nv.list) >= Quorum
      /\ nv.list \subseteq Senders(View_Changes(2))
  <2>1. nv \in msgs /\ nv.type = "RESET_NEWVIEW" /\ nv.view = 2
    BY DEF New_Views, Unbound
  <2> QED
    BY <2>1, MessageFields, FaultModel DEF RoundInv, TypeOK, CarryInv, ListsQuorum, Quorum
<1>6. ASSUME NEW q \in nv.list \ Byzantine
      PROVE  \E m \in View_Changes(2) : m.sender = q /\ m.proposal \in {NoProposal, c}
  <2>1. PICK m \in View_Changes(2) : m.sender = q
    BY <1>5 DEF Senders
  <2>2. m.proposal = NoProposal \/ m.proposal \in ps
    BY <2>1 DEF Reports
  <2> HIDE DEF ps, c
  <2> QED
    BY <1>4, <2>1, <2>2
<1> HIDE DEF c
<1>7. Covered(c)
  BY <1>5, <1>6 DEF Covered
<1> QED
  BY <1>7 DEF c

(* There is no RESET_NEWVIEW for the first view.                           *)
LEMMA NewViewsLater ==
  ASSUME CarryInv, NEW nv \in New_Views(1)
  PROVE  FALSE
<1>1. View_Changes(1) = {}
  BY DEF View_Changes, CarryInv, ViewChangesLater
<1>2. Senders(View_Changes(1)) = {}
  BY <1>1 DEF Senders
<1>3. nv \in msgs /\ nv.type = "RESET_NEWVIEW" /\ nv.view = 1
  <2>1. (SUBSET Senders(View_Changes(1))) \ {{}} = {}
    BY <1>2
  <2> QED
    BY <2>1 DEF New_Views
<1>4. nv.list = {} /\ Cardinality(nv.list) = Quorum
  BY <1>2, <1>3 DEF CarryInv, ListsQuorum
<1> QED
  BY <1>4, FS_EmptySet, FaultModel DEF Quorum

-----------------------------------------------------------------------------
(* What a step does to the state of a replica, as far as CarryInv goes     *)
LocalCarry(q) ==
  /\ Done(q) => Done(q)'
  /\ Done(q)' \/ View'[q] >= View[q]
  /\ View'[q] = 1 /\ ~Done(q)' =>
       /\ reset_viewchange'[q] = {}
       /\ delay_queued'[q] => Cardinality(reset_share'[q]) >= Quorum
       /\ UTIL_Leader_Of_View[1] = q /\ reset_proposal'[q] # NoProposal =>
            ~delay_queued'[q] /\ Cardinality(reset_share'[q]) >= Quorum
       /\ reset_proposal[q] # NoProposal => reset_proposal'[q] = reset_proposal[q]
  /\ View'[q] = 2 /\ reset_viewchange'[q] # {} /\ ~Done(q)' /\ ~Unbound =>
       Covered(reset_carry_over_proposal'[q])

(* ... and what it sends                                                   *)
CarryMessage(m) ==
  /\ m.type = "RESET_NEWLEADERPROOF" => m.view >= 2
  /\ m.type = "RESET_VIEWCHANGE" =>
       /\ m.view >= 2
       /\ m.sender \notin Byzantine /\ m.proposal # NoProposal => m.proposal.view < m.view
       /\ m.sender \in Correct => View'[m.sender] >= m.view
       /\ \A n \in msgs' :
            n.type = "RESET_COMMIT" /\ n.sender = m.sender =>
              (m.view = 2 /\ n.proposal.view = 1 => m.proposal = n.proposal)
  /\ m.type = "RESET_NEWVIEW" =>
       m.list \subseteq Senders(View_Changes(m.view)) /\ Cardinality(m.list) = Quorum
  /\ m.type = "RESET_COMMIT" =>
       /\ ~Done(m.sender) /\ m.proposal = reset_proposal[m.sender]
       /\ m.proposal.view = View[m.sender] /\ View'[m.sender] = View[m.sender]
  /\ m.type = "RESET_PREPARE" /\ m.proposal.view = 2 /\ ~Unbound =>
       \E c \in Proposal \cup {NoProposal} :
         Covered(c) /\ (c # NoProposal => m.proposal.shares = c.shares)

(* A step that does nothing else preserves CarryInv.                       *)
LEMMA CarryPreserved ==
  ASSUME RoundInv, RoundInv', CarryInv, msgs \subseteq msgs',
         \A m \in msgs' \ msgs : CarryMessage(m), \A q \in Correct : LocalCarry(q)
  PROVE  CarryInv'
<1>0. \A v : View_Changes(v) \subseteq View_Changes(v)'
  BY DEF View_Changes
<1>1. ViewChangesLater'
  BY DEF CarryInv, ViewChangesLater, CarryMessage
<1>2. ListsQuorum'
  <2> SUFFICES ASSUME NEW m \in msgs', m.type = "RESET_NEWVIEW"
               PROVE  m.list \subseteq Senders(View_Changes(m.view))' /\ Cardinality(m.list) = Quorum
    BY DEF ListsQuorum, Senders, View_Changes
  <2>1. m.list \subseteq Senders(View_Changes(m.view)) /\ Cardinality(m.list) = Quorum
    BY DEF CarryInv, ListsQuorum, CarryMessage
  <2>2. Senders(View_Changes(m.view)) \subseteq Senders(View_Changes(m.view))'
    BY <1>0 DEF Senders, View_Changes
  <2> QED
    BY <2>1, <2>2
<1>3. ReportedLeft'
  <2>0. \A q \in Correct : View[q] \in Nat /\ View'[q] \in Nat
    BY ResetBounds DEF RoundInv, TypeOK, Views
  <2>1. ASSUME NEW m \in msgs', m.type = "RESET_VIEWCHANGE", m.sender \in Correct
        PROVE  Done(m.sender)' \/ View'[m.sender] >= m.view
    <3>1. CASE m \in msgs
      <4>1. Done(m.sender) \/ View[m.sender] >= m.view
        BY <2>1, <3>1 DEF CarryInv, ReportedLeft
      <4>2. m.view \in Nat
        BY <2>1, MessageFields, ResetBounds DEF RoundInv, TypeOK, Views
      <4> QED
        BY <2>0, <2>1, <4>1, <4>2 DEF LocalCarry
    <3> QED
      BY <2>1, <3>1 DEF CarryMessage
  <2>2. ASSUME NEW m \in msgs', m.type = "RESET_COMMIT"
        PROVE  Done(m.sender)' \/ View'[m.sender] >= m.proposal.view
    <3>0. m.sender \in Correct /\ m.proposal \in Proposal
      BY <2>2, MessageFields DEF RoundInv, TypeOK, VotesCorrect, VoteType
    <3>1. m.proposal.view \in Nat
      BY <3>0, ProposalFields, ResetBounds DEF Views
    <3>2. CASE m \in msgs
      <4>1. Done(m.sender) \/ View[m.sender] >= m.proposal.view
        BY <2>2, <3>2 DEF CarryInv, ReportedLeft
      <4> QED
        BY <2>0, <3>0, <3>1, <4>1 DEF LocalCarry
    <3>3. CASE m \notin msgs
      BY <2>0, <2>2, <3>0, <3>1, <3>3 DEF CarryMessage
    <3> QED
      BY <3>2, <3>3
  <2> QED
    BY <2>1, <2>2 DEF ReportedLeft, Done
<1>4. FirstView'
  <2> SUFFICES ASSUME NEW q \in Correct, View'[q] = 1, ~Done(q)'
               PROVE  /\ reset_viewchange'[q] = {}
                      /\ delay_queued'[q] => Cardinality(reset_share'[q]) >= Quorum
                      /\ UTIL_Leader_Of_View[1] = q /\ reset_proposal'[q] # NoProposal =>
                           ~delay_queued'[q] /\ Cardinality(reset_share'[q]) >= Quorum
                      /\ \A m \in msgs' :
                           m.type = "RESET_COMMIT" /\ m.sender = q /\ m.proposal.view = 1 =>
                             reset_proposal'[q] = m.proposal
    BY DEF FirstView, I_Am_Leader, Done
  <2>1. View[q] = 1 /\ ~Done(q)
    BY ResetBounds DEF LocalCarry, RoundInv, TypeOK, Views
  <2>2. ASSUME NEW m \in msgs', m.type = "RESET_COMMIT", m.sender = q, m.proposal.view = 1
        PROVE  reset_proposal'[q] = m.proposal
    <3>1. m.proposal \in Proposal
      BY <2>2, MessageFields DEF RoundInv, TypeOK, VoteType
    <3>2. reset_proposal[q] = m.proposal
      BY <2>1, <2>2 DEF CarryInv, FirstView, CarryMessage
    <3> QED
      BY <3>1, <3>2, ProposalFields DEF LocalCarry
  <2> QED
    BY <2>2 DEF LocalCarry
<1>5. CommitReported'
  <2> SUFFICES ASSUME NEW m \in msgs', NEW n \in msgs', m.type = "RESET_VIEWCHANGE",
                      n.type = "RESET_COMMIT", m.sender = n.sender,
                      m.view = 2, n.proposal.view = 1
               PROVE  m.proposal = n.proposal
    BY DEF CommitReported
  <2>1. CASE m \in msgs /\ n \in msgs
    BY <2>1 DEF CarryInv, CommitReported
  <2>2. CASE m \notin msgs
    BY <2>2 DEF CarryMessage
  <2>3. CASE m \in msgs /\ n \notin msgs
    <3>1. n.sender \in Correct
      BY DEF RoundInv, VotesCorrect, VoteType
    <3>2. View[n.sender] >= 2 /\ View[n.sender] = 1
      BY <2>3, <3>1 DEF CarryInv, ReportedLeft, CarryMessage
    <3> QED
      BY <3>2
  <2> QED
    BY <2>1, <2>2, <2>3
<1>6. CarriedCovered'
  <2> SUFFICES ASSUME NEW q \in Correct, View'[q] = 2, reset_viewchange'[q] # {},
                      ~Done(q)', ~Unbound'
               PROVE  Covered(reset_carry_over_proposal[q])'
    BY DEF CarriedCovered, Done
  <2> DEFINE c == reset_carry_over_proposal'[q]
  <2>1. Covered(c)
    BY CopiesGrow DEF LocalCarry
  <2>2. \A x : Covered(x) => Covered(x)'
    BY CoveredGrows
  <2>3. PICK x : x = c
    OBVIOUS
  <2>4. Covered(x)'
    BY <2>1, <2>2, <2>3
  <2> QED
    BY <2>3, <2>4 DEF Covered, View_Changes
<1>7. PreparesCovered'
  <2> SUFFICES ASSUME NEW m \in msgs', m.type = "RESET_PREPARE", m.proposal.view = 2, ~Unbound'
               PROVE  \E c \in Proposal \cup {NoProposal} :
                        Covered(c)' /\ (c # NoProposal => m.proposal.shares = c.shares)
    BY DEF PreparesCovered
  <2>1. PICK c \in Proposal \cup {NoProposal} :
          Covered(c) /\ (c # NoProposal => m.proposal.shares = c.shares)
    BY CopiesGrow DEF CarryInv, PreparesCovered, CarryMessage
  <2> QED
    BY <2>1, CoveredGrows
<1> QED
  BY <1>1, <1>2, <1>3, <1>4, <1>5, <1>6, <1>7 DEF CarryInv

(* The initial states                                                      *)
LEMMA CarryInit ==
  ASSUME Init
  PROVE  CarryInv
<1>1. ViewChangesLater /\ ListsQuorum /\ ReportedLeft /\ CommitReported /\ PreparesCovered
  BY DEF Init, ViewChangesLater, ListsQuorum, ReportedLeft, CommitReported, PreparesCovered
<1>2. FirstView /\ CarriedCovered
  BY DEF Init, FirstView, CarriedCovered
<1> QED
  BY <1>1, <1>2 DEF CarryInv

(* A replica that takes no part in a step                                  *)
LEMMA LocalSame ==
  ASSUME RoundInv, CarryInv, NEW q \in Correct,
         View'[q] = View[q], recovery_status'[q] = recovery_status[q],
         reset_share'[q] = reset_share[q], delay_queued'[q] = delay_queued[q],
         reset_proposal'[q] = reset_proposal[q], reset_viewchange'[q] = reset_viewchange[q],
         reset_carry_over_proposal'[q] = reset_carry_over_proposal[q]
  PROVE  LocalCarry(q)
<1>1. View[q] \in Nat
  BY ResetBounds DEF RoundInv, TypeOK, Views
<1>2. View[q] = 2 /\ reset_viewchange[q] # {} /\ ~Done(q) /\ ~Unbound =>
        Covered(reset_carry_over_proposal[q])
  BY DEF CarryInv, CarriedCovered
<1>3. View[q] = 1 /\ ~Done(q) =>
        /\ reset_viewchange[q] = {}
        /\ delay_queued[q] => Cardinality(reset_share[q]) >= Quorum
        /\ UTIL_Leader_Of_View[1] = q /\ reset_proposal[q] # NoProposal =>
             ~delay_queued[q] /\ Cardinality(reset_share[q]) >= Quorum
  BY DEF CarryInv, FirstView, I_Am_Leader
<1> QED
  BY <1>1, <1>2, <1>3 DEF LocalCarry, Done

(* A step that sends, and changes nothing of this                          *)
LEMMA CarrySends ==
  ASSUME RoundInv, RoundInv', CarryInv, msgs \subseteq msgs',
         \A m \in msgs' \ msgs : CarryMessage(m),
         UNCHANGED <<View, recovery_status, reset_share, delay_queued, roundVars>>
  PROVE  CarryInv'
<1>1. \A q \in Correct : LocalCarry(q)
  BY LocalSame DEF roundVars
<1> QED
  BY <1>1, CarryPreserved

(* In the first view the leader that has proposed has a quorum of shares,  *)
(* so that one more does not queue the delay again.                        *)
LEMMA ResetShareCarry ==
  ASSUME RoundInv, RoundInv', CarryInv, NEW r \in Correct, NEW s \in Servers,
         PR_Process_Reset_Share(r, s)
  PROVE  CarryInv'
<1> DEFINE enough == Cardinality(reset_share'[r]) = Quorum /\ ~delay_queued[r]
<1>1. /\ s \notin reset_share[r]
      /\ reset_share' = [reset_share EXCEPT ![r] = reset_share[r] \cup {s}]
      /\ delay_queued' = [delay_queued EXCEPT ![r] = delay_queued[r] \/ enough]
      /\ UNCHANGED <<View, recovery_status, roundVars, executed, aborted, msgs>>
  BY DEF PR_Process_Reset_Share
<1>2. /\ reset_share'[r] = reset_share[r] \cup {s}
      /\ \A q \in Correct \ {r} : reset_share'[q] = reset_share[q]
  BY <1>1 DEF RoundInv, TypeOK
<1>3. /\ delay_queued'[r] <=> delay_queued[r] \/ enough
      /\ \A q \in Correct \ {r} : delay_queued'[q] = delay_queued[q]
  BY <1>1, Zenon DEF RoundInv, TypeOK
<1>4. /\ Cardinality(reset_share[r]) \in Nat
      /\ Cardinality(reset_share'[r]) = Cardinality(reset_share[r]) + 1
  <2>1. IsFiniteSet(reset_share[r])
    BY FaultModel, FS_Subset DEF RoundInv, TypeOK
  <2> QED
    BY <1>1, <1>2, <2>1, FS_AddElement, FS_CardinalityType
<1>5. Quorum \in Nat
  BY FaultModel DEF Quorum
<1>6. View[r] = 1 /\ ~Done(r) /\ UTIL_Leader_Of_View[1] = r /\ reset_proposal[r] # NoProposal =>
        ~delay_queued[r] /\ Cardinality(reset_share[r]) >= Quorum
  BY DEF CarryInv, FirstView, I_Am_Leader
<1>7. /\ View[r] = 1 /\ ~Done(r) /\ UTIL_Leader_Of_View[1] = r /\ reset_proposal[r] # NoProposal =>
           ~delay_queued[r] /\ ~enough /\ Cardinality(reset_share'[r]) >= Quorum
      /\ View[r] = 1 /\ ~Done(r) /\ (delay_queued[r] \/ enough) =>
           Cardinality(reset_share'[r]) >= Quorum
  <2>1. View[r] = 1 /\ ~Done(r) /\ delay_queued[r] => Cardinality(reset_share[r]) >= Quorum
    BY DEF CarryInv, FirstView
  <2> QED
    BY <1>4, <1>5, <1>6, <2>1
<1> HIDE DEF enough
<1>8. View[r] \in Nat
  BY ResetBounds DEF RoundInv, TypeOK, Views
<1>9. View[r] = 1 /\ ~Done(r) => reset_viewchange[r] = {}
  BY DEF CarryInv, FirstView
<1>10. LocalCarry(r)
  BY <1>1, <1>3, <1>7, <1>8, <1>9 DEF LocalCarry, Done, roundVars, CarryInv, CarriedCovered
<1>11. \A q \in Correct \ {r} : LocalCarry(q)
  BY <1>1, <1>2, <1>3, LocalSame DEF roundVars
<1> QED
  BY <1>1, <1>10, <1>11, CarryPreserved

(* A Prepare of the second view is sent once what is carried over is known.*)
LEMMA ConsiderCarry ==
  ASSUME NEW r, NEW p, NEW ready, NEW carry, NEW status,
         Consider_Proposal(r, p, ready, carry, status),
         RoundInv, r \in Correct, p \in Proposal \cup {NoProposal},
         status \in {"STARTUP", "RESET", "NORMAL"}, status # "NORMAL",
         carry \in Proposal \cup {NoProposal},
         ready /\ p # NoProposal /\ p.view = 2 /\ ~Unbound => Covered(carry)
  PROVE  /\ ~Done(r)'
         /\ \A q \in Correct \ {r} : /\ recovery_status'[q] = recovery_status[q]
                                     /\ reset_share'[q] = reset_share[q]
         /\ ready \/ reset_share' = reset_share
         /\ msgs \subseteq msgs'
         /\ \A m \in msgs' \ msgs : CarryMessage(m)
<1>1. /\ \A q \in Correct \ {r} : /\ recovery_status'[q] = recovery_status[q]
                                  /\ reset_share'[q] = reset_share[q]
      /\ \/ /\ recovery_status'[r] = status
            /\ reset_share' = reset_share /\ msgs' = msgs
         \/ /\ ready /\ p \in Proposal /\ Acceptable(r, p, reset_share[r], carry)
            /\ recovery_status'[r] = "RESET"
            /\ msgs' = msgs \cup {Vote("RESET_PREPARE", r, p)}
  BY ConsiderEffect DEF RoundInv
<1>2. ASSUME NEW m \in msgs' \ msgs PROVE CarryMessage(m)
  <2>1. /\ ready /\ p \in Proposal /\ Acceptable(r, p, reset_share[r], carry)
        /\ m = Vote("RESET_PREPARE", r, p)
    BY <1>1, <1>2
  <2>2. m.type = "RESET_PREPARE" /\ m.proposal = p
    BY <2>1, VoteIsMessage DEF VoteType, Correct
  <2>3. carry # NoProposal => p.shares = carry.shares
    BY <2>1 DEF Acceptable, Same_Content
  <2>4. p.view = 2 /\ ~Unbound => Covered(carry)
    BY <2>1, ProposalFields
  <2> QED
    BY <2>2, <2>3, <2>4 DEF CarryMessage
<1> QED
  BY <1>1, <1>2 DEF Done

(* The delay is over: in the first view the leader has not proposed yet.   *)
LEMMA PostSharesDelayCarry ==
  ASSUME RoundInv, RoundInv', CarryInv, NEW r \in Correct, PR_Post_Shares_Delay(r)
  PROVE  CarryInv'
<1> DEFINE status == IF View[r] = 1 /\ r \in reset_share[r] THEN "RESET" ELSE recovery_status[r]
           p == Own_Proposal(r)
           x == reset_proposal[r]
           ready == View[r] = 1 \/ reset_viewchange[r] # {}
           carry == reset_carry_over_proposal[r]
<1>1. /\ delay_queued[r]
      /\ delay_queued' = [delay_queued EXCEPT ![r] = FALSE]
      /\ UNCHANGED <<View, rotate_queued, reset_viewchange,
                     reset_carry_over_proposal, executed, aborted>>
  BY DEF PR_Post_Shares_Delay
<1>2. \/ /\ I_Am_Leader(r)
         /\ reset_proposal' = [reset_proposal EXCEPT ![r] = p]
         /\ msgs' = msgs \cup {Vote("RESET_PROPOSAL", r, p)}
         /\ recovery_status' = [recovery_status EXCEPT ![r] = status]
         /\ UNCHANGED reset_share
      \/ /\ ~I_Am_Leader(r)
         /\ Consider_Proposal(r, x, ready, carry, status)
         /\ UNCHANGED reset_proposal
  BY DEF PR_Post_Shares_Delay
<1>3. ~Done(r) /\ (View[r] = 1 => Cardinality(reset_share[r]) >= Quorum)
  BY <1>1 DEF RoundInv, DoneIsQuiet, CarryInv, FirstView
<1>4. status \in {"STARTUP", "RESET", "NORMAL"} /\ status # "NORMAL"
  BY <1>3 DEF RoundInv, TypeOK, Done
<1>5. /\ ~delay_queued'[r] /\ \A q \in Correct \ {r} : delay_queued'[q] = delay_queued[q]
  BY <1>1 DEF RoundInv, TypeOK
<1>6. View[r] \in Nat /\ View'[r] = View[r]
  BY <1>1, ResetBounds DEF RoundInv, TypeOK, Views
<1>7. /\ View[r] = 1 => reset_viewchange[r] = {}
      /\ View[r] = 1 /\ UTIL_Leader_Of_View[1] = r => reset_proposal[r] = NoProposal
      /\ View[r] = 2 /\ reset_viewchange[r] # {} /\ ~Unbound => Covered(carry)
  BY <1>1, <1>3 DEF CarryInv, FirstView, CarriedCovered, I_Am_Leader
<1>8. CASE /\ I_Am_Leader(r)
           /\ reset_proposal' = [reset_proposal EXCEPT ![r] = p]
           /\ msgs' = msgs \cup {Vote("RESET_PROPOSAL", r, p)}
           /\ recovery_status' = [recovery_status EXCEPT ![r] = status]
           /\ UNCHANGED reset_share
  <2>1. p \in Proposal
    BY OwnIsProposal DEF RoundInv
  <2>2. Vote("RESET_PROPOSAL", r, p).type = "RESET_PROPOSAL"
    BY DEF Vote
  <2> HIDE DEF p, status, carry
  <2>3. \A m \in msgs' \ msgs : CarryMessage(m)
    BY <1>8, <2>2 DEF CarryMessage
  <2>4. /\ recovery_status'[r] = status
        /\ \A q \in Correct \ {r} : /\ recovery_status'[q] = recovery_status[q]
                                    /\ reset_proposal'[q] = reset_proposal[q]
    BY <1>8 DEF RoundInv, TypeOK
  <2>5. LocalCarry(r)
    <3>1. ~Done(r)'
      BY <1>4, <2>4 DEF Done
    <3>2. reset_share'[r] = reset_share[r] /\ reset_viewchange'[r] = reset_viewchange[r]
          /\ reset_carry_over_proposal'[r] = carry
      BY <1>1, <1>8 DEF carry
    <3>3. View[r] = 1 => UTIL_Leader_Of_View[1] = r
      BY <1>8 DEF I_Am_Leader
    <3> QED
      BY <1>3, <1>5, <1>6, <1>7, <3>1, <3>2, <3>3 DEF LocalCarry
  <2>6. \A q \in Correct \ {r} : LocalCarry(q)
    BY <1>1, <1>5, <1>8, <2>4, LocalSame
  <2> QED
    BY <1>8, <2>3, <2>5, <2>6, CarryPreserved
<1>9. CASE /\ ~I_Am_Leader(r)
           /\ Consider_Proposal(r, x, ready, carry, status)
           /\ UNCHANGED reset_proposal
  <2>1. /\ x \in Proposal \cup {NoProposal} /\ carry \in Proposal \cup {NoProposal}
        /\ x # NoProposal => x.view = View[r]
    BY <1>3 DEF RoundInv, TypeOK, ProposalOfView
  <2>2. ready /\ x # NoProposal /\ x.view = 2 /\ ~Unbound => Covered(carry)
    BY <1>7, <2>1
  <2>3. reset_viewchange'[r] = reset_viewchange[r] /\ reset_carry_over_proposal'[r] = carry
        /\ reset_proposal'[r] = reset_proposal[r]
    BY <1>1, <1>9
  <2> HIDE DEF x, carry, ready, status
  <2>4. /\ ~Done(r)'
        /\ \A q \in Correct \ {r} : /\ recovery_status'[q] = recovery_status[q]
                                    /\ reset_share'[q] = reset_share[q]
        /\ msgs \subseteq msgs'
        /\ \A m \in msgs' \ msgs : CarryMessage(m)
    BY <1>4, <1>9, <2>1, <2>2, ConsiderCarry
  <2>5. LocalCarry(r)
    <3>1. View[r] = 1 => UTIL_Leader_Of_View[1] # r
      BY <1>9 DEF I_Am_Leader
    <3> QED
      BY <1>3, <1>5, <1>6, <1>7, <2>3, <2>4, <3>1 DEF LocalCarry
  <2>6. \A q \in Correct \ {r} : LocalCarry(q)
    BY <1>1, <1>5, <1>9, <2>4, LocalSame
  <2> QED
    BY <2>4, <2>5, <2>6, CarryPreserved
<1> QED
  BY <1>2, <1>8, <1>9

(* The first proposal of the view                                          *)
LEMMA ProcessProposalCarry ==
  ASSUME RoundInv, RoundInv', CarryInv, NEW r \in Correct, NEW p \in Proposal,
         PR_Process_Reset_Proposal(r, p)
  PROVE  CarryInv'
<1> DEFINE ready == ~delay_queued[r] /\ (View[r] = 1 \/ reset_viewchange[r] # {})
           carry == reset_carry_over_proposal[r]
           status == recovery_status[r]
<1>1. /\ Starting(r) /\ ~I_Am_Leader(r) /\ p.view = View[r]
      /\ reset_proposal[r] = NoProposal
      /\ reset_proposal' = [reset_proposal EXCEPT ![r] = p]
      /\ Consider_Proposal(r, p, ready, carry, status)
      /\ UNCHANGED <<View, timerVars, reset_viewchange, reset_carry_over_proposal,
                     executed, aborted>>
  BY DEF PR_Process_Reset_Proposal
<1>2. /\ status \in {"STARTUP", "RESET", "NORMAL"} /\ status # "NORMAL" /\ ~Done(r)
      /\ carry \in Proposal \cup {NoProposal}
  BY <1>1 DEF Starting, Done, RoundInv, TypeOK
<1>3. /\ View[r] \in Nat /\ View'[r] = View[r]
      /\ reset_viewchange'[r] = reset_viewchange[r] /\ reset_carry_over_proposal'[r] = carry
      /\ View[r] = 1 => UTIL_Leader_Of_View[1] # r
  BY <1>1, ResetBounds DEF RoundInv, TypeOK, Views, I_Am_Leader
<1>4. /\ View[r] = 1 => reset_viewchange[r] = {}
      /\ View[r] = 1 /\ delay_queued[r] => Cardinality(reset_share[r]) >= Quorum
      /\ View[r] = 2 /\ reset_viewchange[r] # {} /\ ~Unbound => Covered(carry)
  BY <1>2 DEF CarryInv, FirstView, CarriedCovered
<1>5. ready /\ p.view = 2 /\ ~Unbound => Covered(carry)
  BY <1>1, <1>4
<1>6. \A q \in Correct \ {r} : reset_proposal'[q] = reset_proposal[q]
  BY <1>1 DEF RoundInv, TypeOK
<1>7. delay_queued'[r] = delay_queued[r] /\ (delay_queued[r] => ~ready)
  BY <1>1 DEF timerVars
<1> HIDE DEF ready, carry, status
<1>8. /\ ~Done(r)'
      /\ ready \/ reset_share' = reset_share
      /\ \A q \in Correct \ {r} : /\ recovery_status'[q] = recovery_status[q]
                                  /\ reset_share'[q] = reset_share[q]
      /\ msgs \subseteq msgs'
      /\ \A m \in msgs' \ msgs : CarryMessage(m)
  BY <1>1, <1>2, <1>5, ConsiderCarry
<1>9. LocalCarry(r)
  BY <1>1, <1>2, <1>3, <1>4, <1>7, <1>8 DEF LocalCarry
<1>10. \A q \in Correct \ {r} : LocalCarry(q)
  BY <1>1, <1>6, <1>8, LocalSame DEF timerVars
<1> QED
  BY <1>8, <1>9, <1>10, CarryPreserved

(* A Commit is for the stored proposal.                                    *)
LEMMA ProcessPrepareCarry ==
  ASSUME RoundInv, RoundInv', CarryInv, NEW r \in Correct, PR_Process_Reset_Prepare(r)
  PROVE  CarryInv'
<1> DEFINE p == reset_proposal[r]
           c == Vote("RESET_COMMIT", r, p)
<1>1. /\ Resetting(r) /\ p # NoProposal /\ msgs' = msgs \cup {c}
      /\ UNCHANGED <<View, recovery_status, reset_share, timerVars, roundVars,
                     executed, aborted>>
  BY DEF PR_Process_Reset_Prepare
<1>2. p \in Proposal /\ p.view = View[r] /\ ~Done(r)
  BY <1>1 DEF RoundInv, TypeOK, ProposalOfView, Resetting, Done
<1>3. c.type = "RESET_COMMIT" /\ c.sender = r /\ c.proposal = reset_proposal[r]
  BY <1>2, VoteIsMessage DEF VoteType, Correct
<1>4. CarryMessage(c)
  BY <1>1, <1>2, <1>3 DEF CarryMessage
<1> HIDE DEF p, c
<1> QED
  BY <1>1, <1>4, CarrySends DEF timerVars

(* Executing changes no view, or is the end of a replica's reset.          *)
LEMMA ExecuteCarry ==
  ASSUME RoundInv, RoundInv', CarryInv, NEW r \in Correct, NEW p \in Proposal,
         NEW cert \in Certificate, PR_Execute_Reset_Proposal(r, p, cert), ~Done(r),
         NEW v \in Views, View' = [View EXCEPT ![r] = v],
         (v = View[r] /\ reset_proposal[r] = p) \/ r \in p.shares,
         reset_proposal' = [reset_proposal EXCEPT ![r] = p],
         UNCHANGED <<reset_share, reset_viewchange, reset_carry_over_proposal, aborted>>
  PROVE  CarryInv'
<1> DEFINE status == IF r \in p.shares THEN "NORMAL" ELSE recovery_status[r]
<1>1. /\ recovery_status' = [recovery_status EXCEPT ![r] = status]
      /\ delay_queued' = [delay_queued EXCEPT ![r] = FALSE]
      /\ msgs' = msgs \cup {cert}
  BY DEF PR_Execute_Reset_Proposal
<1>2. CarryMessage(cert)
  BY CertificateFields DEF CarryMessage
<1>3. Done(r)' <=> r \in p.shares
  BY <1>1 DEF Done, RoundInv, TypeOK
<1> HIDE DEF status
<1>4. /\ View'[r] = v /\ ~delay_queued'[r] /\ reset_proposal'[r] = p
      /\ \A q \in Correct \ {r} :
           /\ View'[q] = View[q] /\ recovery_status'[q] = recovery_status[q]
           /\ delay_queued'[q] = delay_queued[q] /\ reset_proposal'[q] = reset_proposal[q]
  BY <1>1 DEF RoundInv, TypeOK
<1>5. View[r] \in Nat
  BY ResetBounds DEF RoundInv, TypeOK, Views
<1>6. /\ View[r] = 1 => reset_viewchange[r] = {}
      /\ View[r] = 1 /\ UTIL_Leader_Of_View[1] = r /\ reset_proposal[r] # NoProposal =>
           Cardinality(reset_share[r]) >= Quorum
      /\ View[r] = 2 /\ reset_viewchange[r] # {} /\ ~Unbound =>
           Covered(reset_carry_over_proposal[r])
  BY DEF CarryInv, FirstView, CarriedCovered, I_Am_Leader
<1>8. LocalCarry(r)
  BY <1>3, <1>4, <1>5, <1>6 DEF LocalCarry
<1>9. \A q \in Correct \ {r} : LocalCarry(q)
  BY <1>4, LocalSame
<1> QED
  BY <1>1, <1>2, <1>8, <1>9, CarryPreserved

(* By Commits, or by a certificate                                         *)
LEMMA ProcessCommitCarry ==
  ASSUME RoundInv, RoundInv', CarryInv, NEW r \in Correct,
         PR_Process_Reset_Commit(r) \/ PR_Process_Reset_Certificate(r)
  PROVE  CarryInv'
<1>1. CASE PR_Process_Reset_Commit(r)
  <2> DEFINE p == reset_proposal[r]
             cert == Own_Certificate(r)
  <2>1. /\ Resetting(r) /\ p # NoProposal /\ PR_Execute_Reset_Proposal(r, p, cert)
        /\ UNCHANGED <<View, reset_share, roundVars, aborted>>
    BY <1>1 DEF PR_Process_Reset_Commit
  <2>2. p \in Proposal /\ p.view = View[r] /\ ~Done(r)
        /\ View = [View EXCEPT ![r] = p.view] /\ reset_proposal = [reset_proposal EXCEPT ![r] = p]
    BY <2>1 DEF RoundInv, TypeOK, ProposalOfView, Resetting, Done
  <2>3. /\ View' = [View EXCEPT ![r] = p.view]
        /\ reset_proposal' = [reset_proposal EXCEPT ![r] = p]
        /\ UNCHANGED <<reset_share, reset_viewchange, reset_carry_over_proposal, aborted>>
    BY <2>1, <2>2 DEF roundVars
  <2>4. reset_proposal[r] = p /\ p.view \in Views /\ cert \in Certificate
    BY <2>2, ProposalFields DEF Own_Certificate, Certificate, RoundInv, TypeOK
  <2> HIDE DEF p, cert
  <2> QED
    BY <2>1, <2>2, <2>3, <2>4, ExecuteCarry
<1>2. CASE PR_Process_Reset_Certificate(r)
  <2> PICK m \in Certificates(r) :
        /\ Starting(r) /\ Valid_For_Me(r, m.proposal)
        /\ \/ Adopts(r, m)
           \/ UNCHANGED <<View, recovery_status, reset_share, timerVars, roundVars,
                          executed, msgs>>
    BY <1>2 DEF PR_Process_Reset_Certificate, Adopts
  <2> DEFINE v == Max_View(m.view, m.proposal.view)
  <2>1. /\ m \in Certificate /\ m.proposal \in Proposal /\ v \in Views
        /\ r \in m.proposal.shares /\ ~Done(r)
    BY CertificatesAreOf DEF Valid_For_Me, Starting, Done
  <2>2. CASE Adopts(r, m)
    <3>1. View' = [View EXCEPT ![r] = v]
      BY <2>2 DEF Adopts
    <3> HIDE DEF v
    <3> QED
      BY <2>1, <2>2, <3>1, ExecuteCarry DEF Adopts
  <2>3. CASE UNCHANGED <<View, recovery_status, reset_share, timerVars, roundVars,
                         executed, msgs>>
    BY <2>3, CarrySends DEF timerVars
  <2> QED
    BY <2>2, <2>3
<1> QED
  BY <1>1, <1>2

(* What r reports for the second view is what it committed in the first.   *)
LEMMA StartViewChangeCarry ==
  ASSUME RoundInv, RoundInv', CarryInv, NEW r \in Correct, NEW v \in Views,
         Resetting(r), v > View[r], PR_Start_View_Change(r, v)
  PROVE  CarryInv'
<1> DEFINE proof == New_Leader_Proof(v)
           certified == Certified_Proposal(r)
           report == [type |-> "RESET_VIEWCHANGE", sender |-> r, view |-> v,
                      proposal |-> certified]
<1>1. /\ View' = [View EXCEPT ![r] = v]
      /\ msgs' = msgs \cup {proof, report}
      /\ reset_proposal' = [reset_proposal EXCEPT ![r] = NoProposal]
      /\ reset_viewchange' = [reset_viewchange EXCEPT ![r] = {}]
      /\ reset_carry_over_proposal' = [reset_carry_over_proposal EXCEPT ![r] = NoProposal]
      /\ UNCHANGED <<recovery_status, reset_share, delay_queued, executed, aborted>>
  BY DEF PR_Start_View_Change
<1>2. /\ View'[r] = v /\ reset_viewchange'[r] = {} /\ View[r] \in Nat /\ v \in Nat
      /\ View[r] >= 1 /\ v >= 2
      /\ \A q \in Correct \ {r} :
           /\ View'[q] = View[q] /\ reset_proposal'[q] = reset_proposal[q]
           /\ reset_viewchange'[q] = reset_viewchange[q]
           /\ reset_carry_over_proposal'[q] = reset_carry_over_proposal[q]
  BY <1>1, ResetBounds DEF RoundInv, TypeOK, Views
<1>3. certified # NoProposal => certified.view < v
  BY DEF Certified_Proposal, RoundInv, ProposalOfView, Resetting, Done
<1>4. ASSUME NEW n \in msgs, n.type = "RESET_COMMIT", n.sender = r, v = 2, n.proposal.view = 1
      PROVE  certified = n.proposal
  <2>1. View[r] = 1 /\ ~Done(r)
    BY <1>2, <1>4 DEF Resetting, Done
  <2>2. reset_proposal[r] = n.proposal
    BY <1>4, <2>1 DEF CarryInv, FirstView
  <2> QED
    BY <1>4, <2>1, <2>2 DEF Certified_Proposal, Sent_Commit
<1>5. CarryMessage(proof)
  BY <1>2 DEF CarryMessage, New_Leader_Proof
<1>6. CarryMessage(report)
  <2> HIDE DEF certified
  <2>1. \A n \in msgs' : n.type = "RESET_COMMIT" => n \in msgs
    BY <1>1 DEF New_Leader_Proof
  <2> QED
    BY <1>2, <1>3, <1>4, <2>1 DEF CarryMessage
<1> HIDE DEF proof, report
<1>7. LocalCarry(r)
  BY <1>1, <1>2 DEF LocalCarry, Resetting, Done
<1>8. \A q \in Correct \ {r} : LocalCarry(q)
  BY <1>1, <1>2, LocalSame
<1> QED
  BY <1>1, <1>5, <1>6, <1>7, <1>8, CarryPreserved

(* A vote for a leader, and the leader's list                              *)
LEMMA NewLeaderCarry ==
  ASSUME RoundInv, RoundInv', CarryInv, NEW r \in Correct,
         PR_Rotate_Reset_Leader(r) \/ Send_NewView(r)
  PROVE  CarryInv'
<1>1. CASE PR_Rotate_Reset_Leader(r)
  <2> DEFINE m == [type |-> "RESET_NEWLEADER", sender |-> r, view |-> View[r] + 1]
  <2>1. /\ msgs' = msgs \cup {m}
        /\ UNCHANGED <<View, recovery_status, reset_share, delay_queued, roundVars>>
    BY <1>1 DEF PR_Rotate_Reset_Leader
  <2>2. CarryMessage(m)
    BY DEF CarryMessage
  <2> HIDE DEF m
  <2> QED
    BY <2>1, <2>2, CarrySends
<1>2. CASE Send_NewView(r)
  <2> PICK list \in SUBSET Senders(View_Changes(View[r])) :
        /\ Cardinality(list) = Quorum
        /\ msgs' = msgs \cup {New_View(View[r], list)}
        /\ UNCHANGED <<View, recovery_status, reset_share, timerVars, roundVars,
                       executed, aborted>>
    BY <1>2 DEF Send_NewView
  <2> DEFINE m == New_View(View[r], list)
  <2>1. m.type = "RESET_NEWVIEW" /\ m.list \subseteq Senders(View_Changes(m.view))
        /\ Cardinality(m.list) = Quorum
    BY DEF New_View
  <2>2. CarryMessage(m)
    BY <2>1 DEF CarryMessage
  <2>3. msgs' = msgs \cup {m} /\ UNCHANGED delay_queued
    BY DEF timerVars
  <2> HIDE DEF m
  <2> QED
    BY <2>2, <2>3, CarrySends
<1> QED
  BY <1>1, <1>2

(* A Byzantine server reports in its own name.                             *)
LEMMA ByzantineCarry ==
  ASSUME RoundInv, RoundInv', CarryInv, NEW b \in Byzantine, NEW v \in Views,
         Byzantine_ViewChange(b, v)
  PROVE  CarryInv'
<1> PICK p \in {NoProposal} \cup Signed_Proposals \cup Made_Up :
      /\ New_Leader_Proof(v) \in msgs
      /\ msgs' = msgs \cup {[type |-> "RESET_VIEWCHANGE", sender |-> b, view |-> v,
                             proposal |-> p]}
      /\ UNCHANGED <<View, recovery_status, reset_share, timerVars, roundVars,
                     executed, aborted>>
  BY DEF Byzantine_ViewChange
<1> DEFINE m == [type |-> "RESET_VIEWCHANGE", sender |-> b, view |-> v, proposal |-> p]
<1>1. v >= 2 /\ b \notin Correct
  BY DEF CarryInv, ViewChangesLater, New_Leader_Proof, Correct
<1>2. \A n \in msgs' : n.type = "RESET_COMMIT" => n.sender # b
  BY <1>1 DEF RoundInv, VotesCorrect, VoteType
<1>3. CarryMessage(m)
  BY <1>1, <1>2 DEF CarryMessage
<1>4. msgs' = msgs \cup {m} /\ UNCHANGED delay_queued
  BY DEF timerVars
<1> HIDE DEF m
<1> QED
  BY <1>3, <1>4, CarrySends

(* The state of the new view is complete: in the second view, what r       *)
(* carries over covers the reports of a quorum.                            *)
LEMMA CheckCarry ==
  ASSUME RoundInv, RoundInv', CarryInv, NEW r \in Correct, NEW nv \in New_Views(View[r]),
         NEW arrived, Resetting(r), PR_Check_Complete_VC_State(r, nv, arrived)
  PROVE  CarryInv'
<1> DEFINE carry == Carried_Over(nv.list, View[r])
           p == [view |-> View[r], shares |-> carry.shares, num_shares |-> carry.num_shares]
           x == reset_proposal[r]
           ready == ~delay_queued[r]
           status == recovery_status[r]
           entered == /\ reset_viewchange' = [reset_viewchange EXCEPT ![r] = arrived]
                      /\ reset_carry_over_proposal' =
                           [reset_carry_over_proposal EXCEPT ![r] = carry]
                      /\ UNCHANGED <<View, rotate_queued, executed, aborted>>
                      /\ ~(Cardinality(Highest(nv.list, View[r])) > 1)
<1>1. \/ UNCHANGED <<View, recovery_status, reset_share, timerVars, roundVars, executed, msgs>>
      \/ /\ entered
         /\ delay_queued' = [delay_queued EXCEPT ![r] = TRUE]
         /\ UNCHANGED <<reset_proposal, recovery_status, reset_share, msgs>>
      \/ /\ entered
         /\ reset_proposal' = [reset_proposal EXCEPT ![r] = p]
         /\ msgs' = msgs \cup {Vote("RESET_PROPOSAL", r, p)}
         /\ UNCHANGED <<delay_queued, recovery_status, reset_share>>
      \/ /\ entered
         /\ Consider_Proposal(r, x, ready, carry, status)
         /\ UNCHANGED <<delay_queued, reset_proposal>>
  BY DEF PR_Check_Complete_VC_State
<1>2. /\ View[r] \in Nat /\ View[r] # 1
      /\ carry \in Proposal \cup {NoProposal}
  <2>1. View[r] # 1
    BY NewViewsLater
  <2>2. carry \in Proposal \cup {NoProposal}
    BY CarriedOverReported DEF RoundInv
  <2> QED
    BY <2>1, <2>2, ResetBounds DEF RoundInv, TypeOK, Views
<1>3. entered /\ View[r] = 2 /\ ~Unbound => Covered(carry)
  <2> SUFFICES ASSUME entered, View[r] = 2, ~Unbound PROVE Covered(carry)
    OBVIOUS
  <2>1. nv \in New_Views(2) /\ ~(Cardinality(Highest(nv.list, 2)) > 1)
        /\ carry = Carried_Over(nv.list, 2)
    OBVIOUS
  <2> HIDE DEF carry
  <2> QED
    BY <2>1, CarriedOverCovers
<1>4. /\ status \in {"STARTUP", "RESET", "NORMAL"} /\ status # "NORMAL" /\ ~Done(r)
      /\ x \in Proposal \cup {NoProposal} /\ (x # NoProposal => x.view = View[r])
  BY DEF RoundInv, TypeOK, ProposalOfView, Resetting, Done
<1> HIDE DEF carry
<1>5. entered => /\ View' = View /\ reset_carry_over_proposal'[r] = carry
                 /\ \A q \in Correct \ {r} :
                      /\ reset_viewchange'[q] = reset_viewchange[q]
                      /\ reset_carry_over_proposal'[q] = reset_carry_over_proposal[q]
  BY DEF RoundInv, TypeOK
<1> HIDE DEF entered
<1>6. ASSUME entered, ~Done(r)' PROVE LocalCarry(r)
  BY <1>2, <1>3, <1>4, <1>5, <1>6 DEF LocalCarry
<1>7. CASE UNCHANGED <<View, recovery_status, reset_share, timerVars, roundVars, executed, msgs>>
  BY <1>7, CarrySends DEF timerVars
<1>8. CASE /\ entered
           /\ delay_queued' = [delay_queued EXCEPT ![r] = TRUE]
           /\ UNCHANGED <<reset_proposal, recovery_status, reset_share, msgs>>
  <2>1. \A q \in Correct \ {r} : delay_queued'[q] = delay_queued[q]
    BY <1>8 DEF RoundInv, TypeOK
  <2>2. \A q \in Correct \ {r} : LocalCarry(q)
    BY <1>5, <1>8, <2>1, LocalSame
  <2>3. LocalCarry(r)
    BY <1>4, <1>6, <1>8 DEF Done
  <2> QED
    BY <1>8, <2>2, <2>3, CarryPreserved
<1>9. CASE /\ entered
           /\ reset_proposal' = [reset_proposal EXCEPT ![r] = p]
           /\ msgs' = msgs \cup {Vote("RESET_PROPOSAL", r, p)}
           /\ UNCHANGED <<delay_queued, recovery_status, reset_share>>
  <2>1. Vote("RESET_PROPOSAL", r, p).type = "RESET_PROPOSAL"
    BY DEF Vote
  <2> HIDE DEF p
  <2>2. \A m \in msgs' \ msgs : CarryMessage(m)
    BY <1>9, <2>1 DEF CarryMessage
  <2>3. \A q \in Correct \ {r} : reset_proposal'[q] = reset_proposal[q]
    BY <1>9 DEF RoundInv, TypeOK
  <2>4. \A q \in Correct \ {r} : LocalCarry(q)
    BY <1>5, <1>9, <2>3, LocalSame
  <2>5. LocalCarry(r)
    BY <1>4, <1>6, <1>9 DEF Done
  <2> QED
    BY <1>9, <2>2, <2>4, <2>5, CarryPreserved
<1>10. CASE /\ entered
            /\ Consider_Proposal(r, x, ready, carry, status)
            /\ UNCHANGED <<delay_queued, reset_proposal>>
  <2> HIDE DEF x, ready, status
  <2>1. /\ ~Done(r)'
        /\ \A q \in Correct \ {r} : /\ recovery_status'[q] = recovery_status[q]
                                    /\ reset_share'[q] = reset_share[q]
        /\ msgs \subseteq msgs'
        /\ \A m \in msgs' \ msgs : CarryMessage(m)
    BY <1>2, <1>3, <1>4, <1>10, ConsiderCarry
  <2>2. \A q \in Correct \ {r} : LocalCarry(q)
    BY <1>5, <1>10, <2>1, LocalSame
  <2> QED
    BY <1>6, <1>10, <2>1, <2>2, CarryPreserved
<1> QED
  BY <1>1, <1>7, <1>8, <1>9, <1>10

(* Every step preserves CarryInv.                                          *)
LEMMA CarryStep ==
  ASSUME RoundInv, RoundInv', CarryInv, [Next]_vars
  PROVE  CarryInv'
<1>1. CASE UNCHANGED vars
  BY <1>1, CarrySends DEF vars, timerVars
<1>2. ASSUME NEW r \in Correct \ aborted, Step(r) PROVE CarryInv'
  <2>1. CASE \E q \in Late : PR_Process_Reset_Share(r, q)
    BY <2>1, ResetBounds, ResetShareCarry
  <2>2. CASE PR_Post_Shares_Delay(r)
    BY <2>2, PostSharesDelayCarry
  <2>3. CASE \E p \in Proposed(r) : PR_Process_Reset_Proposal(r, p)
    BY <2>3, ProcessProposalCarry, SignedIsProposal DEF RoundInv
  <2>4. CASE PR_Process_Reset_Prepare(r) \/ PR_Process_Reset_Commit(r)
             \/ PR_Process_Reset_Certificate(r)
    BY <2>4, ProcessPrepareCarry, ProcessCommitCarry
  <2>5. CASE PR_Rotate_Reset_Leader(r) \/ Send_NewView(r)
    BY <2>5, NewLeaderCarry
  <2>6. CASE \E v \in Views : \/ PR_Process_Reset_NewLeader(r, v)
                              \/ PR_Process_Reset_NewLeaderProof(r, v)
    BY <2>6, StartViewChangeCarry
       DEF PR_Process_Reset_NewLeader, PR_Process_Reset_NewLeaderProof
  <2>7. CASE PR_Process_Reset_NewView(r) \/ PR_Process_Reset_ViewChange(r)
    BY <2>7, CheckCarry DEF PR_Process_Reset_NewView, PR_Process_Reset_ViewChange
  <2> QED
    BY <1>2, <2>1, <2>2, <2>3, <2>4, <2>5, <2>6, <2>7 DEF Step
<1> QED
  BY <1>1, <1>2, ByzantineCarry DEF Next

(* Both invariants, for every number of views                              *)
THEOREM ResetInvariant == Spec => [](RoundInv /\ CarryInv)
<1>1. Init => RoundInv /\ CarryInv
  BY RoundInit, CarryInit
<1>2. RoundInv /\ CarryInv /\ [Next]_vars => (RoundInv /\ CarryInv)'
  BY RoundStep, CarryStep
<1> QED
  BY <1>1, <1>2, PTL DEF Spec

-----------------------------------------------------------------------------
(* The quorum that committed p in the first view has one that is not       *)
(* Byzantine in every quorum of reports, and it reports p.                 *)
LEMMA CoveredCarries ==
  ASSUME RoundInv, CarryInv, NEW p \in Proposal, Committed(p), p.view = 1,
         NEW c, Covered(c)
  PROVE  c = p
<1>1. PICK A \in SUBSET Servers :
        /\ Cardinality(A) >= Quorum
        /\ \A s \in A \ Byzantine : Vote("RESET_COMMIT", s, p) \in msgs
  BY DEF Committed, Backed
<1>2. PICK L \in SUBSET Servers :
        /\ Cardinality(L) >= Quorum
        /\ \A q \in L \ Byzantine : \E m \in View_Changes(2) :
             m.sender = q /\ m.proposal \in {NoProposal, c}
  BY DEF Covered
<1>3. PICK s \in A \cap L : s \notin Byzantine
  BY <1>1, <1>2, QuorumsMeet
<1>4. PICK m \in View_Changes(2) : m.sender = s /\ m.proposal \in {NoProposal, c}
  BY <1>2, <1>3
<1> DEFINE n == Vote("RESET_COMMIT", s, p)
<1>5. n \in msgs /\ n.type = "RESET_COMMIT" /\ n.sender = s /\ n.proposal = p
  BY <1>1, <1>3, VoteIsMessage DEF VoteType
<1>6. m \in msgs /\ m.type = "RESET_VIEWCHANGE" /\ m.view = 2
  BY <1>4 DEF View_Changes
<1> HIDE DEF n
<1>7. m.proposal = p
  BY <1>4, <1>5, <1>6 DEF CarryInv, CommitReported
<1> QED
  BY <1>4, <1>7, ProposalFields

(* What a quorum committed in the first view is all that a quorum can      *)
(* commit in the second, if that is bound.                                 *)
LEMMA CommittedCarries ==
  ASSUME RoundInv, CarryInv, ~Unbound, NEW p \in Proposal, Committed(p), p.view = 1,
         NEW q \in Proposal, Committed(q), q.view = 2
  PROVE  q.shares = p.shares
<1>1. PICK A \in SUBSET Servers :
        /\ Cardinality(A) >= Quorum
        /\ \A s \in A \ Byzantine : Vote("RESET_COMMIT", s, q) \in msgs
  BY DEF Committed, Backed
<1>2. PICK s \in A : s \notin Byzantine
  BY <1>1, QuorumsMeet
<1> DEFINE n == Vote("RESET_COMMIT", s, q)
<1>3. n \in msgs /\ n.type = "RESET_COMMIT" /\ n.proposal = q
  BY <1>1, <1>2, VoteIsMessage DEF VoteType
<1> HIDE DEF n
<1>4. Backed("RESET_PREPARE", q, Quorum - 1)
  BY <1>3 DEF RoundInv, CommitsBacked
<1>5. PICK B \in SUBSET Servers :
        /\ Cardinality(B) >= Quorum - 1
        /\ \A t \in B \ Byzantine : Vote("RESET_PREPARE", t, q) \in msgs
  BY <1>4 DEF Backed
<1>6. Cardinality(B) >= F + 1
  <2>1. Cardinality(B) \in Nat
    BY VotersMonotone
  <2> QED
    BY <1>5, <2>1, FaultModel DEF Quorum
<1>7. PICK t \in B : t \notin Byzantine
  BY <1>6, HonestVoter
<1> DEFINE m == Vote("RESET_PREPARE", t, q)
<1>8. m \in msgs /\ m.type = "RESET_PREPARE" /\ m.proposal = q
  BY <1>5, <1>7, VoteIsMessage DEF VoteType
<1> HIDE DEF m
<1>9. PICK c \in Proposal \cup {NoProposal} :
        Covered(c) /\ (c # NoProposal => q.shares = c.shares)
  BY <1>8 DEF CarryInv, PreparesCovered
<1>10. c = p
  BY <1>9, CoveredCarries
<1> QED
  BY <1>9, <1>10, ProposalFields

(* Replicas that finish a reset run with the same membership: within every *)
(* view, and in the second with that of the first.  Copies is any set of   *)
(* certificates and proofs made of copies, and Made_Up any set of          *)
(* proposals that Byzantine servers sign to report them; the exceptions of *)
(* ResetAgreement, a certificate of copies and a second view that is not   *)
(* bound, are all that they need.                                          *)
THEOREM ResetAgrees == Spec => []ResetAgreement
<1>1. RoundInv /\ CarryInv => ResetAgreement
  <2> SUFFICES ASSUME RoundInv, CarryInv, NEW p \in Proposal, NEW q \in Proposal,
                      Committed(p), Committed(q),
                      p.view = q.view \/ (p.view = 1 /\ q.view = 2 /\ ~Unbound)
               PROVE  p.shares = q.shares
    BY DEF ResetAgreement, RoundInv, TypeOK, ExecutedCommitted
  <2>1. CASE p.view = q.view
    BY <2>1, CommittedOnce
  <2>2. CASE p.view = 1 /\ q.view = 2 /\ ~Unbound
    BY <2>2, CommittedCarries
  <2> QED
    BY <2>1, <2>2
<1> QED
  BY <1>1, ResetInvariant, PTL

(* What is executed in the first view is carried over by every replica     *)
(* that completes the change to the second (PR_Check_Complete_VC_State),   *)
(* with the exceptions of ResetAgreement and however many views follow.    *)
THEOREM ResetCarriesOver == Spec => []ExecutedIsCarriedOver
<1>1. RoundInv /\ CarryInv => ExecutedIsCarriedOver
  <2> SUFFICES ASSUME RoundInv, CarryInv, NEW r \in Correct, NEW q \in Correct,
                      executed[r] # NoProposal, ~By_Copies(executed[r]),
                      executed[r].view = 1, Resetting(q), View[q] = 2,
                      reset_viewchange[q] # {}, ~Unbound
               PROVE  /\ reset_carry_over_proposal[q] # NoProposal
                      /\ Same_Content(executed[r], reset_carry_over_proposal[q])
    BY DEF ExecutedIsCarriedOver
  <2>1. executed[r] \in Proposal /\ Committed(executed[r])
    BY DEF RoundInv, TypeOK, ExecutedCommitted
  <2>2. Covered(reset_carry_over_proposal[q])
    BY DEF CarryInv, CarriedCovered, Resetting, Done
  <2>3. reset_carry_over_proposal[q] = executed[r]
    BY <2>1, <2>2, CoveredCarries
  <2> QED
    BY <2>3 DEF Same_Content
<1> QED
  BY <1>1, ResetInvariant, PTL
=============================================================================
