---- MODULE MCSystemReset ----
EXTENDS SystemReset, TLC

CONSTANTS s1, s2, s3, s4

(* The servers lead in turn, from s4 on *)
S4First == [v \in Views |-> IF v = 1 THEN s4 ELSE s1]

(* What s4 signs itself, to report it in the change to the second view     *)
LaterView == [view |-> 2, shares |-> {s1, s2, s3}, num_shares |-> 3]
OnlyS4 == [view |-> 2, shares |-> {s4}, num_shares |-> 3]
OfLaterView == {LaterView, OnlyS4}

(* Two proposals by s4 in the first view: one without the share of s1 to s2*)
(* and s3, one with it to s1, who leads next; and its votes for both, and  *)
(* for one of those that it reports                                        *)
Without1 == [view |-> 1, shares |-> {s2, s3}, num_shares |-> 3]
WithAll == [view |-> 1, shares |-> Servers, num_shares |-> 4]
TwoProposals ==
  [type : {"RESET_PROPOSAL"}, proposal : {Without1}, to : {s2, s3}] \cup
  [type : {"RESET_PROPOSAL"}, proposal : {WithAll}, to : {s1}] \cup
  [type : {"RESET_PREPARE", "RESET_COMMIT"},
   proposal : {Without1, WithAll, LaterView}, to : {s1, s2, s3}]

(* A certificate made of copies of one Commit, for a proposal of s1's      *)
(* share alone, to s1, and a proof made of copies of one RESET_NEWLEADER,  *)
(* to s2 and s3                                                            *)
CopiedCommits ==
  [type |-> "RESET_CERT", view |-> 1, made_up |-> TRUE,
   proposal |-> [view |-> 1, shares |-> {s1}, num_shares |-> 3]]
MadeOfCopies ==
  [to : {s1}, mess : {CopiedCommits}] \cup [to : {s2, s3}, mess : {New_Leader_Proof(2)}]

NeverLeading == Permutations({s2, s3})

(* What can still make a difference: a replica that has ended or stopped   *)
(* no longer looks at what it has, and once there is a proof for the       *)
(* second view, it is not needed that anybody asks for it.                 *)
Active == {r \in Correct \ aborted : recovery_status[r] # "NORMAL"}
Proved == New_Leader_Proof(2) \in msgs
Relevant ==
  <<executed, aborted,
    [r \in Active |->
       <<View[r], recovery_status[r], reset_share[r], delay_queued[r],
         reset_proposal[r], reset_viewchange[r], reset_carry_over_proposal[r]>>],
    {r \in Active : rotate_queued[r] /\ ~Proved},
    {m \in msgs : m.type = "RESET_NEWLEADER" => ~Proved}>>
====
