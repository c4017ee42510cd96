---- MODULE MCOrdering ----
EXTENDS Ordering, TLC

CONSTANTS s1, s2, s3, s4

FirstByzantine == [v \in Views |-> IF v = 1 THEN s4 ELSE s1]

FirstCorrect == [v \in Views |-> s1]

PP(s, le, aru) == [seq |-> s, view |-> 1, last_executed |-> le, proof_aru |-> aru]

Lie(types, pps, to) == [type : types, pp : pps, to : to]

(* Two proposals for the first sequence number, one of which needs a       *)
(* PO-Request, and one for the second that follows only that one; to two   *)
(* replicas, from which the third gets them by flooding.  Prepares are left*)
(* out: nobody counts one of the leader.                                   *)
TwoThenOne ==
  Lie({"PRE_PREPARE", "COMMIT"}, {PP(1, 0, 0), PP(1, 0, 1), PP(2, 1, 1)}, {s2, s3})

(* One proposal to each of two replicas *)
OneToEach ==
  Lie({"PRE_PREPARE"}, {PP(1, 0, 1)}, {s1}) \cup
  Lie({"PRE_PREPARE"}, {PP(1, 0, 0)}, {s2})

(* The replicas that no constant tells apart *)
NeverLeading == Permutations({s2, s3})

(* One sequence number: everyone has the PO-Request before anything else   *)
(* happens, and replicas leave the view.                                   *)
Leaving ==
  /\ \A r \in Correct : pre_prepare[r][2] = NoPP /\ commit[r][2][s4] = NoPP
  /\ \/ \A r \in Correct : cum_aru[r] = 1
     \/ msgs = {} /\ \A r \in Correct : View[r] = 1 /\ commit[r][1][s4] = NoPP

(* Two sequence numbers and one view, in which s1 takes no part *)
Chaining ==
  /\ \A r \in Correct : View[r] = 1
  /\ cum_aru[s1] = 0
  /\ \A s \in Seqs :
       /\ pre_prepare[s1][s] = NoPP
       /\ \A q \in Servers : prepare[s1][s][q] = NoPP /\ commit[s1][s][q] = NoPP

(* s4 commits to each replica what that one has accepted: a Commit for     *)
(* anything else counts for nothing.                                       *)
VotesThatCount ==
  \A r \in Correct, s \in Seqs : commit[r][s][s4] \in {NoPP, pre_prepare[r][s]}

LeavingOrChaining == VotesThatCount /\ (Leaving \/ Chaining)

(* A VIEW that leaves out leader_suspected, which no safety property and no*)
(* guard but its own reads, and the votes of a slot that has what they were*)
(* collected for: a vote is only compared with NoPP from then on, and the   *)
(* one effect of storing another is that it is stored.                     *)
Stored(votes, r, s, used) == IF used THEN {} ELSE votes[r][s]
Relevant ==
  <<View, view_change_done, report, pre_prepare, prepare_certificate, ordered,
    [r \in Correct |-> [s \in Seqs |->
       Stored(prepare, r, s, prepare_certificate[r][s] # NoPP \/ s \in ordered[r])]],
    [r \in Correct |-> [s \in Seqs |-> Stored(commit, r, s, s \in ordered[r])]],
    execVars, poVars, seq, msgs>>
====
