---- MODULE MCViewChange ----
EXTENDS ViewChange, MCOrdering

IDs == [s \in Servers |-> CASE s = s1 -> 1 [] s = s2 -> 2 [] s = s3 -> 3 [] OTHER -> 4]

(* UTIL_Leader_Of_View: the servers lead in turn, from s1 or from s4 *)
InTurn == [v \in Views |-> CASE v = 1 -> s1 [] v = 2 -> s2 [] OTHER -> s3]
S4First == [v \in Views |-> CASE v = 1 -> s4 [] v = 2 -> s1 [] OTHER -> s2]

(* The lists agreed on: all but one server, by view *)
Without(out) == [v \in Views |-> {Servers \ {out[v]}}]
Without1Or4 == [v \in Views |-> {Servers \ {s1}, Servers \ {s4}}]
Without1 == Without([v \in Views |-> s1])
Without4 == Without([v \in Views |-> s4])
Without4Then1 == Without([v \in Views |-> IF v = 2 THEN s4 ELSE s1])
Without1Then2 == Without([v \in Views |-> IF v = 2 THEN s1 ELSE s2])

-----------------------------------------------------------------------------
(* Constraints: who hears what.  They leave out interleavings of messages  *)
(* that do not matter for the question of a run.                           *)

(* Nobody but R receives the votes *)
OnlyTo(R, votes) ==
  \A r \in Correct \ R : \A s \in Seqs, q \in Servers : votes[r][s][q] = NoPP
(* r takes no part in agreeing on the Replay of view v *)
Silent(r, v) ==
  /\ r \notin replay_prepare[v] \cup replay_commit[v]
  /\ \A signed \in vc_partial_sig[v] : signed[2] # r
Proposed(v) == \E m \in msgs : m.pp.view = v
Hears_Nothing_Of(r, v) ==
  \A s \in Seqs : pre_prepare[r][s] # NoPP => pre_prepare[r][s].view # v

(* One sequence number: s1 stays behind in the first view, of which s4 has *)
(* heard nothing, and executes there while the others replay into the      *)
(* second and order there.                                                 *)
Apart ==
  /\ View[s1] = 1 /\ Hears_Nothing_Of(s4, 1)
  /\ OnlyTo({s1, s2, s3}, commit)
  /\ \A m \in msgs : m.pp.seq = 1 /\ m.pp.proof_aru = 0

(* Two sequence numbers: s1 may get a certificate for the first and s2 for *)
(* the second, and nothing is executed before the Replay; s4 takes no      *)
(* part, and the second view only replays.                                 *)
Gaps ==
  /\ OnlyTo({}, commit) /\ OnlyTo({s1, s2}, prepare) /\ ~Proposed(2)
  /\ \A q \in Servers : prepare[s1][2][q] = NoPP /\ prepare[s2][1][q] = NoPP
  /\ View[s4] = 1 /\ Hears_Nothing_Of(s4, 1)

ApartOrGaps == Apart \/ Gaps

(* s1 alone holds a certificate of view 1, and it alone executes the       *)
(* Replay of view 2 before the others go on to view 3                      *)
Overtaken ==
  /\ ~Proposed(2)
  /\ OnlyTo({s1}, prepare) /\ OnlyTo({}, commit)
  /\ Hears_Nothing_Of(s4, 1)
  /\ Silent(s4, 2) /\ Silent(s1, 3)
  /\ \A r \in {s2, s3, s4} : View[r] = 2 => ~view_change_done[r]

(* s1 alone holds a certificate of view 1 and misses view 2, in which s2   *)
(* executes; s2 misses view 3, where the others replay.                    *)
OldCertificate ==
  /\ View[s1] # 2 /\ View[s2] # 3
  /\ Hears_Nothing_Of(s4, 1)
  /\ ARU[s2] = 0 => OnlyTo({s2}, commit)
  /\ View[s2] = 1 => OnlyTo({s1}, prepare)
  /\ \A r \in Correct : View[r] > 1 => prepare_certificate[s1][1] # NoPP
  /\ \A r \in Correct : View[r] = 3 => ARU[s2] = 1
  /\ Proposed(2) => \A r \in {s3, s4} : View[r] = 3 \/ view_change_done[r]

(* Nobody, s1 neither, hears what s1 proposes in view 1.  The others go on *)
(* without it; it follows them into view 2 and hears what is proposed      *)
(* there before it executes the Replay.                                    *)
UnheardProposal ==
  /\ \A r \in Correct : Hears_Nothing_Of(r, 1) /\ (View[r] = 2 => Proposed(1))
  /\ \A m \in msgs : m.pp.proof_aru = (IF m.pp.view = 1 THEN 1 ELSE 0)
  /\ Silent(s1, 2) /\ (View[s1] = 2 => Proposed(2))
  /\ View[s1] = 2 /\ view_change_done[s1] => pre_prepare[s1][1] # NoPP
  /\ OnlyTo({s2, s3, s4}, prepare) /\ OnlyTo({s1, s2}, commit)
====
