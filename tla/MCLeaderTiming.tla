---- MODULE MCLeaderTiming ----
EXTENDS LeaderTiming, TLC

CONSTANTS s1, s2, s3, s4

(* s1 and s2 are close to each other, s3 is further away *)
OneFarAway ==
  [r \in Honest |-> [q \in Honest |->
     IF q = r THEN 0 ELSE IF s3 \in {q, r} THEN 2 ELSE 1]]

(* Turnarounds are reported after the bounds: what is reported first does  *)
(* not matter to the comparison of the two.                                *)
BoundsFirst ==
  reported_tats # [r \in Watching |-> [s \in Servers |-> 0]]
    => UNCHANGED <<rttVars, ubVars>>

(* A correct replica measures each round trip at its fastest, and its      *)
(* bound is the one it has now.                                            *)
NoJitter ==
  /\ \A r, q \in Correct : tat_if_leader'[r][q] \in {tat_if_leader[r][q], Rtt[q][r]}
  /\ \A r \in Watching, q \in Correct :
       tat_leader_ubs'[r][q] \in {tat_leader_ubs[r][q], alpha[q]}

(* A VIEW that leaves out what only bounds still to come depend on *)
Relevant ==
  <<leader, prompt, view_change_done, tatVars, ubVars, leader_suspected,
    IF reported_tats = [r \in Watching |-> [s \in Servers |-> 0]]
    THEN rttVars ELSE <<>> >>
====
