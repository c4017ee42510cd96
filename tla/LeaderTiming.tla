----------------------------- MODULE LeaderTiming -----------------------------
(***************************************************************************)
(* How a replica comes to suspect the leader of its view, in               *)
(* prime/src/suspect_leader.c.  Every replica reports the longest          *)
(* turnaround (TAT) it has seen of the leader, in TAT_MEASUREs, and the    *)
(* round trips it measures, in RTT_MEASUREs.  From the second each replica *)
(* works out a bound (alpha) on the turnaround that it would show as the   *)
(* leader itself, and sends it in TAT_UBs.  A leader slower than what      *)
(* enough others promise is suspected.                                     *)
(*                                                                         *)
(* One view: everything here is cleared with a new view                    *)
(* (SUSPECT_Initialize_Upon_View_Change), and messages of other views are  *)
(* ignored.  A message that is late carries an older value: of a           *)
(* turnaround, a lower one, of a bound, a higher one.                      *)
(***************************************************************************)
EXTENDS PrimeConfig

CONSTANTS
  MAX_TAT_TIME,  \* what is not known yet; bound: times are 0 .. MAX_TAT_TIME
  MIN_RTT,
  KLAT,          \* VARIABILITY_KLAT
  PRE_PREPARE,   \* the time between two Pre-Prepares of the leader
  Rtt,           \* the round trip from each replica to each, at its fastest
  Lies,          \* bound: the times Byzantine servers report
  Watching       \* bound: the replicas whose suspicion is followed

Time == 0 .. MAX_TAT_TIME
Honest == Servers \ Byzantine

ASSUME TimingBounds ==
  /\ MAX_TAT_TIME \in Nat /\ MIN_RTT \in Time
  /\ KLAT \in Nat \ {0} /\ PRE_PREPARE \in Nat
  /\ Rtt \in [Honest -> [Honest -> Time]]
  /\ \A r \in Honest : Rtt[r][r] = 0
  /\ Lies \subseteq Time
  /\ Watching \subseteq Correct

VARIABLES
  leader,            \* the leader of the view, a correct one
  prompt,            \* does it answer within the time that it should?
  view_change_done,  \* DATA.VIEW.view_change_done
  reported_tats,     \* DATA.SUSP.reported_tats
  tat_leader,        \* DATA.SUSP.tat_leader
  tat_if_leader,     \* DATA.SUSP.tat_if_leader
  alpha,             \* DATA.SUSP.alpha
  tat_leader_ubs,    \* DATA.SUSP.tat_leader_ubs
  tat_acceptable,    \* DATA.SUSP.tat_acceptable
  leader_suspected   \* DATA.SUSP.leader_suspected

tatVars == <<reported_tats, tat_leader>>
rttVars == <<tat_if_leader, alpha>>
ubVars == <<tat_leader_ubs, tat_acceptable>>
vars == <<leader, prompt, view_change_done, tatVars, rttVars, ubVars, leader_suspected>>

TypeOK ==
  /\ leader \in Correct
  /\ prompt \in BOOLEAN
  /\ view_change_done \in [Correct -> BOOLEAN]
  /\ reported_tats \in [Watching -> [Servers -> Time]]
  /\ tat_leader \in [Watching -> Time]
  /\ tat_if_leader \in [Correct -> [Servers -> Time]]
  /\ alpha \in [Correct -> Time]
  /\ tat_leader_ubs \in [Watching -> [Servers -> Time]]
  /\ tat_acceptable \in [Watching -> Time]
  /\ leader_suspected \in [Watching -> BOOLEAN]

-----------------------------------------------------------------------------
(* tats[i] after qsort: the lowest time that i of the times do not exceed  *)
Sorted_At(tats, i) ==
  CHOOSE t \in Time :
    /\ Cardinality({s \in Servers : tats[s] <= t}) >= i
    /\ \A u \in Time : Cardinality({s \in Servers : tats[s] <= u}) >= i => t <= u

\* mutants of From_Above and From_Below: one too high
OneFurtherAbove == Quorum + 1
OneFurtherUp == F + K + 2

(* The f+k+1-st from above is tats[NUM_SERVER_SLOTS - (f+k+1)], and as     *)
(* there are 3f+2k+1 of them that is tats[2f+k+1]; and from below          *)
From_Above == Cardinality(Servers) + 1 - (F + K + 1)
From_Below == F + K + 1

(* SUSPECT_Initialize_Upon_View_Change *)
Init ==
  /\ leader \in Correct
  /\ prompt \in BOOLEAN
  /\ view_change_done = [r \in Correct |-> FALSE]
  /\ reported_tats = [r \in Watching |-> [s \in Servers |-> 0]]
  /\ tat_leader = [r \in Watching |-> 0]
  /\ tat_if_leader = [r \in Correct |-> [s \in Servers |-> IF s = r THEN 0 ELSE MAX_TAT_TIME]]
  /\ alpha = [r \in Correct |-> MAX_TAT_TIME]
  /\ tat_leader_ubs = [r \in Watching |-> [s \in Servers |-> MAX_TAT_TIME]]
  /\ tat_acceptable = [r \in Watching |-> MAX_TAT_TIME]
  /\ leader_suspected = [r \in Watching |-> FALSE]

(* The turnaround that is accepted if the round trip is acceptable *)
Threshold(acceptable, done) ==
  acceptable * KLAT + (IF done THEN PRE_PREPARE ELSE 0)

(* The end of the view change at r *)
View_Change_Done(r) ==
  /\ ~view_change_done[r]
  /\ view_change_done' = [view_change_done EXCEPT ![r] = TRUE]
  /\ UNCHANGED <<leader, prompt, tatVars, rttVars, ubVars, leader_suspected>>

(* SUSPECT_Suspect_Leader, which runs after each measure that is processed *)
SUSPECT_Suspect_Leader(r) ==
  leader_suspected' = [leader_suspected EXCEPT ![r] =
    @ \/ tat_leader'[r] > Threshold(tat_acceptable'[r], view_change_done[r])]

(* What q can have measured of the leader so far (SUSPECT.max_tat, set by  *)
(* SUSPECT_TAT_Measure_Periodically, by ORDER_Send_Prepares and by the     *)
(* Replay): if the leader is prompt, no more than the network allows; it   *)
(* waits for the next Pre-Prepare only when the view change is done.       *)
Measured_TATs(q) ==
  {t \in Time : prompt => t <= Threshold(Rtt[q][leader], view_change_done[q])}

(* SUSPECT_Process_TAT_Measure *)
SUSPECT_Process_TAT_Measure(r, q) ==
  \E t \in IF q \in Byzantine THEN Lies ELSE Measured_TATs(q) :
    /\ t > reported_tats[r][q]
    /\ reported_tats' = [reported_tats EXCEPT ![r][q] = t]
    /\ tat_leader' = [tat_leader EXCEPT ![r] = Sorted_At(reported_tats'[r], From_Below)]
    /\ UNCHANGED <<leader, prompt, view_change_done, rttVars, ubVars>>
    /\ SUSPECT_Suspect_Leader(r)

(* What q can have measured to r (SUSPECT_Ping_Periodically,               *)
(* SUSPECT_Process_RTT_Ping and SUSPECT_Process_RTT_Pong, which passes     *)
(* over the answer to a ping that is no longer the one in ping_history)    *)
Measured_RTTs(q, r) == {t \in Time : t >= Rtt[q][r]}

(* SUSPECT_Process_RTT_Measure: only a lower one counts. *)
SUSPECT_Process_RTT_Measure(r, q) ==
  \E t \in IF q \in Byzantine THEN Lies ELSE Measured_RTTs(q, r) :
    /\ t < tat_if_leader[r][q]
    /\ tat_if_leader' = [tat_if_leader EXCEPT ![r][q] = t]
    /\ alpha' = [alpha EXCEPT ![r] = Sorted_At(tat_if_leader'[r], From_Above)]
    /\ UNCHANGED <<leader, prompt, view_change_done, tatVars, ubVars, leader_suspected>>

At_Least(t) == IF t > MIN_RTT THEN t ELSE MIN_RTT

(* SUSPECT_Process_TAT_UB *)
SUSPECT_Process_TAT_UB(r, q) ==
  \E t \in IF q \in Byzantine THEN Lies ELSE alpha[q] .. MAX_TAT_TIME :
    /\ t < tat_leader_ubs[r][q]
    /\ tat_leader_ubs' = [tat_leader_ubs EXCEPT ![r][q] = t]
    /\ tat_acceptable' = [tat_acceptable EXCEPT ![r] =
                            At_Least(Sorted_At(tat_leader_ubs'[r], From_Above))]
    /\ UNCHANGED <<leader, prompt, view_change_done, tatVars, rttVars>>
    /\ SUSPECT_Suspect_Leader(r)

Senders == Byzantine \cup Correct

Next ==
  \/ \E r \in Correct : View_Change_Done(r)
  \/ \E r \in Correct, q \in Senders : SUSPECT_Process_RTT_Measure(r, q)
  \/ \E r \in Watching, q \in Senders : SUSPECT_Process_TAT_Measure(r, q)
  \/ \E r \in Watching, q \in Senders : SUSPECT_Process_TAT_UB(r, q)

Spec == Init /\ [][Next]_vars

-----------------------------------------------------------------------------
(* How well x is placed to lead: the round trip to it that all but f+k     *)
(* replicas can keep, whatever the Byzantine servers report.  A replica    *)
(* that is down keeps none.                                                *)
Round_Trip(x) ==
  [s \in Servers |-> IF s \in Byzantine THEN 0
                     ELSE IF s = x \/ {s, x} \subseteq Correct THEN Rtt[s][x]
                     ELSE MAX_TAT_TIME]
Place(x) == Sorted_At(Round_Trip(x), Quorum)

(* f+k+1 replicas that are not Byzantine are better placed than x *)
Outranked(x) == Cardinality({h \in Honest : Place(h) < Place(x)}) >= F + K + 1

(* A leader that is prompt and among the best placed is not suspected, so  *)
(* that views come to rest at the latest when one of these leads: the      *)
(* reports of f Byzantine servers can neither raise tat_leader nor lower   *)
(* tat_acceptable far enough (SUSPECT_Suspect_Leader).  Only a replica     *)
(* that is still in the view change can suspect it, once others are done   *)
(* and report times that include the wait for a Pre-Prepare.               *)
WellPlacedLeaderTrusted ==
  [][\A r \in Watching :
       prompt /\ ~leader_suspected[r] /\ leader_suspected'[r] =>
         \/ Outranked(leader)
         \/ ~view_change_done[r] /\ \E q \in Correct : view_change_done[q]]_vars

(* A slow leader is found out: when the reports of all correct replicas    *)
(* exceed what their bounds promise, whatever the f Byzantine servers      *)
(* report and with k replicas silent, the leader is suspected.             *)
SlowLeaderSuspected ==
  Cardinality(Byzantine \cup Down) <= F + K =>
    \A r \in Watching : \A t \in Time :
      /\ \A q \in Correct : At_Least(tat_leader_ubs[r][q]) <= t
      /\ \A q \in Correct : reported_tats[r][q] > Threshold(t, TRUE)
      => leader_suspected[r]
=============================================================================
