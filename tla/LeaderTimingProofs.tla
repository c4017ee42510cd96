-------------------------- MODULE LeaderTimingProofs --------------------------
(* That a prompt and well placed leader is trusted, whatever the number of  *)
(* servers, the network's round trips and the reports of Byzantine servers. *)
EXTENDS LeaderTiming, PrimeConfigProofs

(* A set of times has a lowest one. *)
LEMMA LowestTime ==
  ASSUME NEW T \in SUBSET Time, T # {}
  PROVE  \E t \in T : \A u \in T : t <= u
<1> DEFINE Upto == {0 .. t : t \in T}
<1>1. Upto \subseteq FiniteSubsetsOf(Time)
  <2>1. SUFFICES ASSUME NEW t \in T PROVE 0 .. t \in FiniteSubsetsOf(Time)
    OBVIOUS
  <2>2. t \in Nat /\ 0 .. t \subseteq Time
    BY TimingBounds DEF Time
  <2>3. IsFiniteSet(0 .. t)
    BY <2>2, FS_Interval
  <2> QED
    BY <2>2, <2>3 DEF FiniteSubsetsOf
<1>2. Upto # {}
  OBVIOUS
<1>3. IsWellFoundedOn(StrictSubsetOrdering(Time), FiniteSubsetsOf(Time))
  BY FS_StrictSubsetOrderingWellFounded
<1>4. PICK X \in Upto : \A Y \in Upto : ~(<<Y, X>> \in StrictSubsetOrdering(Time))
  <2> HIDE DEF Upto
  <2> QED
    BY <1>1, <1>2, <1>3, WFMin
<1>5. PICK t \in T : X = 0 .. t
  OBVIOUS
<1>6. ASSUME NEW u \in T PROVE t <= u
  <2>1. t \in Nat /\ u \in Nat /\ 0 .. t \subseteq Time /\ 0 .. u \subseteq Time
    BY TimingBounds DEF Time
  <2>2. ~(<<0 .. u, 0 .. t>> \in StrictSubsetOrdering(Time))
    BY <1>4, <1>5
  <2>3. ~(0 .. u \subseteq 0 .. t /\ 0 .. u # 0 .. t)
    BY <2>1, <2>2 DEF StrictSubsetOrdering
  <2>4. ASSUME u < t PROVE FALSE
    <3>1. 0 .. u \subseteq 0 .. t
      BY <2>1, <2>4
    <3>2. t \in 0 .. t /\ t \notin 0 .. u
      BY <2>1, <2>4
    <3> QED
      BY <2>3, <3>1, <3>2
  <2> QED
    BY <2>1, <2>4
<1> QED
  BY <1>6

(* What qsort leaves at position i: i of the times do not exceed it, and   *)
(* it is the lowest such time.                                             *)
LEMMA SortedAt ==
  ASSUME NEW tats \in [Servers -> Time],
         NEW i \in Nat, i <= Cardinality(Servers)
  PROVE  /\ Sorted_At(tats, i) \in Time
         /\ Cardinality({s \in Servers : tats[s] <= Sorted_At(tats, i)}) >= i
         /\ \A u \in Time :
              Cardinality({s \in Servers : tats[s] <= u}) >= i => Sorted_At(tats, i) <= u
<1> DEFINE T == {t \in Time : Cardinality({s \in Servers : tats[s] <= t}) >= i}
<1>1. MAX_TAT_TIME \in T
  <2>1. MAX_TAT_TIME \in Time /\ \A s \in Servers : tats[s] <= MAX_TAT_TIME
    BY TimingBounds DEF Time
  <2>2. {s \in Servers : tats[s] <= MAX_TAT_TIME} = Servers
    BY <2>1
  <2> QED
    BY <2>1, <2>2
<1>2. PICK t \in T : \A u \in T : t <= u
  <2>1. T \in SUBSET Time /\ T # {}
    BY <1>1
  <2> HIDE DEF T
  <2> QED
    BY <2>1, LowestTime
<1> QED
  BY <1>2 DEF Sorted_At

(* Enough low times keep the sorted one low. *)
LEMMA SortedAtMost ==
  ASSUME NEW tats \in [Servers -> Time],
         NEW i \in Nat, i <= Cardinality(Servers),
         NEW A \in SUBSET Servers, Cardinality(A) >= i,
         NEW b \in Nat, \A s \in A : tats[s] <= b
  PROVE  Sorted_At(tats, i) <= b
<1>1. CASE b \in Time
  <2> DEFINE B == {s \in Servers : tats[s] <= b}
  <2>1. B \in SUBSET Servers /\ A \subseteq B
    OBVIOUS
  <2>2. Cardinality(A) \in Nat /\ Cardinality(B) \in Nat /\ Cardinality(A) <= Cardinality(B)
    BY <2>1, VotersMonotone
  <2>3. Cardinality(B) >= i
    BY <2>2
  <2> QED
    BY <1>1, <2>3, SortedAt
<1>2. CASE b \notin Time
  <2>1. Sorted_At(tats, i) \in Time
    BY SortedAt
  <2> QED
    BY <1>2, <2>1, TimingBounds DEF Time
<1> QED
  BY <1>1, <1>2

(* Of 2f+k+1 servers, f+k+1 are not Byzantine. *)
LEMMA HonestAmongQuorum ==
  ASSUME NEW A \in SUBSET Servers, Cardinality(A) >= Quorum
  PROVE  Cardinality(A \cap Honest) >= F + K + 1
<1> DEFINE H == A \cap Honest
           B == A \cap Byzantine
<1>1. /\ H \in SUBSET Servers /\ B \in SUBSET Servers /\ Byzantine \in SUBSET Servers
      /\ A = H \cup B /\ H \cap B = {} /\ B \subseteq Byzantine
  BY FaultModel DEF Honest
<1>2. IsFiniteSet(H) /\ IsFiniteSet(B)
  BY <1>1, FaultModel, FS_Subset
<1>3. Cardinality(A) = Cardinality(H) + Cardinality(B) - Cardinality(H \cap B)
  BY <1>1, <1>2, FS_Union
<1>4. Cardinality(H \cap B) = 0
  BY <1>1, FS_EmptySet
<1>5. /\ Cardinality(B) \in Nat /\ Cardinality(Byzantine) \in Nat /\ Cardinality(H) \in Nat
      /\ Cardinality(B) <= Cardinality(Byzantine)
  BY <1>1, VotersMonotone
<1> QED
  BY <1>3, <1>4, <1>5, FaultModel DEF Quorum

(* The positions that the code takes from the sorted times *)
LEMMA Positions ==
  /\ From_Above = Quorum /\ Quorum \in Nat /\ Quorum <= Cardinality(Servers)
  /\ From_Below = F + K + 1 /\ From_Below \in Nat /\ From_Below <= Cardinality(Servers)
BY FaultModel DEF From_Above, From_Below, Quorum

(* Round trips and places are times.                                        *)
LEMMA RoundTripType ==
  ASSUME NEW x \in Honest
  PROVE  /\ Round_Trip(x) \in [Servers -> Time]
         /\ Place(x) \in Time
<1>1. \A s \in Servers : s \notin Byzantine => Rtt[s][x] \in Time
  BY TimingBounds DEF Honest
<1>2. 0 \in Time /\ MAX_TAT_TIME \in Time
  BY TimingBounds DEF Time
<1>3. Round_Trip(x) \in [Servers -> Time]
  BY <1>1, <1>2, TimingBounds DEF Round_Trip, Honest, Correct
<1> QED
  BY <1>3, SortedAt, Positions DEF Place

(* Higher round trips make a higher bound. *)
LEMMA PlaceIsLowest ==
  ASSUME NEW x \in Honest, NEW tats \in [Servers -> Time],
         \A s \in Servers : Round_Trip(x)[s] <= tats[s]
  PROVE  Place(x) <= Sorted_At(tats, From_Above)
<1> DEFINE t == Sorted_At(tats, From_Above)
           A == {s \in Servers : tats[s] <= t}
<1>1. t \in Time /\ Cardinality(A) >= Quorum
  BY SortedAt, Positions
<1>2. t \in Nat
  BY <1>1 DEF Time
<1>3. \A s \in A : Round_Trip(x)[s] <= t
  BY <1>1, RoundTripType, TimingBounds DEF Time
<1>4. Sorted_At(Round_Trip(x), Quorum) <= t
  <2> HIDE DEF t
  <2> QED
    BY <1>1, <1>2, <1>3, RoundTripType, SortedAtMost, Positions
<1> QED
  BY <1>4 DEF Place

(* A threshold grows with the round trip, and with the end of the view     *)
(* change.                                                                 *)
LEMMA ThresholdMonotone ==
  ASSUME NEW a \in Nat, NEW b \in Nat, a <= b, NEW c \in BOOLEAN, NEW d \in BOOLEAN, c => d
  PROVE  /\ Threshold(a, c) \in Nat
         /\ Threshold(b, d) \in Nat
         /\ Threshold(a, c) <= Threshold(b, d)
<1>1. a * KLAT \in Nat /\ b * KLAT \in Nat
  BY TimingBounds
<1>2. a * KLAT <= b * KLAT
  BY TimingBounds, SMT
<1> QED
  BY <1>1, <1>2, TimingBounds DEF Threshold

(* A threshold is a natural number.                                         *)
LEMMA ThresholdType ==
  ASSUME NEW a \in Nat, NEW c \in BOOLEAN
  PROVE  Threshold(a, c) \in Nat /\ 0 <= Threshold(a, c)
<1>1. a * KLAT \in Nat
  BY TimingBounds
<1> QED
  BY <1>1, TimingBounds DEF Threshold

(* The comparison of SUSPECT_Suspect_Leader: the reports rep and the       *)
(* bounds ubs that a replica has about a leader l, from which it has tat   *)
(* and acc, when done says who has finished the view change.  If tat is    *)
(* too high for acc, then either f+k+1 replicas promise to do better, or a *)
(* replica that has finished is compared with one that has not.            *)
LEMMA Comparison ==
  ASSUME NEW l \in Correct, NEW r \in Correct,
         NEW done \in [Correct -> BOOLEAN],
         NEW rep \in [Servers -> Time],
         NEW ubs \in [Servers -> Time],
         NEW tat \in Time, tat <= Sorted_At(rep, From_Below),
         NEW acc \in Time, Sorted_At(ubs, From_Above) <= acc,
         \A x \in Honest : Place(x) <= ubs[x],
         \A q \in Correct : rep[q] <= Threshold(Rtt[q][l], done[q]),
         \A q \in Honest \ Correct : rep[q] = 0,
         tat > Threshold(acc, done[r])
  PROVE  \/ Outranked(l)
         \/ ~done[r] /\ \E q \in Correct : done[q]
<1> DEFINE A == {s \in Servers : ubs[s] <= acc}
           G == {s \in Servers : Round_Trip(l)[s] <= Place(l)}
<1>1. l \in Honest /\ Correct \subseteq Honest /\ Honest \subseteq Servers
  BY DEF Correct, Honest
<1>2. \A x \in Honest : Place(x) \in Time
  BY RoundTripType
<1>3. CASE Place(l) > acc
  <2> DEFINE U == {s \in Servers : ubs[s] <= Sorted_At(ubs, From_Above)}
             O == {h \in Honest : Place(h) < Place(l)}
  <2>1. Sorted_At(ubs, From_Above) \in Time /\ Cardinality(U) >= Quorum
    BY SortedAt, Positions
  <2>2. U \in SUBSET Servers /\ A \in SUBSET Servers /\ U \subseteq A
    BY <2>1, TimingBounds DEF Time
  <2>3. Cardinality(A) >= Quorum
    <3>1. Cardinality(U) \in Nat /\ Cardinality(A) \in Nat /\ Cardinality(U) <= Cardinality(A)
      BY <2>2, VotersMonotone
    <3> QED
      BY <2>1, <3>1, Positions
  <2>4. Cardinality(A \cap Honest) >= F + K + 1
    BY <2>2, <2>3, HonestAmongQuorum
  <2>5. A \cap Honest \subseteq O
    BY <1>1, <1>2, <1>3, TimingBounds DEF Time
  <2>6. A \cap Honest \in SUBSET Servers /\ O \in SUBSET Servers
    BY <1>1
  <2>7. /\ Cardinality(A \cap Honest) \in Nat /\ Cardinality(O) \in Nat
        /\ Cardinality(A \cap Honest) <= Cardinality(O)
    BY <2>5, <2>6, VotersMonotone
  <2>8. Cardinality(O) >= F + K + 1
    BY <2>4, <2>7, FaultModel
  <2> QED
    BY <2>8 DEF Outranked
<1>4. CASE Place(l) <= acc
  <2>1. SUFFICES ASSUME done[r] \/ \A q \in Correct : ~done[q]
                 PROVE  FALSE
    OBVIOUS
  <2>2. G \in SUBSET Servers /\ Cardinality(G) >= Quorum
    BY <1>1, RoundTripType, SortedAt, Positions DEF Place
  <2>3. Cardinality(G \cap Honest) >= F + K + 1
    BY <2>2, HonestAmongQuorum
  <2>4. acc \in Nat /\ Threshold(acc, done[r]) \in Nat
    <3>1. acc \in Nat
      BY DEF Time
    <3> QED
      BY <3>1, ThresholdMonotone
  <2>5. ASSUME NEW q \in G \cap Honest
        PROVE  rep[q] <= Threshold(acc, done[r])
    <3>1. CASE q \in Correct
      <4>1. Rtt[q][l] \in Nat /\ Rtt[q][l] = Round_Trip(l)[q]
        BY <1>1, <3>1, TimingBounds DEF Round_Trip, Correct, Honest, Time
      <4>2. Rtt[q][l] <= acc
        BY <1>1, <1>2, <1>4, <4>1, TimingBounds DEF Time
      <4>3. done[q] => done[r]
        BY <2>1, <3>1
      <4>4. /\ Threshold(Rtt[q][l], done[q]) \in Nat
            /\ Threshold(Rtt[q][l], done[q]) <= Threshold(acc, done[r])
        BY <2>4, <3>1, <4>1, <4>2, <4>3, ThresholdMonotone
      <4>5. rep[q] \in Nat /\ rep[q] <= Threshold(Rtt[q][l], done[q])
        BY <1>1, <3>1 DEF Time
      <4> QED
        BY <2>4, <4>4, <4>5
    <3>2. CASE q \notin Correct
      BY <2>4, <3>2
    <3> QED
      BY <3>1, <3>2
  <2>6. Sorted_At(rep, From_Below) <= Threshold(acc, done[r])
    <3>1. G \cap Honest \in SUBSET Servers
      BY <1>1
    <3> HIDE DEF G
    <3> QED
      BY <2>3, <2>4, <2>5, <3>1, SortedAtMost, Positions
  <2>7. Sorted_At(rep, From_Below) \in Time
    BY SortedAt, Positions
  <2> QED
    BY <2>4, <2>6, <2>7, TimingBounds DEF Time
<1> QED
  BY <1>1, <1>2, <1>3, <1>4, TimingBounds DEF Time

-----------------------------------------------------------------------------
(* Bounds are never lower than the network allows: the replica's own, and  *)
(* those that others have of it.                                           *)
BoundsHold ==
  /\ \A r \in Correct : \A s \in Servers : Round_Trip(r)[s] <= tat_if_leader[r][s]
  /\ \A r \in Correct : Place(r) <= alpha[r]
  /\ \A r \in Watching : \A x \in Honest : Place(x) <= tat_leader_ubs[r][x]

(* Reports of a prompt leader are never higher than it may take. *)
ReportsHold ==
  \A r \in Watching :
    /\ prompt => \A q \in Correct :
         reported_tats[r][q] <= Threshold(Rtt[q][leader], view_change_done[q])
    /\ \A q \in Honest \ Correct : reported_tats[r][q] = 0

(* What is computed from the reports and bounds is up to date. *)
Computed ==
  \A r \in Watching :
    /\ tat_leader[r] = Sorted_At(reported_tats[r], From_Below)
    /\ tat_acceptable[r] = At_Least(Sorted_At(tat_leader_ubs[r], From_Above))

(* The two have been compared. *)
Compared ==
  \A r \in Watching :
    \/ leader_suspected[r]
    \/ tat_leader[r] <= Threshold(tat_acceptable[r], view_change_done[r])

TimingInv == TypeOK /\ BoundsHold /\ ReportsHold /\ Computed /\ Compared

(* tat_acceptable is never below what the bounds say.                       *)
LEMMA AtLeastType ==
  ASSUME NEW t \in Time
  PROVE  At_Least(t) \in Time /\ t <= At_Least(t)
BY TimingBounds DEF At_Least, Time

(* Nothing is reported or promised in a new view.                           *)
LEMMA TimingInit == Init => TimingInv
<1> SUFFICES ASSUME Init PROVE TimingInv
  OBVIOUS
<1> USE DEF Init
<1>1. 0 \in Time /\ MAX_TAT_TIME \in Time /\ 0 \in Nat /\ MAX_TAT_TIME \in Nat
  BY TimingBounds DEF Time
<1>2. Correct \subseteq Honest /\ Honest \subseteq Servers /\ Watching \subseteq Correct
  BY TimingBounds DEF Correct, Honest
<1>3. TypeOK
  BY <1>1 DEF TypeOK
<1>4. BoundsHold
  <2>1. ASSUME NEW r \in Correct, NEW s \in Servers
        PROVE  Round_Trip(r)[s] <= tat_if_leader[r][s]
    <3>1. Round_Trip(r)[s] \in Time
      BY <1>2, RoundTripType
    <3>2. CASE s = r
      BY <1>1, <1>2, <3>2, TimingBounds DEF Round_Trip
    <3>3. CASE s # r
      BY <3>1, <3>3, TimingBounds DEF Time
    <3> QED
      BY <3>2, <3>3
  <2>2. \A x \in Honest : Place(x) <= MAX_TAT_TIME
    BY RoundTripType, TimingBounds DEF Time
  <2> QED
    BY <1>2, <2>1, <2>2 DEF BoundsHold
<1>5. ReportsHold
  <2>1. ASSUME NEW q \in Correct PROVE 0 <= Threshold(Rtt[q][leader], FALSE)
    <3>1. Rtt[q][leader] \in Nat
      BY <1>2, TimingBounds DEF Time
    <3> QED
      BY <3>1, ThresholdType
  <2> QED
    BY <1>2, <2>1 DEF ReportsHold
<1>6. ASSUME NEW r \in Watching
      PROVE  tat_leader[r] = Sorted_At(reported_tats[r], From_Below)
  <2>1. reported_tats[r] \in [Servers -> Time] /\ \A s \in Servers : reported_tats[r][s] <= 0
    BY <1>1
  <2>2. Servers \in SUBSET Servers /\ Cardinality(Servers) >= From_Below
    BY Positions, FaultModel
  <2>3. Sorted_At(reported_tats[r], From_Below) <= 0
    BY <1>1, <2>1, <2>2, SortedAtMost, Positions
  <2>4. Sorted_At(reported_tats[r], From_Below) \in Time
    BY <2>1, SortedAt, Positions
  <2> QED
    BY <2>3, <2>4 DEF Time
<1>7. ASSUME NEW r \in Watching
      PROVE  tat_acceptable[r] = At_Least(Sorted_At(tat_leader_ubs[r], From_Above))
  <2> DEFINE t == Sorted_At(tat_leader_ubs[r], From_Above)
             A == {s \in Servers : tat_leader_ubs[r][s] <= t}
  <2>1. tat_leader_ubs[r] \in [Servers -> Time]
    BY <1>1
  <2>2. t \in Time /\ Cardinality(A) >= Quorum
    BY <2>1, SortedAt, Positions
  <2>3. ASSUME A = {} PROVE FALSE
    <3>1. Cardinality(A) = 0
      BY <2>3, FS_EmptySet
    <3> QED
      BY <2>2, <3>1, FaultModel DEF Quorum
  <2>4. MAX_TAT_TIME <= t
    BY <2>3
  <2>5. t = MAX_TAT_TIME
    <3> HIDE DEF t
    <3> QED
      BY <1>1, <2>2, <2>4 DEF Time
  <2>6. At_Least(MAX_TAT_TIME) = MAX_TAT_TIME
    BY TimingBounds DEF At_Least, Time
  <2> QED
    BY <2>5, <2>6
<1>8. Compared
  <2>1. 0 <= Threshold(MAX_TAT_TIME, FALSE)
    BY <1>1, ThresholdType
  <2> QED
    BY <1>2, <2>1 DEF Compared
<1> QED
  BY <1>3, <1>4, <1>5, <1>6, <1>7, <1>8 DEF TimingInv, Computed

(* The suspicion follows the comparison. *)
LEMMA SuspicionStep ==
  ASSUME TypeOK, TypeOK', Compared, NEW r \in Watching,
         SUSPECT_Suspect_Leader(r), view_change_done' = view_change_done,
         \A q \in Watching \ {r} :
           tat_leader'[q] = tat_leader[q] /\ tat_acceptable'[q] = tat_acceptable[q]
  PROVE  Compared'
<1> SUFFICES ASSUME NEW q \in Watching
             PROVE  \/ leader_suspected'[q]
                    \/ tat_leader'[q] <= Threshold(tat_acceptable'[q], view_change_done'[q])
  BY DEF Compared
<1>1. q \in Correct /\ view_change_done'[q] = view_change_done[q]
  BY TimingBounds
<1>2. CASE q = r
  <2>1. tat_leader'[r] \in Nat /\ tat_acceptable'[r] \in Nat /\ view_change_done[r] \in BOOLEAN
    BY <1>1, <1>2 DEF TypeOK, Time
  <2>2. Threshold(tat_acceptable'[r], view_change_done[r]) \in Nat
    BY <2>1, ThresholdType
  <2>3. leader_suspected'[r] =
          (leader_suspected[r] \/ tat_leader'[r] > Threshold(tat_acceptable'[r], view_change_done[r]))
    BY DEF SUSPECT_Suspect_Leader, TypeOK
  <2>4. CASE tat_leader'[r] > Threshold(tat_acceptable'[r], view_change_done[r])
    BY <1>2, <2>3, <2>4
  <2>5. CASE tat_leader'[r] <= Threshold(tat_acceptable'[r], view_change_done[r])
    BY <1>1, <1>2, <2>5
  <2> QED
    BY <2>1, <2>2, <2>4, <2>5
<1>3. CASE q # r
  <2>1. leader_suspected'[q] = leader_suspected[q]
    BY <1>3 DEF SUSPECT_Suspect_Leader, TypeOK
  <2> QED
    BY <1>1, <1>3, <2>1 DEF Compared
<1> QED
  BY <1>2, <1>3

(* The end of a view change only raises the thresholds.                     *)
LEMMA ViewChangeDoneStep ==
  ASSUME TimingInv, NEW r \in Correct, View_Change_Done(r)
  PROVE  TimingInv'
<1> USE DEF TimingInv, View_Change_Done, tatVars, rttVars, ubVars
<1>1. Watching \subseteq Correct /\ Correct \subseteq Honest
  BY TimingBounds DEF Correct, Honest
<1>2. TypeOK'
  BY DEF TypeOK
<1>3. \A q \in Correct : /\ view_change_done[q] \in BOOLEAN /\ view_change_done'[q] \in BOOLEAN
                         /\ view_change_done[q] => view_change_done'[q]
  BY DEF TypeOK
<1>4. BoundsHold'
  BY DEF BoundsHold
<1>5. ReportsHold'
  <2>1. ASSUME NEW p \in Watching, NEW q \in Correct, prompt
        PROVE  reported_tats[p][q] <= Threshold(Rtt[q][leader], view_change_done'[q])
    <3>1. Rtt[q][leader] \in Nat /\ reported_tats[p][q] \in Nat
      BY <1>1, TimingBounds DEF TypeOK, Correct, Honest, Time
    <3>2. /\ Threshold(Rtt[q][leader], view_change_done[q]) \in Nat
          /\ Threshold(Rtt[q][leader], view_change_done'[q]) \in Nat
          /\ Threshold(Rtt[q][leader], view_change_done[q])
               <= Threshold(Rtt[q][leader], view_change_done'[q])
      <4> HIDE DEF TimingInv, View_Change_Done
      <4> QED
        BY <1>3, <3>1, ThresholdMonotone
    <3>3. reported_tats[p][q] <= Threshold(Rtt[q][leader], view_change_done[q])
      BY <2>1 DEF ReportsHold
    <3> HIDE DEF TimingInv, View_Change_Done
    <3> QED
      BY <3>1, <3>2, <3>3
  <2> QED
    BY <2>1 DEF ReportsHold
<1>6. Computed'
  BY DEF Computed
<1>7. Compared'
  <2>1. ASSUME NEW p \in Watching, ~leader_suspected[p]
        PROVE  tat_leader[p] <= Threshold(tat_acceptable[p], view_change_done'[p])
    <3>1. tat_leader[p] \in Nat /\ tat_acceptable[p] \in Nat
      BY DEF TypeOK, Time
    <3>2. /\ Threshold(tat_acceptable[p], view_change_done[p]) \in Nat
          /\ Threshold(tat_acceptable[p], view_change_done'[p]) \in Nat
          /\ Threshold(tat_acceptable[p], view_change_done[p])
               <= Threshold(tat_acceptable[p], view_change_done'[p])
      <4> HIDE DEF TimingInv, View_Change_Done
      <4> QED
        BY <1>1, <1>3, <3>1, ThresholdMonotone
    <3>3. tat_leader[p] <= Threshold(tat_acceptable[p], view_change_done[p])
      BY <2>1 DEF Compared
    <3> HIDE DEF TimingInv, View_Change_Done
    <3> QED
      BY <3>1, <3>2, <3>3
  <2> QED
    BY <2>1 DEF Compared
<1> QED
  BY <1>2, <1>4, <1>5, <1>6, <1>7

(* A new measure lowers alpha to what it is computed from.                  *)
LEMMA RTTMeasureStep ==
  ASSUME TimingInv, NEW r \in Correct, NEW q \in Senders, SUSPECT_Process_RTT_Measure(r, q)
  PROVE  TimingInv'
<1> USE DEF TimingInv, tatVars, ubVars
<1>1. Correct \subseteq Honest /\ q \in Servers /\ (q \notin Byzantine => q \in Correct)
  BY FaultModel DEF Senders, Correct, Honest
<1>2. PICK t \in IF q \in Byzantine THEN Lies ELSE Measured_RTTs(q, r) :
        /\ tat_if_leader' = [tat_if_leader EXCEPT ![r][q] = t]
        /\ alpha' = [alpha EXCEPT ![r] = Sorted_At(tat_if_leader'[r], From_Above)]
        /\ UNCHANGED <<leader, prompt, view_change_done, tatVars, ubVars, leader_suspected>>
  BY DEF SUSPECT_Process_RTT_Measure
<1>3. t \in Time /\ (q \notin Byzantine => Rtt[q][r] <= t)
  BY <1>2, TimingBounds DEF Measured_RTTs
<1>4. /\ tat_if_leader' \in [Correct -> [Servers -> Time]]
      /\ tat_if_leader'[r] = [tat_if_leader[r] EXCEPT ![q] = t]
      /\ \A p \in Correct \ {r} : tat_if_leader'[p] = tat_if_leader[p]
  BY <1>1, <1>2, <1>3 DEF TypeOK
<1>5. Sorted_At(tat_if_leader'[r], From_Above) \in Time
  BY <1>4, SortedAt, Positions
<1>6. TypeOK'
  BY <1>2, <1>4, <1>5 DEF TypeOK
<1>7. \A s \in Servers : Round_Trip(r)[s] <= tat_if_leader'[r][s]
  <2>1. Round_Trip(r)[q] <= t
    <3>1. CASE q \in Byzantine
      <4>1. Round_Trip(r)[q] = 0
        BY <1>1, <3>1 DEF Round_Trip
      <4> QED
        BY <1>3, <4>1 DEF Time
    <3>2. CASE q \notin Byzantine
      BY <1>1, <1>3, <3>2 DEF Round_Trip
    <3> QED
      BY <3>1, <3>2
  <2>2. \A s \in Servers : tat_if_leader'[r][s] = IF s = q THEN t ELSE tat_if_leader[r][s]
    BY <1>4 DEF TypeOK
  <2> QED
    BY <2>1, <2>2 DEF BoundsHold
<1>8. Place(r) <= Sorted_At(tat_if_leader'[r], From_Above)
  BY <1>1, <1>4, <1>7, PlaceIsLowest
<1>9. BoundsHold'
  BY <1>2, <1>4, <1>7, <1>8 DEF BoundsHold, TypeOK
<1>10. ReportsHold' /\ Computed' /\ Compared'
  BY <1>2 DEF ReportsHold, Computed, Compared
<1> QED
  BY <1>6, <1>9, <1>10

(* A new report raises tat_leader and is compared at once.                  *)
LEMMA TATMeasureStep ==
  ASSUME TimingInv, NEW r \in Watching, NEW q \in Senders, SUSPECT_Process_TAT_Measure(r, q)
  PROVE  TimingInv'
<1> USE DEF TimingInv, rttVars, ubVars
<1>1. q \in Servers /\ (q \notin Byzantine => q \in Correct)
  BY FaultModel DEF Senders, Correct
<1>2. PICK t \in IF q \in Byzantine THEN Lies ELSE Measured_TATs(q) :
        /\ reported_tats' = [reported_tats EXCEPT ![r][q] = t]
        /\ tat_leader' = [tat_leader EXCEPT ![r] = Sorted_At(reported_tats'[r], From_Below)]
        /\ UNCHANGED <<leader, prompt, view_change_done, rttVars, ubVars>>
        /\ SUSPECT_Suspect_Leader(r)
  BY DEF SUSPECT_Process_TAT_Measure
<1>3. t \in Time
  BY <1>2, TimingBounds DEF Measured_TATs
<1>4. /\ reported_tats' \in [Watching -> [Servers -> Time]]
      /\ reported_tats'[r] = [reported_tats[r] EXCEPT ![q] = t]
      /\ \A p \in Watching \ {r} : reported_tats'[p] = reported_tats[p]
  BY <1>1, <1>2, <1>3 DEF TypeOK
<1>5. Sorted_At(reported_tats'[r], From_Below) \in Time
  BY <1>4, SortedAt, Positions
<1>6. leader_suspected' \in [Watching -> BOOLEAN]
  BY <1>2 DEF SUSPECT_Suspect_Leader, TypeOK
<1>7. TypeOK'
  BY <1>2, <1>4, <1>5, <1>6 DEF TypeOK
<1>8. BoundsHold'
  BY <1>2 DEF BoundsHold
<1>9. ReportsHold'
  <2>1. ASSUME NEW s \in Servers, s \notin Byzantine
        PROVE  /\ prompt /\ s \in Correct =>
                    reported_tats'[r][s] <= Threshold(Rtt[s][leader], view_change_done[s])
               /\ s \notin Correct => reported_tats'[r][s] = 0
    <3>1. CASE s = q
      <4>1. reported_tats'[r][s] = t
        BY <1>4, <3>1 DEF TypeOK
      <4> QED
        BY <1>1, <1>2, <2>1, <3>1, <4>1 DEF Measured_TATs
    <3>2. CASE s # q
      <4>1. reported_tats'[r][s] = reported_tats[r][s]
        BY <1>4, <3>2 DEF TypeOK
      <4> QED
        BY <2>1, <4>1 DEF ReportsHold, Honest
    <3> QED
      BY <3>1, <3>2
  <2>2. /\ prompt => \A s \in Correct :
             reported_tats'[r][s] <= Threshold(Rtt[s][leader], view_change_done[s])
        /\ \A s \in Honest \ Correct : reported_tats'[r][s] = 0
    BY <2>1 DEF Correct, Honest
  <2> QED
    BY <1>2, <1>4, <2>2 DEF ReportsHold
<1>10. Computed'
  BY <1>2, <1>4 DEF Computed, TypeOK
<1>11. Compared'
  <2>1. \A p \in Watching \ {r} :
          tat_leader'[p] = tat_leader[p] /\ tat_acceptable'[p] = tat_acceptable[p]
    BY <1>2 DEF TypeOK
  <2> QED
    BY <1>2, <1>7, <2>1, SuspicionStep
<1> QED
  BY <1>7, <1>8, <1>9, <1>10, <1>11

(* A new bound lowers tat_acceptable and is compared at once.               *)
LEMMA TATUBStep ==
  ASSUME TimingInv, NEW r \in Watching, NEW q \in Senders, SUSPECT_Process_TAT_UB(r, q)
  PROVE  TimingInv'
<1> USE DEF TimingInv, rttVars, tatVars
<1>1. q \in Servers /\ (q \notin Byzantine => q \in Correct) /\ Correct \subseteq Honest
  BY FaultModel DEF Senders, Correct, Honest
<1>2. PICK t \in IF q \in Byzantine THEN Lies ELSE alpha[q] .. MAX_TAT_TIME :
        /\ tat_leader_ubs' = [tat_leader_ubs EXCEPT ![r][q] = t]
        /\ tat_acceptable' = [tat_acceptable EXCEPT ![r] =
                                At_Least(Sorted_At(tat_leader_ubs'[r], From_Above))]
        /\ UNCHANGED <<leader, prompt, view_change_done, tatVars, rttVars>>
        /\ SUSPECT_Suspect_Leader(r)
  BY DEF SUSPECT_Process_TAT_UB
<1>3. t \in Time /\ (q \notin Byzantine => alpha[q] <= t)
  BY <1>1, <1>2, TimingBounds DEF TypeOK, Time
<1>4. /\ tat_leader_ubs' \in [Watching -> [Servers -> Time]]
      /\ tat_leader_ubs'[r] = [tat_leader_ubs[r] EXCEPT ![q] = t]
      /\ \A p \in Watching \ {r} : tat_leader_ubs'[p] = tat_leader_ubs[p]
  BY <1>1, <1>2, <1>3 DEF TypeOK
<1>5. At_Least(Sorted_At(tat_leader_ubs'[r], From_Above)) \in Time
  BY <1>4, SortedAt, Positions, AtLeastType
<1>6. leader_suspected' \in [Watching -> BOOLEAN]
  BY <1>2 DEF SUSPECT_Suspect_Leader, TypeOK
<1>7. TypeOK'
  BY <1>2, <1>4, <1>5, <1>6 DEF TypeOK
<1>8. \A x \in Honest : Place(x) <= tat_leader_ubs'[r][x]
  <2> SUFFICES ASSUME NEW x \in Honest PROVE Place(x) <= tat_leader_ubs'[r][x]
    OBVIOUS
  <2>1. CASE x = q
    <3>1. x \in Correct /\ tat_leader_ubs'[r][x] = t
      BY <1>1, <1>4, <2>1 DEF Honest, TypeOK
    <3>2. Place(x) \in Time /\ alpha[x] \in Time /\ Place(x) <= alpha[x] /\ alpha[x] <= t
      BY <1>1, <1>3, <2>1, <3>1, RoundTripType DEF BoundsHold, TypeOK, Honest
    <3> QED
      BY <1>3, <3>1, <3>2 DEF Time
  <2>2. CASE x # q
    <3>1. tat_leader_ubs'[r][x] = tat_leader_ubs[r][x]
      BY <1>4, <2>2 DEF TypeOK, Honest
    <3> QED
      BY <3>1 DEF BoundsHold
  <2> QED
    BY <2>1, <2>2
<1>9. BoundsHold'
  BY <1>2, <1>4, <1>8 DEF BoundsHold
<1>10. ReportsHold'
  BY <1>2 DEF ReportsHold
<1>11. Computed'
  BY <1>2, <1>4 DEF Computed, TypeOK
<1>12. Compared'
  <2>1. \A p \in Watching \ {r} :
          tat_leader'[p] = tat_leader[p] /\ tat_acceptable'[p] = tat_acceptable[p]
    BY <1>2 DEF TypeOK
  <2> QED
    BY <1>2, <1>7, <2>1, SuspicionStep
<1> QED
  BY <1>7, <1>9, <1>10, <1>11, <1>12

(* Every step keeps the invariant.                                          *)
LEMMA TimingStep == TimingInv /\ [Next]_vars => TimingInv'
<1> SUFFICES ASSUME TimingInv, [Next]_vars PROVE TimingInv'
  OBVIOUS
<1>1. CASE UNCHANGED vars
  BY <1>1 DEF TimingInv, TypeOK, BoundsHold, ReportsHold, Computed, Compared,
              vars, tatVars, rttVars, ubVars
<1>2. CASE \E r \in Correct : View_Change_Done(r)
  BY <1>2, ViewChangeDoneStep
<1>3. CASE \E r \in Correct, q \in Senders : SUSPECT_Process_RTT_Measure(r, q)
  BY <1>3, RTTMeasureStep
<1>4. CASE \E r \in Watching, q \in Senders : SUSPECT_Process_TAT_Measure(r, q)
  BY <1>4, TATMeasureStep
<1>5. CASE \E r \in Watching, q \in Senders : SUSPECT_Process_TAT_UB(r, q)
  BY <1>5, TATUBStep
<1> QED
  BY <1>1, <1>2, <1>3, <1>4, <1>5 DEF Next

(* The reports and the bounds that a replica has never contradict what the *)
(* network allows, and are always compared: the invariant the two theorems *)
(* below rest on.                                                          *)
THEOREM TimingInvariant == Spec => []TimingInv
BY TimingInit, TimingStep, PTL DEF Spec

(* Every time that is measured, reported or computed by suspect_leader.c   *)
(* stays within the range it starts in.                                    *)
THEOREM TypeCorrect == Spec => []TypeOK
<1>1. TimingInv => TypeOK
  BY DEF TimingInv
<1> QED
  BY <1>1, TimingInvariant, PTL

(* A step with which a replica starts to suspect a prompt leader *)
LEMMA SuspectingStep ==
  ASSUME TimingInv, TimingInv', [Next]_vars, NEW r \in Watching,
         prompt, ~leader_suspected[r], leader_suspected'[r]
  PROVE  \/ Outranked(leader)
         \/ ~view_change_done[r] /\ \E q \in Correct : view_change_done[q]
<1>1. r \in Correct
  BY TimingBounds
<1>2. PICK q \in Senders :
        \/ SUSPECT_Process_TAT_Measure(r, q)
        \/ SUSPECT_Process_TAT_UB(r, q)
  <2>1. ASSUME NEW p \in Watching, SUSPECT_Suspect_Leader(p) PROVE p = r
    BY <2>1 DEF SUSPECT_Suspect_Leader, TimingInv, TypeOK
  <2>2. ASSUME NEW p \in Watching, NEW q \in Senders,
               SUSPECT_Process_TAT_Measure(p, q) \/ SUSPECT_Process_TAT_UB(p, q)
        PROVE  p = r
    BY <2>1, <2>2 DEF SUSPECT_Process_TAT_Measure, SUSPECT_Process_TAT_UB
  <2>3. leader_suspected' # leader_suspected
    OBVIOUS
  <2> QED
    BY <2>2, <2>3 DEF Next, vars, View_Change_Done, SUSPECT_Process_RTT_Measure
<1>3. /\ SUSPECT_Suspect_Leader(r)
      /\ leader' = leader /\ prompt' = prompt /\ view_change_done' = view_change_done
  BY <1>2 DEF SUSPECT_Process_TAT_Measure, SUSPECT_Process_TAT_UB
<1>4. tat_leader'[r] > Threshold(tat_acceptable'[r], view_change_done[r])
  BY <1>3 DEF SUSPECT_Suspect_Leader, TimingInv, TypeOK
<1>5. /\ leader \in Correct /\ view_change_done \in [Correct -> BOOLEAN]
      /\ reported_tats'[r] \in [Servers -> Time] /\ tat_leader_ubs'[r] \in [Servers -> Time]
      /\ tat_leader'[r] \in Time /\ tat_acceptable'[r] \in Time
  BY DEF TimingInv, TypeOK
<1>6. tat_leader'[r] <= Sorted_At(reported_tats'[r], From_Below)
  <2>1. tat_leader'[r] = Sorted_At(reported_tats'[r], From_Below)
    BY DEF TimingInv, Computed
  <2> QED
    BY <1>5, <2>1 DEF Time
<1>7. Sorted_At(tat_leader_ubs'[r], From_Above) <= tat_acceptable'[r]
  <2>1. tat_acceptable'[r] = At_Least(Sorted_At(tat_leader_ubs'[r], From_Above))
    BY DEF TimingInv, Computed
  <2>2. Sorted_At(tat_leader_ubs'[r], From_Above) \in Time
    BY <1>5, SortedAt, Positions
  <2> QED
    BY <2>1, <2>2, AtLeastType
<1>8. \A x \in Honest : Place(x) <= tat_leader_ubs'[r][x]
  BY DEF TimingInv, BoundsHold
<1>9. /\ \A s \in Correct : reported_tats'[r][s] <= Threshold(Rtt[s][leader], view_change_done[s])
      /\ \A s \in Honest \ Correct : reported_tats'[r][s] = 0
  BY <1>3 DEF TimingInv, ReportsHold
<1> QED
  BY <1>1, <1>4, <1>5, <1>6, <1>7, <1>8, <1>9, Comparison

(* A prompt leader that is not outranked by f+k+1 replicas is never        *)
(* suspected by a replica that, like the leader's other judges, has        *)
(* finished the view change.                                               *)
THEOREM PromptLeaderTrusted == Spec => WellPlacedLeaderTrusted
<1> DEFINE Fair == \A r \in Watching :
             prompt /\ ~leader_suspected[r] /\ leader_suspected'[r] =>
               \/ Outranked(leader)
               \/ ~view_change_done[r] /\ \E q \in Correct : view_change_done[q]
<1>1. TimingInv /\ TimingInv' /\ [Next]_vars => Fair
  BY SuspectingStep
<1> HIDE DEF Fair
<1>2. Spec => [][Fair]_vars
  BY <1>1, TimingInvariant, PTL DEF Spec
<1> QED
  BY <1>2 DEF Fair, WellPlacedLeaderTrusted

(* With at most f+k replicas Byzantine or silent, the others are 2f+k+1. *)
LEMMA CorrectQuorum ==
  ASSUME Cardinality(Byzantine \cup Down) <= F + K
  PROVE  Cardinality(Correct) >= Quorum
<1> DEFINE B == Byzantine \cup Down
<1>1. IsFiniteSet(Correct) /\ IsFiniteSet(B) /\ IsFiniteSet(Servers)
  BY FaultModel, FS_Subset DEF Correct
<1>2. Correct \cup B = Servers /\ Correct \cap B = {}
  BY FaultModel DEF Correct
<1>3. Cardinality(Servers) = Cardinality(Correct) + Cardinality(B) - Cardinality({})
  BY <1>1, <1>2, FS_Union
<1>4. Cardinality({}) = 0 /\ Cardinality(Correct) \in Nat /\ Cardinality(B) \in Nat
  BY <1>1, FS_EmptySet, FS_CardinalityType
<1> QED
  BY <1>3, <1>4, FaultModel DEF Quorum

(* A leader slower than what the correct replicas promise is suspected,    *)
(* whatever the Byzantine servers report and with k replicas silent.       *)
THEOREM SlowLeaderFound == Spec => []SlowLeaderSuspected
<1>1. TimingInv => SlowLeaderSuspected
  <2> SUFFICES ASSUME TimingInv, Cardinality(Byzantine \cup Down) <= F + K,
                      NEW r \in Watching, NEW t \in Time,
                      \A q \in Correct : At_Least(tat_leader_ubs[r][q]) <= t,
                      \A q \in Correct : reported_tats[r][q] > Threshold(t, TRUE)
               PROVE  leader_suspected[r]
    BY DEF SlowLeaderSuspected
  <2> DEFINE ubs == tat_leader_ubs[r]
             rep == reported_tats[r]
             done == view_change_done[r]
             most == Threshold(t, TRUE)
             allowed == Threshold(tat_acceptable[r], done)
  <2>1. /\ ubs \in [Servers -> Time] /\ rep \in [Servers -> Time] /\ done \in BOOLEAN
        /\ tat_leader[r] = Sorted_At(rep, From_Below)
        /\ tat_acceptable[r] = At_Least(Sorted_At(ubs, From_Above))
        /\ leader_suspected[r] \/ tat_leader[r] <= allowed
    BY TimingBounds DEF TimingInv, TypeOK, Computed, Compared
  <2>2. /\ \A q \in Correct : At_Least(ubs[q]) <= t
        /\ \A q \in Correct : rep[q] > most
    OBVIOUS
  <2> HIDE DEF ubs, rep, done
  <2>3. Correct \in SUBSET Servers /\ Cardinality(Correct) >= Quorum
    BY CorrectQuorum DEF Correct
  <2>4. t \in Nat /\ \A q \in Correct : ubs[q] \in Time /\ ubs[q] <= t /\ MIN_RTT <= t
    BY <2>1, <2>2, <2>3, TimingBounds DEF At_Least, Time
  <2>5. MIN_RTT <= t
    <3>1. ASSUME Correct = {} PROVE FALSE
      <4>1. Cardinality(Correct) = 0
        BY <3>1, FS_EmptySet
      <4> QED
        BY <2>3, <4>1, FaultModel DEF Quorum
    <3> QED
      BY <2>4, <3>1
  <2>6. Sorted_At(ubs, From_Above) \in Time /\ Sorted_At(ubs, From_Above) <= t
    BY <2>1, <2>3, <2>4, SortedAt, SortedAtMost, Positions
  <2>7. At_Least(Sorted_At(ubs, From_Above)) \in Nat /\ At_Least(Sorted_At(ubs, From_Above)) <= t
    BY <2>5, <2>6, TimingBounds DEF At_Least, Time
  <2>8. allowed \in Nat /\ most \in Nat /\ allowed <= most
    BY <2>1, <2>4, <2>7, ThresholdMonotone
  <2> HIDE DEF most, allowed
  <2>9. ASSUME tat_leader[r] <= most PROVE FALSE
    <3> DEFINE L == {s \in Servers : rep[s] <= tat_leader[r]}
    <3>1. tat_leader[r] \in Time /\ Cardinality(L) >= F + K + 1
      BY <2>1, SortedAt, Positions
    <3>2. L \subseteq Byzantine \cup Down
      <4>1. ASSUME NEW q \in L PROVE q \notin Correct
        <5>1. ASSUME q \in Correct PROVE FALSE
          <6>1. rep[q] \in Nat /\ tat_leader[r] \in Nat
            BY <2>1, <3>1 DEF Time
          <6>2. rep[q] > most /\ rep[q] <= tat_leader[r]
            BY <2>2, <4>1, <5>1
          <6> QED
            BY <2>8, <2>9, <6>1, <6>2
        <5> QED
          BY <5>1
      <4> QED
        BY <4>1 DEF Correct
    <3>3. L \in SUBSET Servers /\ Byzantine \cup Down \in SUBSET Servers
      BY FaultModel
    <3>4. /\ Cardinality(L) \in Nat /\ Cardinality(Byzantine \cup Down) \in Nat
          /\ Cardinality(L) <= Cardinality(Byzantine \cup Down)
      BY <3>2, <3>3, VotersMonotone
    <3> QED
      BY <3>1, <3>4, FaultModel
  <2>10. tat_leader[r] \in Nat
    BY DEF TimingInv, TypeOK, Time
  <2>11. ASSUME tat_leader[r] <= allowed PROVE FALSE
    BY <2>8, <2>9, <2>10, <2>11
  <2> QED
    BY <2>1, <2>11
<1> QED
  BY <1>1, TimingInvariant, PTL
=============================================================================
