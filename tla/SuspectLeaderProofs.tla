------------------------- MODULE SuspectLeaderProofs --------------------------
(* That views are left by vote unless copies are taken for votes, whatever  *)
(* the number of servers, views and ordinals, and whatever Byzantine        *)
(* servers ask for, prove with copies or certify.                           *)
EXTENDS SuspectLeader, PrimeConfigProofs

(* The correct replicas that have asked for view v, and that enough of them *)
(* have asked for every view up to v since the last that rests on copies    *)
Voters(v) == {q \in Correct : <<q, v>> \in votes}
VotedUpTo(v) ==
  \A w \in 2 .. v : (w .. v) \cap copied = {} => Cardinality(Voters(w)) >= F + K + 1

(* A New_Leader is for the view after one that was voted for, ... *)
VotesInTurn == \A q \in Correct, v \in Views : <<q, v>> \in votes => VotedUpTo(v - 1)

(* ... what is stored of a server that is not Byzantine was sent, ... *)
StoredWereSent ==
  \A r \in Correct : \A q \in Servers \ Byzantine :
    new_leader[r][q] # 0 => q \in Correct /\ <<q, new_leader[r][q]>> \in votes

(* ... and ordinals are ordered in views that were voted for. *)
OrderedInTurn == \A n \in 1 .. Len(ordered) : VotedUpTo(ordered[n])

ViewsInTurn == \A r \in Correct : VotedUpTo(View[r]) /\ VotedUpTo(last_view[r])

ViewInv == TypeOK /\ ViewsInTurn /\ VotesInTurn /\ StoredWereSent /\ OrderedInTurn

-----------------------------------------------------------------------------
(* Of 2f+k+1 servers, f+k+1 are not Byzantine.                              *)
LEMMA CorrectVoters ==
  ASSUME NEW A \in SUBSET Servers, NEW C \in SUBSET Correct,
         A \subseteq C \cup Byzantine, Cardinality(A) >= Quorum
  PROVE  Cardinality(C) \in Nat /\ Cardinality(C) >= F + K + 1
<1>1. C \in SUBSET Servers /\ Byzantine \in SUBSET Servers /\ C \cup Byzantine \in SUBSET Servers
  BY FaultModel DEF Correct
<1>2. IsFiniteSet(C) /\ IsFiniteSet(Byzantine)
  BY <1>1, FaultModel, FS_Subset
<1>3. C \cap Byzantine = {}
  BY DEF Correct
<1>4. Cardinality(C \cup Byzantine) = Cardinality(C) + Cardinality(Byzantine)
  <2>1. Cardinality({}) = 0
    BY FS_EmptySet
  <2>2. Cardinality(C) \in Nat /\ Cardinality(Byzantine) \in Nat
    BY <1>2, FS_CardinalityType
  <2>3. Cardinality(C \cup Byzantine)
          = Cardinality(C) + Cardinality(Byzantine) - Cardinality(C \cap Byzantine)
    BY <1>2, FS_Union
  <2>4. Cardinality(C \cap Byzantine) = 0
    BY <1>3, <2>1
  <2> QED
    BY <2>2, <2>3, <2>4
<1>5. /\ Cardinality(A) \in Nat /\ Cardinality(C) \in Nat /\ Cardinality(Byzantine) \in Nat
      /\ Cardinality(A) <= Cardinality(C \cup Byzantine)
  BY <1>1, <1>2, VotersMonotone, FS_CardinalityType
<1> QED
  BY <1>4, <1>5, FaultModel DEF Quorum

(* Votes are never taken back, so what was voted for remains so.            *)
LEMMA VotesRemain ==
  ASSUME votes \subseteq votes', copied \subseteq copied'
  PROVE  \A v : VotedUpTo(v) => VotedUpTo(v)'
<1> SUFFICES ASSUME NEW v, VotedUpTo(v), NEW w \in 2 .. v, (w .. v) \cap copied' = {}
             PROVE  Cardinality(Voters(w)') >= F + K + 1
  BY DEF VotedUpTo
<1>1. Voters(w) \subseteq Voters(w)' /\ Voters(w) \in SUBSET Servers /\ Voters(w)' \in SUBSET Servers
  BY DEF Voters, Correct
<1>2. Cardinality(Voters(w)) >= F + K + 1
  <2>1. (w .. v) \cap copied = {}
    OBVIOUS
  <2> QED
    BY <2>1 DEF VotedUpTo
<1>3. /\ Cardinality(Voters(w)) \in Nat /\ Cardinality(Voters(w)') \in Nat
      /\ Cardinality(Voters(w)) <= Cardinality(Voters(w)')
  BY <1>1, VotersMonotone
<1> QED
  BY <1>2, <1>3, FaultModel

(* With f+k+1 votes for v, everything up to v was voted for: each of the    *)
(* voters was in a view that was.                                           *)
LEMMA NextIsVotedFor ==
  ASSUME VotesInTurn', NEW v \in Views,
         Cardinality(Voters(v)') \in Nat, Cardinality(Voters(v)') >= F + K + 1
  PROVE  VotedUpTo(v)'
<1>1. Voters(v)' # {}
  <2>1. SUFFICES ASSUME Voters(v)' = {} PROVE FALSE
    OBVIOUS
  <2>2. Cardinality(Voters(v)') = 0
    BY <2>1, FS_EmptySet
  <2> QED
    BY <2>2, FaultModel
<1>2. VotedUpTo(v - 1)'
  BY <1>1 DEF Voters, VotesInTurn
<1>3. v \in Nat /\ \A w \in 2 .. v : w \in 2 .. v - 1 \/ w = v
  BY ViewBounds DEF Views
<1> SUFFICES ASSUME NEW w \in 2 .. v, (w .. v) \cap copied' = {}
             PROVE  Cardinality(Voters(w)') >= F + K + 1
  BY DEF VotedUpTo
<1>4. CASE w = v
  BY <1>4
<1>5. CASE w \in 2 .. v - 1
  <2>1. (w .. v - 1) \subseteq (w .. v)
    BY <1>3
  <2> QED
    BY <1>2, <1>5, <2>1 DEF VotedUpTo
<1> QED
  BY <1>3, <1>4, <1>5

(* A view that rests on copies needs no votes.                              *)
LEMMA CopiedNeedsNone ==
  ASSUME NEW v \in Views, v \in copied'
  PROVE  VotedUpTo(v)'
<1> SUFFICES ASSUME NEW w \in 2 .. v PROVE v \in w .. v
  BY DEF VotedUpTo
<1> QED
  BY ViewBounds DEF Views

(* The first view needs no votes.                                           *)
LEMMA InitEstablishes == Init => ViewInv
<1> SUFFICES ASSUME Init PROVE ViewInv
  OBVIOUS
<1>1. 1 \in Views /\ 0 \in 0 .. MaxView /\ 0 \in 0 .. Len(OrderedIn)
  BY ViewBounds DEF Views
<1>2. TypeOK
  <2>1. << >> \in Seq(Views) /\ Len(<< >>) = 0 /\ Len(OrderedIn) \in Nat
    BY ViewBounds
  <2> QED
    BY <1>1, <2>1 DEF Init, TypeOK, No_Votes
<1>3. VotedUpTo(1)
  BY DEF VotedUpTo
<1>4. ViewsInTurn
  BY <1>3 DEF Init, ViewsInTurn
<1>5. VotesInTurn /\ StoredWereSent
  BY DEF Init, VotesInTurn, StoredWereSent, No_Votes
<1>6. OrderedInTurn
  BY DEF Init, OrderedInTurn
<1> QED
  BY <1>2, <1>4, <1>5, <1>6 DEF ViewInv

-----------------------------------------------------------------------------
(* What every step of Start_View_Change does to the types *)
LEMMA StartKeepsTypes ==
  ASSUME TypeOK, NEW r \in Correct, NEW v \in Views, Start_View_Change(r, v)
  PROVE  /\ View' \in [Correct -> Views]
         /\ new_leader' \in [Correct -> [Servers -> 0 .. MaxView]]
         /\ nl_queued' \in [Correct -> BOOLEAN]
         /\ view_change_done' \in [Correct -> BOOLEAN]
         /\ executed_ord' \in [Correct -> BOOLEAN]
         /\ joined' \in [Views -> SUBSET Correct]
<1>1. 0 \in 0 .. MaxView
  BY ViewBounds
<1> QED
  BY <1>1 DEF TypeOK, Start_View_Change, No_Votes

(* Once v was voted for, installing it keeps the invariant, also together   *)
(* with a vote that is in turn.                                             *)
LEMMA StartKeepsInv ==
  ASSUME ViewInv, NEW r \in Correct, NEW v \in Views, Start_View_Change(r, v),
         votes \subseteq votes', votes' \subseteq Correct \X Views,
         copied \subseteq copied', copied' \subseteq Views,
         VotedUpTo(v)', VotesInTurn', UNCHANGED <<ordVars, ordered, misled>>
  PROVE  ViewInv'
<1>1. TypeOK'
  BY StartKeepsTypes DEF ViewInv, TypeOK, ordVars
<1>2. \A w : VotedUpTo(w) => VotedUpTo(w)'
  BY VotesRemain
<1>3. ViewsInTurn'
  <2> SUFFICES ASSUME NEW q \in Correct
               PROVE  VotedUpTo(View[q])' /\ VotedUpTo(last_view[q])'
    BY DEF ViewsInTurn
  <2>1. View'[q] = View[q] \/ View'[q] = v
    BY DEF Start_View_Change, ViewInv, TypeOK
  <2>2. VotedUpTo(View[q]) /\ VotedUpTo(last_view[q])
    BY DEF ViewInv, ViewsInTurn
  <2>3. last_view'[q] = last_view[q]
    BY DEF ordVars
  <2>4. VotedUpTo(View[q])'
    BY <1>2, <2>1, <2>2 DEF VotedUpTo
  <2> QED
    BY <1>2, <2>2, <2>3, <2>4 DEF VotedUpTo
<1>4. StoredWereSent'
  BY DEF StoredWereSent, ViewInv, TypeOK, Start_View_Change, No_Votes
<1>5. OrderedInTurn'
  BY <1>2 DEF OrderedInTurn, ViewInv
<1> QED
  BY <1>1, <1>3, <1>4, <1>5 DEF ViewInv

(* A New_Leader for v that was sent: the steps that process one             *)
LEMMA NewLeaderKeepsInv ==
  ASSUME ViewInv, NEW r \in Correct, NEW q \in Servers, NEW v \in Views,
         SUSPECT_Process_New_Leader(r, q, v),
         q \in Byzantine \/ (q \in Correct /\ <<q, v>> \in votes'),
         votes \subseteq votes', votes' \subseteq Correct \X Views,
         VotesInTurn'
  PROVE  ViewInv'
<1> USE DEF ordVars
<1> DEFINE asked == [new_leader[r] EXCEPT ![q] = v]
           A == {s \in Servers : asked[s] = v}
<1>1. v > 0 /\ v \in 0 .. MaxView /\ v # 0
  BY ViewBounds DEF Views
<1>2. asked \in [Servers -> 0 .. MaxView]
  BY <1>1 DEF ViewInv, TypeOK
<1>3. \A s \in Servers \ Byzantine :
        asked[s] # 0 => s \in Correct /\ <<s, asked[s]>> \in votes'
  <2> SUFFICES ASSUME NEW s \in Servers \ Byzantine, asked[s] # 0
               PROVE  s \in Correct /\ <<s, asked[s]>> \in votes'
    OBVIOUS
  <2>1. CASE s = q
    BY <2>1 DEF ViewInv, TypeOK
  <2>2. CASE s # q
    BY <2>2 DEF ViewInv, TypeOK, StoredWereSent
  <2> QED
    BY <2>1, <2>2
<1>4. CASE Enough_New_Leaders(asked, v)
  <2>1. Start_View_Change(r, v) /\ UNCHANGED <<ordVars, ordered, copied, misled>>
    BY <1>4 DEF SUSPECT_Process_New_Leader
  <2>2. A \in SUBSET Servers /\ Voters(v)' \in SUBSET Correct
    BY DEF Voters
  <2>3. A \subseteq Voters(v)' \cup Byzantine
    BY <1>1, <1>3 DEF Voters
  <2>4. Cardinality(A) >= Quorum
    <3>1. Cardinality(A) = Quorum
      BY <1>4 DEF Enough_New_Leaders
    <3> QED
      BY <3>1, FaultModel DEF Quorum
  <2>5. Cardinality(Voters(v)') \in Nat /\ Cardinality(Voters(v)') >= F + K + 1
    <3> HIDE DEF A
    <3> QED
      BY <2>2, <2>3, <2>4, CorrectVoters
  <2>6. VotedUpTo(v)'
    BY <2>5, NextIsVotedFor
  <2>7. copied' \subseteq Views
    BY <2>1 DEF ViewInv, TypeOK
  <2> QED
    BY <2>1, <2>6, <2>7, StartKeepsInv
<1>5. CASE ~Enough_New_Leaders(asked, v)
  <2>1. /\ new_leader' = [new_leader EXCEPT ![r] = asked]
        /\ nl_queued' = [nl_queued EXCEPT ![r] = @ \/ q = r]
        /\ UNCHANGED <<viewVars, joined, ordVars, ordered, copied, misled>>
    BY <1>5 DEF SUSPECT_Process_New_Leader
  <2>2. TypeOK'
    BY <1>2, <2>1 DEF ViewInv, TypeOK, viewVars
  <2>3. \A w : VotedUpTo(w) => VotedUpTo(w)'
    BY <2>1, VotesRemain
  <2>4. ViewsInTurn' /\ OrderedInTurn'
    BY <2>1, <2>3 DEF ViewInv, ViewsInTurn, OrderedInTurn, viewVars
  <2>5. StoredWereSent'
    <3> SUFFICES ASSUME NEW p \in Correct, NEW s \in Servers \ Byzantine,
                        new_leader'[p][s] # 0
                 PROVE  s \in Correct /\ <<s, new_leader'[p][s]>> \in votes'
      BY DEF StoredWereSent
    <3>1. CASE p = r
      <4>1. new_leader'[p] = asked
        BY <2>1, <3>1 DEF ViewInv, TypeOK
      <4> QED
        BY <1>3, <4>1
    <3>2. CASE p # r
      <4>1. new_leader'[p] = new_leader[p]
        BY <2>1, <3>2 DEF ViewInv, TypeOK
      <4> QED
        BY <4>1 DEF ViewInv, StoredWereSent
    <3> QED
      BY <3>1, <3>2
  <2> QED
    BY <2>2, <2>4, <2>5 DEF ViewInv
<1> QED
  BY <1>4, <1>5

(* Views that a step of catchup can show to a replica: those of others, of  *)
(* ordinals, or of copies                                                   *)
Known(v) ==
  \/ \E q \in Correct : v = View[q] \/ v = last_view[q]
  \/ \E n \in 1 .. Len(ordered) : v = ordered[n]
  \/ v \in copied'

(* Without new votes, stored New_Leaders are the same or forgotten, and a   *)
(* replica's views are known ones: the steps of catchup                     *)
LEMMA CatchupKeepsInv ==
  ASSUME ViewInv, TypeOK', UNCHANGED <<votes, ordered>>, copied \subseteq copied',
         \A q \in Correct : new_leader'[q] \in {new_leader[q], No_Votes},
         \A q \in Correct : Known(View'[q]) /\ Known(last_view'[q])
  PROVE  ViewInv'
<1>1. \A w : VotedUpTo(w) => VotedUpTo(w)'
  BY VotesRemain
<1>2. ViewsInTurn'
  <2>1. \A w : Known(w) => VotedUpTo(w)'
    <3> SUFFICES ASSUME NEW w, Known(w) PROVE VotedUpTo(w)'
      OBVIOUS
    <3>1. CASE VotedUpTo(w)
      BY <1>1, <3>1
    <3>2. CASE w \in copied'
      BY <3>2, CopiedNeedsNone DEF TypeOK
    <3> QED
      BY <3>1, <3>2 DEF Known, ViewInv, ViewsInTurn, OrderedInTurn
  <2> SUFFICES ASSUME NEW q \in Correct
               PROVE  VotedUpTo(View[q])' /\ VotedUpTo(last_view[q])'
    BY DEF ViewsInTurn
  <2> QED
    BY <2>1 DEF VotedUpTo
<1>3. VotesInTurn' /\ OrderedInTurn'
  BY <1>1 DEF ViewInv, VotesInTurn, OrderedInTurn
<1>4. StoredWereSent'
  BY DEF ViewInv, StoredWereSent, No_Votes
<1> QED
  BY <1>2, <1>3, <1>4 DEF ViewInv

(* A jump to an ordinal of a known view *)
LEMMA JumpKeepsInv ==
  ASSUME NEW r \in Correct, NEW n \in 0 .. Len(OrderedIn), NEW v \in Views,
         ViewInv, CATCH_Jump_Ahead(r, n, v), Known(v),
         copied \subseteq copied', copied' \subseteq Views, misled' \subseteq Correct
  PROVE  ViewInv'
<1> DEFINE out == v > View[r] \/ (v = View[r] /\ ~view_change_done[r])
<1>1. /\ View' = [View EXCEPT ![r] = IF v > @ THEN v ELSE @]
      /\ new_leader' = [new_leader EXCEPT ![r] = IF v > View[r] THEN No_Votes ELSE @]
      /\ nl_queued' = [nl_queued EXCEPT ![r] = @ /\ ~out]
      /\ view_change_done' = [view_change_done EXCEPT ![r] = @ \/ out]
      /\ executed_ord' = [executed_ord EXCEPT ![r] = @ \/ out]
      /\ ARU' = [ARU EXCEPT ![r] = n]
      /\ last_view' = [last_view EXCEPT ![r] = v]
      /\ UNCHANGED <<joined, votes, ordered>>
  BY DEF CATCH_Jump_Ahead
<1>2. TypeOK'
  <2>1. nl_queued' \in [Correct -> BOOLEAN]
    BY <1>1 DEF ViewInv, TypeOK
  <2>2. view_change_done' \in [Correct -> BOOLEAN] /\ executed_ord' \in [Correct -> BOOLEAN]
    BY <1>1 DEF ViewInv, TypeOK
  <2>3. 0 \in 0 .. MaxView
    BY ViewBounds
  <2> HIDE DEF out
  <2> QED
    BY <1>1, <2>1, <2>2, <2>3 DEF ViewInv, TypeOK, No_Votes
<1>3. \A q \in Correct : new_leader'[q] \in {new_leader[q], No_Votes}
  BY <1>1 DEF ViewInv, TypeOK
<1>4. \A q \in Correct : Known(View'[q]) /\ Known(last_view'[q])
  BY <1>1 DEF ViewInv, TypeOK, Known
<1> QED
  BY <1>1, <1>2, <1>3, <1>4, CatchupKeepsInv

(* Every step preserves the invariant.                                      *)
LEMMA NextKeepsInv == ViewInv /\ [Next]_vars => ViewInv'
<1> SUFFICES ASSUME ViewInv, [Next]_vars PROVE ViewInv'
  OBVIOUS
<1> USE DEF ViewInv
<1>1. ASSUME NEW r \in Correct, SUSPECT_Suspect_Leader(r) PROVE ViewInv'
  <2> DEFINE v == View[r] + 1
  <2>1. /\ v \in Views /\ View[r] \in Views
        /\ SUSPECT_Process_New_Leader(r, r, v)
        /\ votes' = votes \cup {<<r, v>>}
    BY <1>1, ViewBounds DEF SUSPECT_Suspect_Leader, New_View, TypeOK, Views
  <2>2. r \in Servers /\ votes \subseteq votes' /\ votes' \subseteq Correct \X Views
    BY <2>1 DEF TypeOK, Correct
  <2>3. \A w : VotedUpTo(w) => VotedUpTo(w)'
    <3>1. copied' = copied
      BY <2>1 DEF SUSPECT_Process_New_Leader
    <3> QED
      BY <2>2, <3>1, VotesRemain
  <2>4. VotesInTurn'
    <3> SUFFICES ASSUME NEW q \in Correct, NEW w \in Views, <<q, w>> \in votes'
                 PROVE  VotedUpTo(w - 1)'
      BY DEF VotesInTurn
    <3>1. CASE <<q, w>> \in votes
      BY <2>3, <3>1 DEF VotesInTurn
    <3>2. CASE w = v
      <4>1. w - 1 = View[r] /\ VotedUpTo(View[r])
        BY <2>1, <3>2 DEF ViewsInTurn, Views
      <4> QED
        BY <2>3, <4>1
    <3> QED
      BY <2>1, <3>1, <3>2
  <2> HIDE DEF v
  <2> QED
    BY <2>1, <2>2, <2>4, NewLeaderKeepsInv
<1>2. ASSUME NEW r \in Correct, NEW q \in Servers, NEW v \in Views, New_Leader_Arrives(r, q, v)
      PROVE  ViewInv'
  <2>1. /\ SUSPECT_Process_New_Leader(r, q, v)
        /\ q \in Byzantine \/ <<q, v>> \in votes
        /\ votes' = votes /\ copied' = copied
    BY <1>2 DEF New_Leader_Arrives, SUSPECT_Process_New_Leader
  <2>2. VotesInTurn' /\ votes' \subseteq Correct \X Views
    BY <2>1, VotesRemain DEF VotesInTurn, TypeOK
  <2>3. q \in Byzantine \/ (q \in Correct /\ <<q, v>> \in votes')
    BY <2>1, <2>2
  <2> QED
    BY <2>1, <2>2, <2>3, NewLeaderKeepsInv
<1>3. ASSUME NEW r \in Correct, NEW v \in Views, SUSPECT_Process_New_Leader_Proof(r, v)
      PROVE  ViewInv'
  <2>1. /\ Start_View_Change(r, v)
        /\ copied' = copied \cup (IF Asked_By_Quorum(v) THEN {} ELSE {v})
        /\ UNCHANGED <<ordVars, votes, ordered, misled>>
    BY <1>3 DEF SUSPECT_Process_New_Leader_Proof
  <2>2. copied \subseteq copied' /\ copied' \subseteq Views
    BY <2>1 DEF TypeOK
  <2>3. VotesInTurn' /\ votes' \subseteq Correct \X Views
    BY <2>1, <2>2, VotesRemain DEF VotesInTurn, TypeOK
  <2>4. CASE Asked_By_Quorum(v)
    <3>1. Cardinality(Voters(v) \cup Byzantine) >= Quorum
      BY <2>4 DEF Asked_By_Quorum, Voters
    <3>2. Voters(v) \in SUBSET Correct /\ Voters(v) \cup Byzantine \in SUBSET Servers
          /\ Voters(v) \cup Byzantine \subseteq Voters(v) \cup Byzantine
      BY FaultModel DEF Voters, Correct
    <3>3. Cardinality(Voters(v)) \in Nat /\ Cardinality(Voters(v)) >= F + K + 1
      BY <3>1, <3>2, CorrectVoters
    <3>4. Voters(v)' = Voters(v)
      BY <2>1 DEF Voters
    <3> QED
      BY <2>1, <2>2, <2>3, <3>3, <3>4, NextIsVotedFor, StartKeepsInv
  <2>5. CASE ~Asked_By_Quorum(v)
    <3>1. VotedUpTo(v)'
      BY <2>1, <2>5, CopiedNeedsNone
    <3> QED
      BY <2>1, <2>2, <2>3, <3>1, StartKeepsInv
  <2> QED
    BY <2>4, <2>5
<1>4. ASSUME NEW r \in Correct, View_Change_Done(r) PROVE ViewInv'
  <2>1. TypeOK'
    BY <1>4 DEF View_Change_Done, TypeOK, suspVars, ordVars
  <2> QED
    BY <1>4, <2>1, CatchupKeepsInv DEF View_Change_Done, suspVars, ordVars, Known
<1>5. ASSUME NEW v \in Views, Ordinal_Committed(v) PROVE ViewInv'
  <2> DEFINE A == {s \in Correct : View[s] = v /\ view_change_done[s]} \cup Byzantine
  <2>1. /\ Cardinality(A) >= Quorum
        /\ ordered' = Append(ordered, v)
        /\ Len(ordered) < Len(OrderedIn)
        /\ UNCHANGED <<viewVars, suspVars, ordVars, joined, votes, copied, misled>>
    BY <1>5 DEF Ordinal_Committed
  <2>2. PICK s \in A : s \notin Byzantine
    <3>1. A \in SUBSET Servers
      BY FaultModel DEF Correct
    <3>2. Cardinality(A) \in Nat
      <4> HIDE DEF A
      <4> QED
        BY <3>1, VotersMonotone
    <3>3. Cardinality(A) >= F + 1
      BY <2>1, <3>2, FaultModel DEF Quorum
    <3> HIDE DEF A
    <3> QED
      BY <3>1, <3>3, HonestVoter
  <2>3. VotedUpTo(v)
    BY <2>2 DEF ViewsInTurn
  <2>4. \A w : VotedUpTo(w) => VotedUpTo(w)'
    BY <2>1, VotesRemain
  <2>5. TypeOK'
    <3>1. ordered' \in Seq(Views) /\ Len(ordered') <= Len(OrderedIn)
      BY <2>1, ViewBounds DEF TypeOK
    <3> QED
      BY <2>1, <3>1 DEF TypeOK, viewVars, suspVars, ordVars
  <2>6. OrderedInTurn'
    <3> SUFFICES ASSUME NEW n \in 1 .. Len(ordered') PROVE VotedUpTo(ordered[n])'
      BY DEF OrderedInTurn
    <3>1. ordered \in Seq(Views) /\ Len(ordered') = Len(ordered) + 1
      BY <2>1 DEF TypeOK
    <3>2. ordered'[n] = v \/ (n \in 1 .. Len(ordered) /\ ordered'[n] = ordered[n])
      BY <2>1, <3>1
    <3>3. \A w : w = ordered'[n] => VotedUpTo(w)
      BY <2>3, <3>2 DEF OrderedInTurn
    <3> QED
      BY <2>4, <3>3 DEF VotedUpTo
  <2>7. ViewsInTurn' /\ VotesInTurn' /\ StoredWereSent'
    BY <2>1, <2>4 DEF ViewsInTurn, VotesInTurn, StoredWereSent, viewVars, suspVars, ordVars
  <2> QED
    BY <2>5, <2>6, <2>7
<1>6. ASSUME NEW r \in Correct, ORDER_Execute_Commit(r) PROVE ViewInv'
  <2>1. ARU[r] + 1 \in 0 .. Len(OrderedIn) /\ ARU[r] + 1 \in 1 .. Len(ordered)
    BY <1>6, ViewBounds DEF ORDER_Execute_Commit, TypeOK
  <2>2. ordered[ARU[r] + 1] \in Views
    BY <2>1 DEF TypeOK
  <2>3. TypeOK'
    BY <1>6, <2>1, <2>2 DEF ORDER_Execute_Commit, TypeOK, suspVars
  <2>4. \A q \in Correct : Known(View'[q]) /\ Known(last_view'[q])
    BY <1>6, <2>1 DEF ORDER_Execute_Commit, TypeOK, Known
  <2> QED
    BY <1>6, <2>3, <2>4, CatchupKeepsInv DEF ORDER_Execute_Commit, suspVars
<1>7. ASSUME NEW r \in Correct, CATCH_Process_ORD_Certificate(r) PROVE ViewInv'
  <2> DEFINE v == ordered[ARU[r] + 1]
  <2>1. /\ Switch_View(r, v)
        /\ executed_ord' = [executed_ord EXCEPT ![r] = TRUE]
        /\ ARU' = [ARU EXCEPT ![r] = @ + 1]
        /\ last_view' = [last_view EXCEPT ![r] = v]
        /\ ARU[r] < Len(ordered)
        /\ UNCHANGED <<joined, votes, ordered, copied, misled>>
    BY <1>7 DEF CATCH_Process_ORD_Certificate
  <2>2. ARU[r] + 1 \in 1 .. Len(ordered) /\ ARU[r] + 1 \in 0 .. Len(OrderedIn)
    BY <2>1, ViewBounds DEF TypeOK
  <2>3. v \in Views
    BY <2>2 DEF TypeOK
  <2>4. \A q \in Correct : Known(View'[q]) /\ Known(last_view'[q])
    BY <2>1, <2>2 DEF Switch_View, TypeOK, Known
  <2> HIDE DEF v
  <2>5. 0 \in 0 .. MaxView
    BY ViewBounds
  <2>6. TypeOK'
    BY <2>1, <2>2, <2>3, <2>5 DEF Switch_View, TypeOK, No_Votes
  <2>7. \A q \in Correct : new_leader'[q] \in {new_leader[q], No_Votes}
    BY <2>1 DEF Switch_View, TypeOK
  <2> QED
    BY <2>1, <2>4, <2>6, <2>7, CatchupKeepsInv
<1>8. ASSUME NEW r \in Correct, NEW s \in Correct, CATCH_Process_Jump(r, s) PROVE ViewInv'
  <2>1. CATCH_Jump_Ahead(r, ARU[s], last_view[s]) /\ copied' = copied /\ misled' = misled
    BY <1>8 DEF CATCH_Process_Jump
  <2>2. ARU[s] \in 0 .. Len(OrderedIn) /\ last_view[s] \in Views /\ Known(last_view[s])
    BY DEF TypeOK, Known
  <2>3. copied' \subseteq Views /\ misled' \subseteq Correct /\ copied \subseteq copied'
    BY <2>1 DEF TypeOK
  <2> QED
    BY <2>1, <2>2, <2>3, JumpKeepsInv
<1>9. ASSUME NEW r \in Correct, NEW n \in 1 .. Len(OrderedIn), NEW v \in Views,
             CATCH_Process_Made_Up_Certificate(r, n, v)
      PROVE  ViewInv'
  <2>1. misled' = misled \cup {r} /\ UNCHANGED <<ordVars, joined, votes, ordered>>
    BY <1>9 DEF CATCH_Process_Made_Up_Certificate
  <2>2. CASE n = ARU[r] + 1 /\ Switches_View(r, v)
    <3>1. /\ Switch_View(r, v)
          /\ executed_ord' = [executed_ord EXCEPT ![r] = FALSE]
          /\ copied' = copied \cup {v}
      BY <1>9, <2>2 DEF CATCH_Process_Made_Up_Certificate
    <3>2. 0 \in 0 .. MaxView
      BY ViewBounds
    <3>3. TypeOK'
      BY <2>1, <3>1, <3>2 DEF Switch_View, TypeOK, No_Votes, ordVars
    <3>4. \A q \in Correct : new_leader'[q] \in {new_leader[q], No_Votes}
      BY <3>1 DEF Switch_View, TypeOK
    <3>5. \A q \in Correct : Known(View'[q]) /\ Known(last_view'[q])
      BY <2>1, <3>1 DEF Switch_View, TypeOK, Known, ordVars
    <3> QED
      BY <2>1, <3>1, <3>3, <3>4, <3>5, CatchupKeepsInv
  <2>3. CASE ~(n = ARU[r] + 1 /\ Switches_View(r, v))
    <3>1. UNCHANGED <<viewVars, suspVars, copied>>
      BY <1>9, <2>3 DEF CATCH_Process_Made_Up_Certificate
    <3>2. TypeOK'
      BY <2>1, <3>1 DEF TypeOK, viewVars, suspVars, ordVars
    <3> QED
      BY <2>1, <3>1, <3>2, CatchupKeepsInv DEF Known, viewVars, suspVars, ordVars
  <2> QED
    BY <2>2, <2>3
<1>10. ASSUME NEW r \in Correct, NEW n \in 1 .. Len(OrderedIn), NEW v \in Views,
              CATCH_Process_Made_Up_Jump(r, n, v)
       PROVE  ViewInv'
  <2>1. CATCH_Jump_Ahead(r, n, v) /\ copied' = copied \cup {v} /\ misled' = misled \cup {r}
    BY <1>10 DEF CATCH_Process_Made_Up_Jump
  <2>2. copied' \subseteq Views /\ misled' \subseteq Correct /\ copied \subseteq copied'
    BY <2>1 DEF TypeOK
  <2>3. n \in 0 .. Len(OrderedIn) /\ Known(v)
    BY <2>1, ViewBounds DEF Known
  <2> QED
    BY <2>1, <2>2, <2>3, JumpKeepsInv
<1>11. CASE UNCHANGED vars
  <2>1. TypeOK'
    BY <1>11 DEF TypeOK, vars, viewVars, suspVars, ordVars
  <2> QED
    BY <1>11, <2>1, CatchupKeepsInv DEF vars, viewVars, suspVars, ordVars, Known
<1> QED
  BY <1>1, <1>2, <1>3, <1>4, <1>5, <1>6, <1>7, <1>8, <1>9, <1>10, <1>11 DEF Next

-----------------------------------------------------------------------------
(* The inductive invariant holds.                                           *)
THEOREM ViewInvariant == Spec => []ViewInv
<1> QED
  BY InitEstablishes, NextKeepsInv, PTL DEF Spec

(* Type correctness of the suspect-leader protocol, whatever views and      *)
(* ordinals made-up certificates name.                                      *)
THEOREM ViewTypeOK == Spec => []TypeOK
<1>1. ViewInv => TypeOK
  BY DEF ViewInv
<1> QED
  BY <1>1, ViewInvariant, PTL

(* For every view that a correct replica installs, by New_Leaders, by a     *)
(* proof, from an ordinal or by a jump, f+k+1 correct replicas have asked,  *)
(* and so for every view before it, back to the last view that a proof or   *)
(* certificate made of copies has brought.                                  *)
THEOREM ViewsVotedFor == Spec => []ViewsAreVotedFor
<1>1. ViewInv => ViewsAreVotedFor
  BY DEF ViewInv, ViewsInTurn, VotedUpTo, Voters, ViewsAreVotedFor
<1> QED
  BY <1>1, ViewInvariant, PTL
=============================================================================
