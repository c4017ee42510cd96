---------------------------- MODULE SuspectLeader -----------------------------
(***************************************************************************)
(* How replicas leave a view (prime/src/suspect_leader.c) and how one that *)
(* was left behind follows (catchup.c).  A replica that suspects the       *)
(* leader sends its New_Leader again and again until it leaves the view;   *)
(* one that has 2f+k+1 of them installs the next view and sends these, as  *)
(* a New_Leader_Proof, again and again until it executes an ordinal.  The  *)
(* others then learn of the view from the ordinals.                        *)
(*                                                                         *)
(* Messages are lost, late and reordered: what was ever sent may arrive    *)
(* at any time, but only what is sent again must arrive.  When a replica   *)
(* suspects its leader is LeaderTiming's matter, how the view change ends  *)
(* ViewChange's, and what is ordered Ordering's.                           *)
(*                                                                         *)
(* The validation of proofs and certificates counts the New_Leaders and    *)
(* Commits in them without asking that their senders differ, so Byzantine  *)
(* servers can also make them up of copies of what they sign themselves.   *)
(***************************************************************************)
EXTENDS PrimeConfig, Sequences

CONSTANTS
  UTIL_Leader_Of_View,  \* the servers lead in turn
  MaxView,              \* bound: the last view
  OrderedIn,            \* bound: the views in which ordinals are ordered
  Asked,                \* bound: which replica Byzantine servers ask for which view
  Copied,               \* bound: the views of the proofs they make of copies
  Made_Up               \* bound: the certificates: to whom, ordinal, view

Views == 1 .. MaxView

ASSUME ViewBounds ==
  /\ MaxView \in Nat \ {0} /\ OrderedIn \in Seq(Views)
  /\ Asked \subseteq Servers \X Views /\ Copied \subseteq Views
  /\ Made_Up \subseteq Servers \X (1 .. Len(OrderedIn)) \X Views
  /\ UTIL_Leader_Of_View \in [Views -> Servers]

VARIABLES
  View,              \* DATA.View
  new_leader,        \* DATA.SUSP.new_leader: the view that each asks for, or 0
  nl_queued,         \* is SUSPECT_New_Leader_Periodically in the queue?
  view_change_done,  \* DATA.VIEW.view_change_done
  executed_ord,      \* DATA.VIEW.executed_ord
  ARU,               \* DATA.ORD.ARU
  last_view,         \* the view of the slot at the ARU
  joined,            \* the replicas that have been in the view change of a view
  votes,             \* the New_Leaders that correct replicas have signed
  ordered,           \* the views in which the ordinals have been committed
  copied,            \* the views of what was made up of copies and accepted
  misled             \* the replicas that have accepted a made-up certificate

suspVars == <<new_leader, nl_queued>>
viewVars == <<View, view_change_done, executed_ord>>
ordVars == <<ARU, last_view>>
vars == <<viewVars, suspVars, ordVars, joined, votes, ordered, copied, misled>>

TypeOK ==
  /\ View \in [Correct -> Views]
  /\ new_leader \in [Correct -> [Servers -> 0 .. MaxView]]
  /\ nl_queued \in [Correct -> BOOLEAN]
  /\ view_change_done \in [Correct -> BOOLEAN]
  /\ executed_ord \in [Correct -> BOOLEAN]
  /\ ARU \in [Correct -> 0 .. Len(OrderedIn)]
  /\ last_view \in [Correct -> Views]
  /\ joined \in [Views -> SUBSET Correct]
  /\ votes \subseteq Correct \X Views
  /\ ordered \in Seq(Views) /\ Len(ordered) <= Len(OrderedIn)
  /\ copied \subseteq Views /\ misled \subseteq Correct

No_Votes == [s \in Servers |-> 0]

(* The first view needs no view change. *)
Init ==
  /\ View = [r \in Correct |-> 1]
  /\ new_leader = [r \in Correct |-> No_Votes]
  /\ nl_queued = [r \in Correct |-> FALSE]
  /\ view_change_done = [r \in Correct |-> TRUE]
  /\ executed_ord = [r \in Correct |-> TRUE]
  /\ ARU = [r \in Correct |-> 0]
  /\ last_view = [r \in Correct |-> 1]
  /\ joined = [v \in Views |-> IF v = 1 THEN Correct ELSE {}]
  /\ votes = {}
  /\ ordered = << >>
  /\ copied = {}
  /\ misled = {}

-----------------------------------------------------------------------------
\* mutants of Start_View_Change and Enough_New_Leaders
KeepVotes(r, v) ==
  /\ View' = [View EXCEPT ![r] = v]
  /\ view_change_done' = [view_change_done EXCEPT ![r] = FALSE]
  /\ executed_ord' = [executed_ord EXCEPT ![r] = FALSE]
  /\ new_leader' = new_leader
  /\ nl_queued' = [nl_queued EXCEPT ![r] = FALSE]
  /\ joined' = [joined EXCEPT ![v] = @ \cup {r}]
AskedByMost(asked, v) ==
  Cardinality({s \in Servers : asked[s] = v}) = F + K

(* The view is installed, the New_Leader no longer sent, and what was      *)
(* known of the old view forgotten (SUSPECT_Initialize_Upon_View_Change    *)
(* and VIEW_Initialize_Upon_View_Change); the proof is sent from now on.   *)
Start_View_Change(r, v) ==
  /\ View' = [View EXCEPT ![r] = v]
  /\ view_change_done' = [view_change_done EXCEPT ![r] = FALSE]
  /\ executed_ord' = [executed_ord EXCEPT ![r] = FALSE]
  /\ new_leader' = [new_leader EXCEPT ![r] = No_Votes]
  /\ nl_queued' = [nl_queued EXCEPT ![r] = FALSE]
  /\ joined' = [joined EXCEPT ![v] = @ \cup {r}]

Enough_New_Leaders(asked, v) ==
  Cardinality({s \in Servers : asked[s] = v}) = Quorum

(* r has a New_Leader of q for view v: one for a later view replaces the   *)
(* stored one.                                                             *)
SUSPECT_Process_New_Leader(r, q, v) ==
  LET asked == [new_leader[r] EXCEPT ![q] = v] IN
  /\ v > View[r]
  /\ v > new_leader[r][q]
  /\ IF Enough_New_Leaders(asked, v)
     THEN Start_View_Change(r, v)
     ELSE /\ new_leader' = [new_leader EXCEPT ![r] = asked]
          /\ nl_queued' = [nl_queued EXCEPT ![r] = @ \/ q = r]
          /\ UNCHANGED <<viewVars, joined>>
  /\ UNCHANGED <<ordVars, ordered, copied, misled>>

\* mutant of New_View: the leader's next turn
NextTurn(r) == View[r] + Cardinality(Servers)

(* The view that r asks for in SUSPECT_Construct_New_Leader *)
New_View(r) == View[r] + 1

(* r suspects its leader (leader_suspected is set with its own New_Leader  *)
(* and reset with it), or has two Pre-Prepares of it                       *)
SUSPECT_Suspect_Leader(r) ==
  /\ View[r] < MaxView
  /\ new_leader[r][r] = 0
  /\ SUSPECT_Process_New_Leader(r, r, New_View(r))
  /\ votes' = votes \cup {<<r, New_View(r)>>}

(* A New_Leader of another replica, or of a Byzantine server *)
New_Leader_Arrives(r, q, v) ==
  /\ q # r
  /\ (q \in Byzantine /\ <<r, v>> \in Asked) \/ <<q, v>> \in votes
  /\ SUSPECT_Process_New_Leader(r, q, v)
  /\ UNCHANGED votes

(* SUSPECT_New_Leader_Periodically sends the own New_Leader if there is one*)
Sends_New_Leader(q, v) == nl_queued[q] /\ new_leader[q][q] = v

(* Whoever has 2f+k+1 New_Leaders can show them, ... *)
Asked_By_Quorum(v) ==
  Cardinality({q \in Correct : <<q, v>> \in votes} \cup Byzantine) >= Quorum

(* ... but neither VAL_Validate_New_Leader_Proof nor the handler asks that *)
(* they are of different servers.                                          *)
Provable(v) == Asked_By_Quorum(v) \/ (Byzantine # {} /\ v \in Copied)

(* The receiver sends the proof on as its own. *)
SUSPECT_Process_New_Leader_Proof(r, v) ==
  /\ v > View[r]
  /\ Provable(v)
  /\ Start_View_Change(r, v)
  /\ copied' = copied \cup (IF Asked_By_Quorum(v) THEN {} ELSE {v})
  /\ UNCHANGED <<ordVars, votes, ordered, misled>>

\* mutant of Sends_Proof: not when the view change is done
StopsWhenDone(q) == ~executed_ord[q] /\ q \notin misled /\ ~view_change_done[q]

(* SUSPECT_New_Leader_Proof_Periodically.  A made-up certificate resets    *)
(* executed_ord without a proof.                                           *)
Sends_Proof(q) == ~executed_ord[q] /\ q \notin misled

-----------------------------------------------------------------------------
(* The view change ends at r, which has first executed what was ordered in *)
(* earlier views.                                                          *)
View_Change_Done(r) ==
  /\ ~view_change_done[r]
  /\ UTIL_Leader_Of_View[View[r]] \notin Down
  /\ Cardinality(joined[View[r]] \cup Byzantine) >= Quorum
  /\ \A n \in 1 .. Len(ordered) : ordered[n] < View[r] => n <= ARU[r]
  /\ view_change_done' = [view_change_done EXCEPT ![r] = TRUE]
  /\ UNCHANGED <<View, executed_ord, suspVars, ordVars, joined, votes, ordered, copied, misled>>

(* 2f+k+1 replicas have sent Commits for the next ordinal. *)
Ordinal_Committed(v) ==
  /\ Len(ordered) < Len(OrderedIn) /\ v = OrderedIn[Len(ordered) + 1]
  /\ Cardinality({s \in Correct : View[s] = v /\ view_change_done[s]} \cup Byzantine) >= Quorum
  /\ ordered' = Append(ordered, v)
  /\ UNCHANGED <<viewVars, suspVars, ordVars, joined, votes, copied, misled>>

(* Pre-Prepares and Commits of a later view are dropped, those of an       *)
(* earlier one too, except in a view change and if the last executed       *)
(* ordinal is not of a later view                                          *)
Accepts(r, v) ==
  \/ v = View[r]
  \/ v < View[r] /\ ~view_change_done[r] /\ (ARU[r] > 0 => v >= last_view[r])

(* ORDER_Execute_Commit, whether the Commits came one by one, in an        *)
(* ORD_Certificate or had been waiting for a PO_Request                    *)
ORDER_Execute_Commit(r) ==
  /\ ARU[r] < Len(ordered)
  /\ Accepts(r, ordered[ARU[r] + 1])
  /\ ARU' = [ARU EXCEPT ![r] = @ + 1]
  /\ last_view' = [last_view EXCEPT ![r] = ordered[ARU[r] + 1]]
  /\ executed_ord' = [executed_ord EXCEPT ![r] = TRUE]
  /\ UNCHANGED <<View, view_change_done, suspVars, joined, votes, ordered, copied, misled>>

(* May r switch to view v, in which the next ordinal was ordered? *)
Switches_View(r, v) ==
  IF ARU[r] = 0
  THEN View[r] < v \/ (View[r] = v /\ ~view_change_done[r])
  ELSE /\ last_view[r] < v
       /\ View[r] = last_view[r] \/ (View[r] = v /\ ~view_change_done[r])

Switch_View(r, v) ==
  /\ Switches_View(r, v)
  /\ View' = [View EXCEPT ![r] = v]
  /\ new_leader' = [new_leader EXCEPT ![r] = No_Votes]
  /\ nl_queued' = [nl_queued EXCEPT ![r] = FALSE]
  /\ view_change_done' = [view_change_done EXCEPT ![r] = TRUE]

(* An ORD_Certificate with which r switches to the view of the ordinal,    *)
(* which it then executes                                                  *)
CATCH_Process_ORD_Certificate(r) ==
  /\ ARU[r] < Len(ordered)
  /\ \E s \in Correct : ARU[s] > ARU[r]
  /\ LET v == ordered[ARU[r] + 1] IN
     /\ Switch_View(r, v)
     /\ executed_ord' = [executed_ord EXCEPT ![r] = TRUE]
     /\ ARU' = [ARU EXCEPT ![r] = @ + 1]
     /\ last_view' = [last_view EXCEPT ![r] = v]
  /\ UNCHANGED <<joined, votes, ordered, copied, misled>>

(* A certificate with copies of one Commit, of any view: r switches to     *)
(* that before it counts the Commits, and then executes nothing.  The slot *)
(* takes no other certificate until the next switch of the view.           *)
CATCH_Process_Made_Up_Certificate(r, n, v) ==
  /\ Byzantine # {} /\ <<r, n, v>> \in Made_Up
  /\ n > ARU[r]
  /\ IF n = ARU[r] + 1 /\ Switches_View(r, v)
     THEN /\ Switch_View(r, v)
          /\ executed_ord' = [executed_ord EXCEPT ![r] = FALSE]
          /\ copied' = copied \cup {v}
     ELSE UNCHANGED <<viewVars, suspVars, copied>>
  /\ misled' = misled \cup {r}
  /\ UNCHANGED <<ordVars, joined, votes, ordered>>

(* r jumps to ordinal n, of view v.  If r was in the view change to v,     *)
(* that is over, but only a change of the view resets what SUSP holds.     *)
CATCH_Jump_Ahead(r, n, v) ==
  /\ n > ARU[r]
  /\ LET out == v > View[r] \/ (v = View[r] /\ ~view_change_done[r]) IN
     /\ View' = [View EXCEPT ![r] = IF v > @ THEN v ELSE @]
     /\ new_leader' = [new_leader EXCEPT ![r] = IF v > View[r] THEN No_Votes ELSE @]
     /\ nl_queued' = [nl_queued EXCEPT ![r] = @ /\ ~out]
     /\ view_change_done' = [view_change_done EXCEPT ![r] = @ \/ out]
     /\ executed_ord' = [executed_ord EXCEPT ![r] = @ \/ out]
  /\ ARU' = [ARU EXCEPT ![r] = n]
  /\ last_view' = [last_view EXCEPT ![r] = v]
  /\ UNCHANGED <<joined, votes, ordered>>

(* A Jump to the last ordinal of s, with the certificate that s has *)
CATCH_Process_Jump(r, s) ==
  /\ CATCH_Jump_Ahead(r, ARU[s], last_view[s])
  /\ UNCHANGED <<copied, misled>>

(* A Jump of a Byzantine server, which was asked for it *)
CATCH_Process_Made_Up_Jump(r, n, v) ==
  /\ Byzantine # {} /\ <<r, n, v>> \in Made_Up
  /\ CATCH_Jump_Ahead(r, n, v)
  /\ copied' = copied \cup {v}
  /\ misled' = misled \cup {r}

Next ==
  \/ \E r \in Correct : SUSPECT_Suspect_Leader(r)
  \/ \E r \in Correct, q \in Servers, v \in Views : New_Leader_Arrives(r, q, v)
  \/ \E r \in Correct, v \in Views : SUSPECT_Process_New_Leader_Proof(r, v)
  \/ \E r \in Correct : View_Change_Done(r)
  \/ \E v \in Views : Ordinal_Committed(v)
  \/ \E r \in Correct : ORDER_Execute_Commit(r)
  \/ \E r \in Correct : CATCH_Process_ORD_Certificate(r)
  \/ \E r, s \in Correct : CATCH_Process_Jump(r, s)
  \/ \E r \in Correct, n \in 1 .. Len(OrderedIn), v \in Views :
       \/ CATCH_Process_Made_Up_Certificate(r, n, v)
       \/ CATCH_Process_Made_Up_Jump(r, n, v)

Spec == Init /\ [][Next]_vars

-----------------------------------------------------------------------------
(* The views of leaders that do not lead *)
Bad_Views == {v \in Views : UTIL_Leader_Of_View[v] \notin Correct}

(* All correct replicas are in such a view v. *)
Stuck_With(v) == v \in Bad_Views /\ \A r \in Correct : View[r] = v

(* What is sent again arrives some time, replicas that are behind ask the  *)
(* others for what they miss until they have it, and a leader that does    *)
(* not lead is suspected when all correct replicas watch it (LeaderTiming).*)
(* Each of these steps can be taken only so often, so one WF is enough.    *)
Arrives_Or_Catches_Up ==
  \/ \E r, q \in Correct, v \in Views :
       Sends_New_Leader(q, v) /\ New_Leader_Arrives(r, q, v)
  \/ \E r, q \in Correct :
       Sends_Proof(q) /\ SUSPECT_Process_New_Leader_Proof(r, View[q])
  \/ \E r \in Correct : Stuck_With(View[r]) /\ SUSPECT_Suspect_Leader(r)
  \/ \E r \in Correct : ORDER_Execute_Commit(r)
  \/ \E r \in Correct : CATCH_Process_ORD_Certificate(r)
  \/ \E r, s \in Correct : CATCH_Process_Jump(r, s)

FairSpec == Spec /\ WF_vars(Arrives_Or_Catches_Up)

(* r has set executed_ord for an ordinal of an earlier view, which it has  *)
(* executed in the view change: it no longer shows the others why it left, *)
(* before any ordinal could show them where it went.                       *)
Proof_Stopped_Early(r) ==
  executed_ord[r] /\ View[r] > 1 /\ (ARU[r] = 0 \/ last_view[r] # View[r])

(* What may keep replicas apart: a proof that is no longer sent, or a      *)
(* made-up certificate, which takes its receiver to a view for which it    *)
(* has no proof to send on                                                 *)
Kept_Apart == misled # {} \/ \E r \in Correct : Proof_Stopped_Early(r)

(* The view that one correct replica installs is reached by all: none is   *)
(* left in a view that the others no longer work in.  That it was          *)
(* installed by a proof made of copies is no exception, because the proof  *)
(* is sent on; what ORDER_Execute_Commit does in a view change is one, and *)
(* so is a made-up certificate.                                            *)
NoneLeftBehind ==
  \A v \in Views \ {1} :
    (\E r \in Correct : View[r] = v) ~> (\A r \in Correct : View[r] >= v) \/ Kept_Apart

(* A leader that does not lead is left, whatever views its followers have  *)
(* gone through and whatever Byzantine servers ask for or prove, with the  *)
(* same exceptions.                                                        *)
BadLeaderLeft ==
  \A v \in Bad_Views \ {MaxView} :
    Stuck_With(v) ~> (\A r \in Correct : View[r] > v) \/ Kept_Apart

(* A view for which no copies were accepted is installed only when f+k+1   *)
(* correct replicas have left the one before it, and the same holds of the *)
(* views before it, back to the last one for which copies were accepted:   *)
(* New_Leaders of Byzantine servers alone neither start nor skip a view,   *)
(* and wrong certificates bring about no views but their own.              *)
ViewsAreVotedFor ==
  \A r \in Correct : \A v \in 2 .. View[r] :
    (v .. View[r]) \cap copied = {} =>
      Cardinality({q \in Correct : <<q, v>> \in votes}) >= F + K + 1
=============================================================================
