-------------------------- MODULE ReliableBroadcast --------------------------
(***************************************************************************)
(* The asynchronous reliable broadcast of prime/src/reliable_broadcast.c,  *)
(* with which a view change disseminates its Report and PC_Set messages.   *)
(*                                                                         *)
(* One instance is modelled: the slot of one (rb_tag.machine_id,           *)
(* rb_tag.seq_num) pair, through several views.  Every replica keeps one   *)
(* rb_slot for it and clears it when it starts a view change.              *)
(*                                                                         *)
(* A message, once sent, stays in msgs: it may reach each replica never,   *)
(* once or several times and in any order.  This covers losses, the copies *)
(* made by RB_Periodic_Retrans and messages of a view long left.           *)
(***************************************************************************)
EXTENDS PrimeConfig

CONSTANTS
  Originator,   \* the rb_tag.machine_id of the instance
  Payloads,     \* the Reports (or PC_Sets) the instance may carry
  NoPayload,    \* a NULL rb_msg
  MaxView,      \* bound: views are 1 .. MaxView
  LieViews,     \* bound: the views in which Byzantine servers send
  LieTo         \* bound: the replicas Byzantine servers send to

ASSUME Bounds ==
  /\ Originator \in Servers
  /\ NoPayload \notin Payloads
  /\ MaxView \in Nat \ {0}
  /\ LieViews \subseteq 1 .. MaxView
  /\ LieTo \subseteq Servers

Views == 1 .. MaxView

Message == [type : {"RB_INIT", "RB_ECHO", "RB_READY"}, sender : Servers,
            view : Views, payload : Payloads]

VARIABLES
  View,            \* DATA.View of every replica
  rb_msg,          \* rb_slot.rb_msg: the payload the slot is bound to
  state,           \* rb_slot.state
  echo_received,   \* rb_slot.echo_received (echo_count is its cardinality)
  ready_received,  \* rb_slot.ready_received (ready_count is its cardinality)
  msgs,            \* every message a correct replica has sent
  delivered        \* history: how often PROCESS_Message(rb_msg) was called,
                   \* per replica, view and payload

slotVars == <<rb_msg, state, echo_received, ready_received>>
vars == <<View, slotVars, msgs, delivered>>

TypeOK ==
  /\ View \in [Correct -> Views]
  /\ rb_msg \in [Correct -> Payloads \cup {NoPayload}]
  /\ state \in [Correct -> {"INIT", "SENT_ECHO", "SENT_READY"}]
  /\ echo_received \in [Correct -> SUBSET Servers]
  /\ ready_received \in [Correct -> SUBSET Servers]
  /\ msgs \subseteq Message
  /\ delivered \in [Correct -> [Views -> [Payloads -> Nat]]]

-----------------------------------------------------------------------------
Init ==
  /\ View = [r \in Correct |-> 1]
  /\ rb_msg = [r \in Correct |-> NoPayload]
  /\ state = [r \in Correct |-> "INIT"]
  /\ echo_received = [r \in Correct |-> {}]
  /\ ready_received = [r \in Correct |-> {}]
  /\ msgs = {}
  /\ delivered = [r \in Correct |-> [v \in Views |-> [p \in Payloads |-> 0]]]

\* mutant of RB_Construct_Message: the payload is not copied
ConstructEmpty(type, r, v, p) ==
  [type |-> type, sender |-> r, view |-> v, payload |-> NoPayload]

(* RB_Construct_Message: the message names its sender, the payload its view *)
RB_Construct_Message(type, r, v, p) ==
  [type |-> type, sender |-> r, view |-> v, payload |-> p]

(* The network may hand m to r: a correct replica sent it, or its sender   *)
(* is Byzantine and can make it up.  A payload is signed by some server,   *)
(* and the validation of the wrapped message does not tie that signature   *)
(* to rb_tag.machine_id, so a Byzantine server may put any payload into    *)
(* the instance.                                                           *)
InNetwork(m, r) ==
  \/ m \in msgs
  \/ m.sender \in Byzantine /\ m.view \in LieViews /\ r \in LieTo

\* mutant of DigestMatches: the comparison with rb_digest is left out
AnyDigest(r, p) == TRUE

(* The slot binds itself to the first payload it sees; a message carrying  *)
(* another one is ignored from then on.                                    *)
DigestMatches(r, p) == rb_msg[r] \in {NoPayload, p}

(* The ECHO and READY a replica sends on reaching a threshold: both cases  *)
(* fall through, so a replica that had not echoed yet echoes as well.      *)
Echo_And_Ready(r, p) ==
  (IF state[r] = "INIT"
   THEN {RB_Construct_Message("RB_ECHO", r, View[r], p)} ELSE {})
  \cup
  (IF state[r] \in {"INIT", "SENT_ECHO"}
   THEN {RB_Construct_Message("RB_READY", r, View[r], p)} ELSE {})

\* mutants of the two thresholds
BecomesReadyLate(ready_count) == ready_count = F + 2
DeliversFrom(ready_count) == ready_count >= Quorum

(* The thresholds of RB_Process_Ready: counted with "==", so each is       *)
(* crossed once.                                                           *)
Becomes_Ready(ready_count) == ready_count = F + 1
Delivers(ready_count) == ready_count = Quorum

-----------------------------------------------------------------------------
(* A replica installs a later view and starts its view change: RB slots    *)
(* are cleared, and the originator broadcasts its payload for the view.    *)
RB_Initialize_Upon_View_Change(r) ==
  \E v \in Views :
    /\ v > View[r]
    /\ View' = [View EXCEPT ![r] = v]
    /\ rb_msg' = [rb_msg EXCEPT ![r] = NoPayload]
    /\ state' = [state EXCEPT ![r] = "INIT"]
    /\ echo_received' = [echo_received EXCEPT ![r] = {}]
    /\ ready_received' = [ready_received EXCEPT ![r] = {}]
    /\ IF r = Originator
       THEN \E p \in Payloads :
              msgs' = msgs \cup {RB_Construct_Message("RB_INIT", r, v, p)}
       ELSE msgs' = msgs
    /\ UNCHANGED delivered

RB_Process_Init(r, s, p) ==
  /\ InNetwork(RB_Construct_Message("RB_INIT", s, View[r], p), r)
  /\ DigestMatches(r, p)
  /\ state[r] = "INIT"
  /\ rb_msg' = [rb_msg EXCEPT ![r] = p]
  /\ state' = [state EXCEPT ![r] = "SENT_ECHO"]
  /\ msgs' = msgs \cup {RB_Construct_Message("RB_ECHO", r, View[r], p)}
  /\ UNCHANGED <<View, echo_received, ready_received, delivered>>

RB_Process_Echo(r, s, p) ==
  /\ InNetwork(RB_Construct_Message("RB_ECHO", s, View[r], p), r)
  /\ DigestMatches(r, p)
  /\ s \notin echo_received[r]
  /\ rb_msg' = [rb_msg EXCEPT ![r] = p]
  /\ echo_received' = [echo_received EXCEPT ![r] = @ \cup {s}]
  /\ IF Cardinality(echo_received'[r]) = Quorum
     THEN /\ state' = [state EXCEPT ![r] = "SENT_READY"]
          /\ msgs' = msgs \cup Echo_And_Ready(r, p)
     ELSE UNCHANGED <<state, msgs>>
  /\ UNCHANGED <<View, ready_received, delivered>>

(* f+1 READYs make a replica ready (and return); the Quorum-th delivers.   *)
RB_Process_Ready(r, s, p) ==
  /\ InNetwork(RB_Construct_Message("RB_READY", s, View[r], p), r)
  /\ DigestMatches(r, p)
  /\ s \notin ready_received[r]
  /\ rb_msg' = [rb_msg EXCEPT ![r] = p]
  /\ ready_received' = [ready_received EXCEPT ![r] = @ \cup {s}]
  /\ LET ready_count == Cardinality(ready_received'[r]) IN
       /\ IF Becomes_Ready(ready_count)
          THEN /\ state' = [state EXCEPT ![r] = "SENT_READY"]
               /\ msgs' = msgs \cup Echo_And_Ready(r, p)
          ELSE UNCHANGED <<state, msgs>>
       /\ IF Delivers(ready_count)
          THEN delivered' = [delivered EXCEPT ![r][View[r]][p] = @ + 1]
          ELSE UNCHANGED delivered
  /\ UNCHANGED <<View, echo_received>>

Next ==
  \E r \in Correct :
    \/ RB_Initialize_Upon_View_Change(r)
    \/ \E s \in Servers, p \in Payloads :
         \/ RB_Process_Init(r, s, p)
         \/ RB_Process_Echo(r, s, p)
         \/ RB_Process_Ready(r, s, p)

Spec == Init /\ [][Next]_vars

(* Handlers run to completion in an event loop, and RB_Periodic_Retrans    *)
(* re-sends a replica's own INIT, ECHO and READY until the view change     *)
(* ends: between replicas that are up, a message of the current view       *)
(* eventually arrives.  As each is handled once, it is enough to ask that  *)
(* the replicas do not all stop while one of them has a message to handle. *)
(* Nothing is assumed of Byzantine senders.                                *)
Fairness ==
  WF_vars(\E r, s \in Correct, p \in Payloads :
            \/ RB_Process_Init(r, s, p)
            \/ RB_Process_Echo(r, s, p)
            \/ RB_Process_Ready(r, s, p))

FairSpec == Spec /\ Fairness

-----------------------------------------------------------------------------
(* No two correct replicas deliver different payloads for the slot in the  *)
(* same view, whatever the Byzantine servers send to whom: this is what    *)
(* lets the view change treat complete_state as the same data everywhere.  *)
Agreement ==
  \A r, s \in Correct, v \in Views, p, q \in Payloads :
    delivered[r][v][p] > 0 /\ delivered[s][v][q] > 0 => p = q

(* A replica hands the slot's message to PROCESS_Message at most once per  *)
(* view: VIEW_Process_Report and VIEW_Process_PC_Set assert that there are *)
(* no duplicates "since we are using the RB protocol".                     *)
NoDuplicates ==
  \A r \in Correct, v \in Views, p \in Payloads :
    /\ delivered[r][v][p] <= 1
    /\ \A q \in Payloads \ {p} : delivered[r][v][p] = 0 \/ delivered[r][v][q] = 0

AllInLastView == \A r \in Correct : View[r] = MaxView

(* A delivery spreads: once one correct replica delivers p, all do, unless *)
(* some correct replica had bound its slot to another payload first (the   *)
(* case the TODO in the handlers leaves open).                             *)
Totality ==
  \A p \in Payloads :
    (AllInLastView /\ \E r \in Correct : delivered[r][MaxView][p] > 0)
      ~> \/ \A r \in Correct : delivered[r][MaxView][p] > 0
         \/ \E r \in Correct : rb_msg[r] \notin {NoPayload, p}
=============================================================================
