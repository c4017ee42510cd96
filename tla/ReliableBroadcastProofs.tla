----------------------- MODULE ReliableBroadcastProofs -----------------------
(***************************************************************************)
(* Agreement and NoDuplicates of the reliable broadcast, for every set of  *)
(* replicas, every f and k, every number of views and whatever the         *)
(* Byzantine servers send.                                                 *)
(***************************************************************************)
EXTENDS ReliableBroadcast, PrimeConfigProofs

Echoed(s, v, p) == RB_Construct_Message("RB_ECHO", s, v, p) \in msgs
Readied(s, v, p) == RB_Construct_Message("RB_READY", s, v, p) \in msgs

\* The servers whose ECHO (READY) for p in view v somebody may count.
EchoVoters(v, p) == {s \in Servers : s \in Byzantine \/ Echoed(s, v, p)}
ReadyVoters(v, p) == {s \in Servers : s \in Byzantine \/ Readied(s, v, p)}

(* What a replica has echoed in its current view is what its slot is bound *)
(* to, and it has echoed nothing in views to come.                         *)
EchoesBound ==
  \A r \in Correct, v \in Views, p \in Payloads :
    Echoed(r, v, p) =>
      /\ v <= View[r]
      /\ v = View[r] => rb_msg[r] = p /\ state[r] # "INIT"

OneEchoPerView ==
  \A r \in Correct, v \in Views, p, q \in Payloads :
    Echoed(r, v, p) /\ Echoed(r, v, q) => p = q

(* A counted vote is a vote for the payload the slot is bound to.          *)
CountedEchoes ==
  \A r \in Correct : \A s \in echo_received[r] :
    rb_msg[r] \in Payloads /\ s \in EchoVoters(View[r], rb_msg[r])

CountedReadies ==
  \A r \in Correct : \A s \in ready_received[r] :
    rb_msg[r] \in Payloads /\ s \in ReadyVoters(View[r], rb_msg[r])

(* Behind every READY of a correct replica stands a quorum of ECHOs, be it *)
(* that it counted them or that it followed f+1 other READYs.              *)
ReadiesBacked ==
  \A r \in Correct, v \in Views, p \in Payloads :
    Readied(r, v, p) => Cardinality(EchoVoters(v, p)) >= Quorum

DeliveriesBacked ==
  \A r \in Correct, v \in Views, p \in Payloads :
    delivered[r][v][p] > 0 => Cardinality(ReadyVoters(v, p)) >= Quorum

(* A slot that has delivered has counted its quorum of READYs, so the      *)
(* count cannot reach the threshold a second time.                         *)
DeliveredOnce ==
  \A r \in Correct, v \in Views, p \in Payloads :
    /\ delivered[r][v][p] <= 1
    /\ delivered[r][v][p] > 0 =>
         /\ v <= View[r]
         /\ v = View[r] => Cardinality(ready_received[r]) >= Quorum

RBInv ==
  /\ TypeOK
  /\ \A m \in msgs : m.sender \in Correct
  /\ EchoesBound
  /\ OneEchoPerView
  /\ CountedEchoes
  /\ CountedReadies
  /\ ReadiesBacked
  /\ DeliveriesBacked
  /\ DeliveredOnce

-----------------------------------------------------------------------------
(* Messages are equal only when all their fields are: RB_Construct_Message *)
(* loses nothing of type, sender, view and payload.                        *)
LEMMA MessageFields ==
  ASSUME NEW t, NEW r, NEW v, NEW p, NEW t2, NEW r2, NEW v2, NEW p2
  PROVE  RB_Construct_Message(t, r, v, p) = RB_Construct_Message(t2, r2, v2, p2)
           <=> t = t2 /\ r = r2 /\ v = v2 /\ p = p2
BY DEF RB_Construct_Message

(* Sending more messages only adds voters, so a quorum stays a quorum.     *)
LEMMA VotersGrow ==
  ASSUME msgs \subseteq msgs', NEW v \in Views, NEW p \in Payloads
  PROVE  /\ EchoVoters(v, p) \in SUBSET Servers
         /\ EchoVoters(v, p)' \in SUBSET Servers
         /\ EchoVoters(v, p) \subseteq EchoVoters(v, p)'
         /\ ReadyVoters(v, p) \in SUBSET Servers
         /\ ReadyVoters(v, p)' \in SUBSET Servers
         /\ ReadyVoters(v, p) \subseteq ReadyVoters(v, p)'
         /\ Cardinality(EchoVoters(v, p)) >= Quorum => Cardinality(EchoVoters(v, p)') >= Quorum
         /\ Cardinality(ReadyVoters(v, p)) >= Quorum => Cardinality(ReadyVoters(v, p)') >= Quorum
<1>1. /\ EchoVoters(v, p) \in SUBSET Servers
      /\ EchoVoters(v, p)' \in SUBSET Servers
      /\ EchoVoters(v, p) \subseteq EchoVoters(v, p)'
      /\ ReadyVoters(v, p) \in SUBSET Servers
      /\ ReadyVoters(v, p)' \in SUBSET Servers
      /\ ReadyVoters(v, p) \subseteq ReadyVoters(v, p)'
  BY DEF EchoVoters, ReadyVoters, Echoed, Readied
<1>2. Cardinality(EchoVoters(v, p)) <= Cardinality(EchoVoters(v, p)')
  BY <1>1, VotersMonotone
<1>3. Cardinality(ReadyVoters(v, p)) <= Cardinality(ReadyVoters(v, p)')
  BY <1>1, VotersMonotone
<1>4. /\ Cardinality(EchoVoters(v, p)) \in Nat
      /\ Cardinality(EchoVoters(v, p)') \in Nat
      /\ Cardinality(ReadyVoters(v, p)) \in Nat
      /\ Cardinality(ReadyVoters(v, p)') \in Nat
  BY <1>1, VotersMonotone
<1>5. Quorum \in Nat
  BY FaultModel DEF Quorum
<1> QED
  BY <1>1, <1>2, <1>3, <1>4, <1>5

(* The initial states: empty slots, nothing sent.                          *)
LEMMA RBInvInit == Init => RBInv
<1> SUFFICES ASSUME Init PROVE RBInv
  OBVIOUS
<1>1. TypeOK
  BY Bounds, FaultModel DEF Init, TypeOK, Views
<1>2. EchoesBound /\ OneEchoPerView /\ ReadiesBacked
  BY DEF Init, EchoesBound, OneEchoPerView, ReadiesBacked, Echoed, Readied
<1>3. CountedEchoes /\ CountedReadies
  BY DEF Init, CountedEchoes, CountedReadies
<1>4. \A r \in Correct, v \in Views, p \in Payloads : delivered[r][v][p] = 0
  BY DEF Init
<1>5. DeliveriesBacked /\ DeliveredOnce
  BY <1>4 DEF DeliveriesBacked, DeliveredOnce
<1> QED
  BY <1>1, <1>2, <1>3, <1>5 DEF RBInv, Init

(* Changing view empties the slot, so nothing remains counted for the new  *)
(* view, and nothing was echoed or delivered in it before.                 *)
LEMMA RBInvViewChange ==
  ASSUME RBInv, NEW r \in Correct, RB_Initialize_Upon_View_Change(r)
  PROVE  RBInv'
<1> PICK v0 \in Views :
       /\ v0 > View[r]
       /\ View' = [View EXCEPT ![r] = v0]
       /\ rb_msg' = [rb_msg EXCEPT ![r] = NoPayload]
       /\ state' = [state EXCEPT ![r] = "INIT"]
       /\ echo_received' = [echo_received EXCEPT ![r] = {}]
       /\ ready_received' = [ready_received EXCEPT ![r] = {}]
       /\ msgs' = msgs \/ \E p \in Payloads :
                            msgs' = msgs \cup {RB_Construct_Message("RB_INIT", r, v0, p)}
       /\ delivered' = delivered
  BY DEF RB_Initialize_Upon_View_Change
<1> USE DEF RBInv
<1>1. TypeOK'
  BY Bounds, FaultModel DEF TypeOK, Message, RB_Construct_Message, Correct
<1>2. msgs \subseteq msgs' /\ (\A m \in msgs : m.sender \in Correct)'
  BY DEF RB_Construct_Message
<1>3. \A s, v, p : /\ Echoed(s, v, p)' <=> Echoed(s, v, p)
                   /\ Readied(s, v, p)' <=> Readied(s, v, p)
  BY MessageFields DEF Echoed, Readied
<1>4. \A v, p : /\ EchoVoters(v, p)' = EchoVoters(v, p)
                /\ ReadyVoters(v, p)' = ReadyVoters(v, p)
  BY <1>3 DEF EchoVoters, ReadyVoters
<1>5. EchoesBound'
  BY <1>3 DEF EchoesBound, TypeOK, Views
<1>6. OneEchoPerView'
  BY <1>3 DEF OneEchoPerView
<1>7. CountedEchoes' /\ CountedReadies'
  BY <1>4 DEF CountedEchoes, CountedReadies, TypeOK
<1>8. ReadiesBacked' /\ DeliveriesBacked'
  BY <1>3, <1>4 DEF ReadiesBacked, DeliveriesBacked
<1>9. DeliveredOnce'
  BY DEF DeliveredOnce, TypeOK, Views
<1> QED
  BY <1>1, <1>2, <1>5, <1>6, <1>7, <1>8, <1>9

-----------------------------------------------------------------------------
(* What the three handlers have in common: the slot is bound to p, and the *)
(* replica sends nothing, its ECHO, or (with a quorum of ECHOs behind p)   *)
(* its READY, preceded by its ECHO if it had not sent one.                 *)
SlotStep(r, p) ==
  /\ DigestMatches(r, p)
  /\ View' = View
  /\ rb_msg' = [rb_msg EXCEPT ![r] = p]
  /\ \/ state' = state /\ msgs' = msgs
     \/ /\ state[r] = "INIT"
        /\ state' = [state EXCEPT ![r] = "SENT_ECHO"]
        /\ msgs' = msgs \cup {RB_Construct_Message("RB_ECHO", r, View[r], p)}
     \/ /\ Cardinality(EchoVoters(View[r], p)) >= Quorum
        /\ state' = [state EXCEPT ![r] = "SENT_READY"]
        /\ msgs' = msgs \cup Echo_And_Ready(r, p)

(* Such a step keeps the replica's echoes unique in its view and its READY *)
(* backed by a quorum.                                                     *)
LEMMA RBInvSlotStep ==
  ASSUME RBInv, NEW r \in Correct, NEW p \in Payloads, SlotStep(r, p)
  PROVE  /\ msgs' \subseteq Message
         /\ msgs \subseteq msgs'
         /\ (\A m \in msgs : m.sender \in Correct)'
         /\ state' \in [Correct -> {"INIT", "SENT_ECHO", "SENT_READY"}]
         /\ rb_msg' \in [Correct -> Payloads \cup {NoPayload}]
         /\ rb_msg'[r] = p
         /\ \A q \in Correct \ {r} : rb_msg'[q] = rb_msg[q]
         /\ EchoesBound'
         /\ OneEchoPerView'
         /\ ReadiesBacked'
<1> DEFINE E == RB_Construct_Message("RB_ECHO", r, View[r], p)
           R == RB_Construct_Message("RB_READY", r, View[r], p)
<1>1. TypeOK /\ View[r] \in Views /\ r \in Servers
  BY DEF RBInv, TypeOK, Correct
<1>2. \/ msgs' = msgs /\ state' = state
      \/ /\ msgs' \in {msgs \cup {E}, msgs \cup {E, R}}
         /\ state[r] = "INIT"
         /\ state' \in [Correct -> {"INIT", "SENT_ECHO", "SENT_READY"}]
         /\ state'[r] # "INIT"
         /\ \A q \in Correct \ {r} : state'[q] = state[q]
      \/ /\ msgs' \in {msgs, msgs \cup {R}}
         /\ state' \in [Correct -> {"INIT", "SENT_ECHO", "SENT_READY"}]
         /\ state'[r] # "INIT"
         /\ state[r] # "INIT"
         /\ \A q \in Correct \ {r} : state'[q] = state[q]
  BY <1>1 DEF SlotStep, Echo_And_Ready, TypeOK
<1>3. E \in Message /\ R \in Message /\ E.sender = r /\ R.sender = r
  BY <1>1 DEF Message, RB_Construct_Message
<1>4. /\ msgs' \subseteq Message
      /\ msgs \subseteq msgs'
      /\ (\A m \in msgs : m.sender \in Correct)'
      /\ state' \in [Correct -> {"INIT", "SENT_ECHO", "SENT_READY"}]
  BY <1>1, <1>2, <1>3 DEF RBInv, TypeOK
<1>5. /\ rb_msg' \in [Correct -> Payloads \cup {NoPayload}]
      /\ rb_msg'[r] = p
      /\ \A q \in Correct \ {r} : rb_msg'[q] = rb_msg[q]
  BY <1>1 DEF SlotStep, TypeOK
<1>6. \A q, v, x : Echoed(q, v, x)' =>
        \/ Echoed(q, v, x)
        \/ q = r /\ v = View[r] /\ x = p /\ state[r] = "INIT" /\ state'[r] # "INIT"
  BY <1>2, MessageFields DEF Echoed
<1>7. EchoesBound'
  <2> SUFFICES ASSUME NEW q \in Correct, NEW v \in Views, NEW x \in Payloads, Echoed(q, v, x)'
               PROVE  v <= View[q] /\ (v = View[q] => rb_msg'[q] = x /\ state'[q] # "INIT")
    BY DEF EchoesBound, SlotStep
  <2>1. CASE Echoed(q, v, x)
    <3>1. v <= View[q] /\ (v = View[q] => rb_msg[q] = x /\ state[q] # "INIT")
      BY <2>1 DEF RBInv, EchoesBound
    <3>2. v = View[q] => rb_msg'[q] = rb_msg[q] \/ rb_msg[q] = NoPayload
      BY <1>5 DEF SlotStep, DigestMatches
    <3>3. state[q] # "INIT" => state'[q] # "INIT"
      BY <1>2
    <3> QED
      BY <3>1, <3>2, <3>3, Bounds
  <2>2. CASE q = r /\ v = View[r] /\ x = p /\ state'[r] # "INIT"
    BY <2>2, <1>1, <1>5 DEF Views
  <2> QED
    BY <1>6, <2>1, <2>2
<1>8. OneEchoPerView'
  <2> SUFFICES ASSUME NEW q \in Correct, NEW v \in Views, NEW x \in Payloads, NEW y \in Payloads,
                      Echoed(q, v, x)', Echoed(q, v, y)'
               PROVE  x = y
    BY DEF OneEchoPerView
  <2>1. CASE state[r] = "INIT" /\ q = r /\ v = View[r]
    BY <2>1, <1>6 DEF RBInv, EchoesBound
  <2>2. CASE ~(state[r] = "INIT" /\ q = r /\ v = View[r])
    BY <2>2, <1>6 DEF RBInv, OneEchoPerView
  <2> QED
    BY <2>1, <2>2
<1>9. ReadiesBacked'
  <2> SUFFICES ASSUME NEW q \in Correct, NEW v \in Views, NEW x \in Payloads, Readied(q, v, x)'
               PROVE  Cardinality(EchoVoters(v, x)') >= Quorum
    BY DEF ReadiesBacked
  <2>1. Readied(q, v, x) \/ (v = View[r] /\ x = p /\ Cardinality(EchoVoters(View[r], p)) >= Quorum)
    BY MessageFields DEF Readied, SlotStep, Echo_And_Ready
  <2>2. Cardinality(EchoVoters(v, x)) >= Quorum
    BY <2>1 DEF RBInv, ReadiesBacked
  <2> QED
    BY <2>2, <1>4, VotersGrow
<1> QED
  BY <1>4, <1>5, <1>7, <1>8, <1>9

(* RB_Process_Init: the replica echoes the first payload it is bound to.   *)
LEMMA RBInvInitMsg ==
  ASSUME RBInv, NEW r \in Correct, NEW s \in Servers, NEW p \in Payloads,
         RB_Process_Init(r, s, p)
  PROVE  RBInv'
<1>1. SlotStep(r, p)
  BY DEF RB_Process_Init, SlotStep
<1>2. UNCHANGED <<View, echo_received, ready_received, delivered>>
  BY DEF RB_Process_Init
<1>3. TypeOK'
  BY <1>1, <1>2, RBInvSlotStep DEF RBInv, TypeOK
<1>4. \A v \in Views, x \in Payloads :
        /\ EchoVoters(v, x) \subseteq EchoVoters(v, x)'
        /\ ReadyVoters(v, x) \subseteq ReadyVoters(v, x)'
        /\ Cardinality(ReadyVoters(v, x)) >= Quorum => Cardinality(ReadyVoters(v, x)') >= Quorum
  BY <1>1, RBInvSlotStep, VotersGrow
<1>5. CountedEchoes' /\ CountedReadies'
  BY <1>1, <1>2, <1>4, RBInvSlotStep, Bounds
     DEF RBInv, CountedEchoes, CountedReadies, SlotStep, DigestMatches, TypeOK
<1>6. DeliveriesBacked'
  BY <1>2, <1>4 DEF RBInv, DeliveriesBacked
<1>7. DeliveredOnce'
  BY <1>2 DEF RBInv, DeliveredOnce
<1> QED
  BY <1>1, <1>3, <1>5, <1>6, <1>7, RBInvSlotStep DEF RBInv

(* RB_Process_Echo: a quorum of counted ECHOs is a quorum of voters for p. *)
LEMMA RBInvEchoMsg ==
  ASSUME RBInv, NEW r \in Correct, NEW s \in Servers, NEW p \in Payloads,
         RB_Process_Echo(r, s, p)
  PROVE  RBInv'
<1> PICK w \in Views : w = View[r]
  BY DEF RBInv, TypeOK
<1>1. /\ View[r] \in Views
      /\ echo_received[r] \in SUBSET Servers
      /\ echo_received'[r] = echo_received[r] \cup {s}
  BY DEF RBInv, TypeOK, RB_Process_Echo
<1>2. s \in EchoVoters(View[r], p)
  BY DEF RB_Process_Echo, InNetwork, EchoVoters, Echoed, RB_Construct_Message
<1>3. echo_received'[r] \subseteq EchoVoters(View[r], p)
  BY <1>1, <1>2, Bounds DEF RBInv, CountedEchoes, RB_Process_Echo, DigestMatches
<1>4. Cardinality(echo_received'[r]) = Quorum => Cardinality(EchoVoters(View[r], p)) >= Quorum
  <2>1. /\ echo_received'[r] \in SUBSET Servers
        /\ EchoVoters(View[r], p) \in SUBSET Servers
    BY <1>1 DEF EchoVoters
  <2> QED
    BY <1>3, <2>1, VotersMonotone
<1>5. SlotStep(r, p)
  BY <1>4 DEF RB_Process_Echo, SlotStep
<1>6. UNCHANGED <<View, ready_received, delivered>>
  BY DEF RB_Process_Echo
<1>7. TypeOK'
  BY <1>5, <1>6, RBInvSlotStep DEF RBInv, TypeOK, RB_Process_Echo
<1>8. \A v \in Views, x \in Payloads :
        /\ EchoVoters(v, x) \subseteq EchoVoters(v, x)'
        /\ ReadyVoters(v, x) \subseteq ReadyVoters(v, x)'
        /\ Cardinality(ReadyVoters(v, x)) >= Quorum => Cardinality(ReadyVoters(v, x)') >= Quorum
  BY <1>5, RBInvSlotStep, VotersGrow
<1>9. CountedEchoes'
  <2> SUFFICES ASSUME NEW q \in Correct, NEW t \in echo_received'[q]
               PROVE  (rb_msg[q] \in Payloads /\ t \in EchoVoters(View[q], rb_msg[q]))'
    BY <1>6 DEF CountedEchoes
  <2>1. CASE q = r
    <3>1. t \in EchoVoters(w, p)'
      BY <2>1, <1>1, <1>3, <1>8
    <3> QED
      BY <3>1, <2>1, <1>5, <1>6, RBInvSlotStep DEF EchoVoters, Echoed
  <2>2. CASE q # r
    <3>1. t \in echo_received[q] /\ rb_msg'[q] = rb_msg[q]
      BY <2>2, <1>5, RBInvSlotStep DEF RBInv, TypeOK, RB_Process_Echo
    <3>2. rb_msg[q] \in Payloads /\ t \in EchoVoters(View[q], rb_msg[q]) /\ View[q] \in Views
      BY <3>1 DEF RBInv, CountedEchoes, TypeOK
    <3> QED
      BY <3>1, <3>2, <1>6, <1>8 DEF EchoVoters, Echoed
  <2> QED
    BY <2>1, <2>2
<1>10. CountedReadies'
  BY <1>5, <1>6, <1>8, RBInvSlotStep, Bounds
     DEF RBInv, CountedReadies, SlotStep, DigestMatches, TypeOK
<1>11. DeliveriesBacked'
  BY <1>6, <1>8 DEF RBInv, DeliveriesBacked
<1>12. DeliveredOnce'
  BY <1>6 DEF RBInv, DeliveredOnce
<1> QED
  BY <1>5, <1>7, <1>9, <1>10, <1>11, <1>12, RBInvSlotStep DEF RBInv

(* RB_Process_Ready: among f+1 READYs one is of a correct replica, whose   *)
(* READY is backed; and a delivery has a quorum of READYs behind it, which *)
(* the slot's count passes only once.                                      *)
LEMMA RBInvReadyMsg ==
  ASSUME RBInv, NEW r \in Correct, NEW s \in Servers, NEW p \in Payloads,
         RB_Process_Ready(r, s, p)
  PROVE  RBInv'
<1> PICK w \in Views : w = View[r]
  BY DEF RBInv, TypeOK
<1>1. /\ View[r] \in Views
      /\ ready_received[r] \in SUBSET Servers
      /\ ready_received'[r] = ready_received[r] \cup {s}
      /\ ready_received'[r] \in SUBSET Servers
      /\ s \notin ready_received[r]
  BY DEF RBInv, TypeOK, RB_Process_Ready
<1>2. s \in ReadyVoters(View[r], p)
  BY DEF RB_Process_Ready, InNetwork, ReadyVoters, Readied, RB_Construct_Message
<1>3. ready_received'[r] \subseteq ReadyVoters(View[r], p)
  BY <1>1, <1>2, Bounds DEF RBInv, CountedReadies, RB_Process_Ready, DigestMatches
<1>4. Cardinality(ready_received'[r]) = F + 1 => Cardinality(EchoVoters(View[r], p)) >= Quorum
  <2> SUFFICES ASSUME Cardinality(ready_received'[r]) = F + 1
               PROVE  Cardinality(EchoVoters(View[r], p)) >= Quorum
    OBVIOUS
  <2>1. Cardinality(ready_received'[r]) >= F + 1
    BY FaultModel
  <2>2. PICK t \in ready_received'[r] : t \notin Byzantine
    BY <1>1, <2>1, HonestVoter
  <2>3. Readied(t, View[r], p)
    BY <1>3, <2>2 DEF ReadyVoters
  <2>4. t \in Correct
    BY <2>3 DEF RBInv, Readied, RB_Construct_Message
  <2> QED
    BY <1>1, <2>3, <2>4 DEF RBInv, ReadiesBacked
<1>5. SlotStep(r, p)
  BY <1>4 DEF RB_Process_Ready, SlotStep, Becomes_Ready
<1>6. UNCHANGED <<View, echo_received>>
  BY DEF RB_Process_Ready
<1>7. /\ delivered' \in [Correct -> [Views -> [Payloads -> Nat]]]
      /\ \A q \in Correct, v \in Views, x \in Payloads :
           \/ delivered'[q][v][x] = delivered[q][v][x]
           \/ /\ q = r /\ v = View[r] /\ x = p
              /\ delivered'[q][v][x] = delivered[q][v][x] + 1
              /\ Cardinality(ready_received'[r]) = Quorum
  <2>1. CASE UNCHANGED delivered
    BY <2>1 DEF RBInv, TypeOK
  <2>2. CASE /\ Cardinality(ready_received'[r]) = Quorum
             /\ delivered' = [delivered EXCEPT ![r][w][p] = @ + 1]
    <3>1. delivered \in [Correct -> [Views -> [Payloads -> Nat]]]
      BY DEF RBInv, TypeOK
    <3>2. delivered[r] \in [Views -> [Payloads -> Nat]]
      BY <3>1
    <3>3. delivered[r][w] \in [Payloads -> Nat]
      BY <3>2
    <3> DEFINE dw == [delivered[r][w] EXCEPT ![p] = @ + 1]
               dr == [delivered[r] EXCEPT ![w] = dw]
    <3>4. delivered' = [delivered EXCEPT ![r] = dr]
      BY <2>2
    <3>5. /\ dw \in [Payloads -> Nat]
          /\ dw[p] = delivered[r][w][p] + 1
          /\ \A x \in Payloads : x # p => dw[x] = delivered[r][w][x]
      BY <3>3
    <3> HIDE DEF dw
    <3>6. /\ dr \in [Views -> [Payloads -> Nat]]
          /\ dr[w] = dw
          /\ \A v \in Views : v # w => dr[v] = delivered[r][v]
      BY <3>2, <3>5
    <3> HIDE DEF dr
    <3>7. /\ delivered' \in [Correct -> [Views -> [Payloads -> Nat]]]
          /\ delivered'[r] = dr
          /\ \A q \in Correct : q # r => delivered'[q] = delivered[q]
      BY <3>1, <3>4, <3>6
    <3> QED
      BY <2>2, <3>5, <3>6, <3>7
  <2> QED
    BY <2>1, <2>2 DEF RB_Process_Ready, Delivers
<1>8. TypeOK'
  <2>1. ready_received' \in [Correct -> SUBSET Servers]
    BY DEF RBInv, TypeOK, RB_Process_Ready
  <2> QED
    BY <2>1, <1>5, <1>6, <1>7, RBInvSlotStep DEF RBInv, TypeOK
<1>9. \A v \in Views, x \in Payloads :
        /\ EchoVoters(v, x) \subseteq EchoVoters(v, x)'
        /\ ReadyVoters(v, x) \subseteq ReadyVoters(v, x)'
        /\ ReadyVoters(v, x)' \in SUBSET Servers
        /\ Cardinality(ReadyVoters(v, x)) >= Quorum => Cardinality(ReadyVoters(v, x)') >= Quorum
  BY <1>5, RBInvSlotStep, VotersGrow
<1>10. CountedReadies'
  <2> SUFFICES ASSUME NEW q \in Correct, NEW t \in ready_received'[q]
               PROVE  (rb_msg[q] \in Payloads /\ t \in ReadyVoters(View[q], rb_msg[q]))'
    BY <1>6 DEF CountedReadies
  <2>1. CASE q = r
    <3>1. t \in ReadyVoters(w, p)'
      BY <2>1, <1>1, <1>3, <1>9
    <3> QED
      BY <3>1, <2>1, <1>5, <1>6, RBInvSlotStep DEF ReadyVoters, Readied
  <2>2. CASE q # r
    <3>1. t \in ready_received[q] /\ rb_msg'[q] = rb_msg[q]
      BY <2>2, <1>5, RBInvSlotStep DEF RBInv, TypeOK, RB_Process_Ready
    <3>2. rb_msg[q] \in Payloads /\ t \in ReadyVoters(View[q], rb_msg[q]) /\ View[q] \in Views
      BY <3>1 DEF RBInv, CountedReadies, TypeOK
    <3> QED
      BY <3>1, <3>2, <1>6, <1>9 DEF ReadyVoters, Readied
  <2> QED
    BY <2>1, <2>2
<1>11. CountedEchoes'
  BY <1>5, <1>6, <1>9, RBInvSlotStep, Bounds
     DEF RBInv, CountedEchoes, SlotStep, DigestMatches, TypeOK
<1>12. Cardinality(ready_received'[r]) = Quorum => Cardinality(ReadyVoters(w, p)') >= Quorum
  <2>1. ready_received'[r] \subseteq ReadyVoters(w, p)'
    BY <1>1, <1>3, <1>9
  <2> QED
    BY <1>1, <1>9, <2>1, VotersMonotone
<1>13. DeliveriesBacked'
  <2> SUFFICES ASSUME NEW q \in Correct, NEW v \in Views, NEW x \in Payloads,
                      delivered'[q][v][x] > 0
               PROVE  Cardinality(ReadyVoters(v, x)') >= Quorum
    BY DEF DeliveriesBacked
  <2>1. CASE delivered'[q][v][x] = delivered[q][v][x]
    BY <2>1, <1>9 DEF RBInv, DeliveriesBacked
  <2>2. CASE v = View[r] /\ x = p /\ Cardinality(ready_received'[r]) = Quorum
    BY <2>2, <1>12
  <2> QED
    BY <2>1, <2>2, <1>7
<1>14. /\ Cardinality(ready_received[r]) \in Nat
       /\ Cardinality(ready_received'[r]) = Cardinality(ready_received[r]) + 1
  <2>1. IsFiniteSet(ready_received[r])
    BY <1>1, FaultModel, FS_Subset
  <2> QED
    BY <2>1, <1>1, FS_AddElement, FS_CardinalityType
<1>15. DeliveredOnce'
  <2> SUFFICES ASSUME NEW q \in Correct, NEW v \in Views, NEW x \in Payloads
               PROVE  /\ delivered'[q][v][x] <= 1
                      /\ delivered'[q][v][x] > 0 =>
                           /\ v <= View[q]
                           /\ v = View[q] => Cardinality(ready_received'[q]) >= Quorum
    BY <1>6 DEF DeliveredOnce
  <2>1. /\ delivered[q][v][x] \in Nat
        /\ delivered[q][v][x] <= 1
        /\ delivered[q][v][x] > 0 =>
             /\ v <= View[q]
             /\ v = View[q] => Cardinality(ready_received[q]) >= Quorum
    BY DEF RBInv, DeliveredOnce, TypeOK
  <2>2. Quorum \in Nat
    BY FaultModel DEF Quorum
  <2>3. q # r => ready_received'[q] = ready_received[q]
    BY DEF RBInv, TypeOK, RB_Process_Ready
  <2>4. CASE delivered'[q][v][x] = delivered[q][v][x]
    BY <2>1, <2>2, <2>3, <2>4, <1>14
  <2>5. CASE /\ q = r /\ v = View[r] /\ x = p
             /\ delivered'[q][v][x] = delivered[q][v][x] + 1
             /\ Cardinality(ready_received'[r]) = Quorum
    BY <2>1, <2>2, <2>5, <1>1, <1>14 DEF Views
  <2> QED
    BY <2>4, <2>5, <1>7
<1> QED
  BY <1>5, <1>8, <1>10, <1>11, <1>13, <1>15, RBInvSlotStep DEF RBInv

-----------------------------------------------------------------------------
(* RBInv is an inductive invariant of the reliable broadcast.              *)
THEOREM RBInvariant == Spec => []RBInv
<1>1. Init => RBInv
  BY RBInvInit
<1>2. RBInv /\ [Next]_vars => RBInv'
  <2> SUFFICES ASSUME RBInv, [Next]_vars PROVE RBInv'
    OBVIOUS
  <2>1. CASE Next
    BY <2>1, RBInvViewChange, RBInvInitMsg, RBInvEchoMsg, RBInvReadyMsg DEF Next
  <2>2. CASE UNCHANGED vars
    BY <2>2 DEF vars, slotVars, RBInv, TypeOK, EchoesBound, OneEchoPerView, CountedEchoes,
         CountedReadies, ReadiesBacked, DeliveriesBacked, DeliveredOnce,
         EchoVoters, ReadyVoters, Echoed, Readied
  <2> QED
    BY <2>1, <2>2
<1> QED
  BY <1>1, <1>2, PTL DEF Spec

(* Behind two deliveries stand two quorums of ECHOs, and a replica that is *)
(* not Byzantine in both of them echoed one payload only.                  *)
LEMMA RBInvAgreement == RBInv => Agreement
<1> SUFFICES ASSUME RBInv, NEW r \in Correct, NEW s \in Correct, NEW v \in Views,
                    NEW p \in Payloads, NEW q \in Payloads,
                    delivered[r][v][p] > 0, delivered[s][v][q] > 0
             PROVE  p = q
  BY DEF Agreement
<1>1. \A x \in Payloads : Cardinality(ReadyVoters(v, x)) >= Quorum
                            => Cardinality(EchoVoters(v, x)) >= Quorum
  <2> SUFFICES ASSUME NEW x \in Payloads, Cardinality(ReadyVoters(v, x)) >= Quorum
               PROVE  Cardinality(EchoVoters(v, x)) >= Quorum
    OBVIOUS
  <2>1. ReadyVoters(v, x) \in SUBSET Servers
    BY DEF ReadyVoters
  <2>2. PICK t \in ReadyVoters(v, x) : t \notin Byzantine
    BY <2>1, QuorumsMeet
  <2>3. Readied(t, v, x) /\ t \in Correct
    BY <2>2 DEF ReadyVoters, RBInv, Readied, RB_Construct_Message
  <2> QED
    BY <2>3 DEF RBInv, ReadiesBacked
<1>2. /\ Cardinality(EchoVoters(v, p)) >= Quorum
      /\ Cardinality(EchoVoters(v, q)) >= Quorum
  BY <1>1 DEF RBInv, DeliveriesBacked
<1>3. EchoVoters(v, p) \in SUBSET Servers /\ EchoVoters(v, q) \in SUBSET Servers
  BY DEF EchoVoters
<1>4. PICK t \in EchoVoters(v, p) \cap EchoVoters(v, q) : t \notin Byzantine
  BY <1>2, <1>3, QuorumsMeet
<1>5. Echoed(t, v, p) /\ Echoed(t, v, q) /\ t \in Correct
  BY <1>4 DEF EchoVoters, RBInv, Echoed, RB_Construct_Message
<1> QED
  BY <1>5 DEF RBInv, OneEchoPerView

(* Agreement of RB_Process_Ready's deliveries, whatever the Byzantine      *)
(* servers send.                                                           *)
THEOREM RBAgreement == Spec => []Agreement
BY RBInvariant, RBInvAgreement, PTL

(* The assertion of VIEW_Process_Report and VIEW_Process_PC_Set that a     *)
(* slot delivers no duplicate in a view never fails.                       *)
THEOREM RBNoDuplicates == Spec => []NoDuplicates
<1>1. RBInv => NoDuplicates
  <2> SUFFICES ASSUME RBInv PROVE NoDuplicates
    OBVIOUS
  <2>1. Agreement
    BY RBInvAgreement
  <2>2. \A r \in Correct, v \in Views, p \in Payloads :
          delivered[r][v][p] \in Nat /\ delivered[r][v][p] <= 1
    BY DEF RBInv, TypeOK, DeliveredOnce
  <2> QED
    BY <2>1, <2>2 DEF Agreement, NoDuplicates
<1> QED
  BY <1>1, RBInvariant, PTL

(* Every slot of the broadcast keeps its type: the counters are those of   *)
(* different senders, and a message that is sent is one of the protocol.   *)
THEOREM RBTypeOK == Spec => []TypeOK
<1>1. RBInv => TypeOK
  BY DEF RBInv
<1> QED
  BY <1>1, RBInvariant, PTL
=============================================================================
