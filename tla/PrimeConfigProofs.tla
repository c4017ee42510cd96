------------------------- MODULE PrimeConfigProofs --------------------------
(* Counting lemmas about quorums, used by the proofs of the protocols.      *)
EXTENDS PrimeConfig, FiniteSetTheorems, TLAPS

(* Counting is monotone on sets of replicas: collecting more votes never   *)
(* lowers a count (ready_count, echo_count and the certificates' counts).  *)
LEMMA VotersMonotone ==
  ASSUME NEW A \in SUBSET Servers, NEW B \in SUBSET Servers, A \subseteq B
  PROVE  /\ Cardinality(A) \in Nat
         /\ Cardinality(B) \in Nat
         /\ Cardinality(A) <= Cardinality(B)
<1>1. IsFiniteSet(A) /\ IsFiniteSet(B)
  BY FaultModel, FS_Subset
<1>2. Cardinality(A) \in Nat /\ Cardinality(B) \in Nat
  BY <1>1, FS_CardinalityType
<1>3. Cardinality(A) <= Cardinality(B)
  BY <1>1, FS_Subset
<1> QED
  BY <1>2, <1>3

(* f + 1 voters are never all Byzantine.                                   *)
LEMMA HonestVoter ==
  ASSUME NEW A \in SUBSET Servers, Cardinality(A) >= F + 1
  PROVE  \E s \in A : s \notin Byzantine
<1>1. SUFFICES ASSUME A \subseteq Byzantine PROVE FALSE
  OBVIOUS
<1>2. Byzantine \in SUBSET Servers
  BY FaultModel
<1>3. /\ Cardinality(A) \in Nat
      /\ Cardinality(Byzantine) \in Nat
      /\ Cardinality(A) <= Cardinality(Byzantine)
  BY <1>1, <1>2, VotersMonotone
<1> QED
  BY <1>3, FaultModel

(* Two quorums of 2f+k+1 out of 3f+2k+1 replicas share a replica that is   *)
(* not Byzantine: the fact every agreement property of Prime rests on.     *)
LEMMA QuorumsMeet ==
  ASSUME NEW A \in SUBSET Servers, NEW B \in SUBSET Servers,
         Cardinality(A) >= Quorum, Cardinality(B) >= Quorum
  PROVE  \E s \in A \cap B : s \notin Byzantine
<1>1. IsFiniteSet(A) /\ IsFiniteSet(B)
  BY FaultModel, FS_Subset
<1>2. Cardinality(A \cup B) = Cardinality(A) + Cardinality(B) - Cardinality(A \cap B)
  BY <1>1, FS_Union
<1>3. /\ Cardinality(A \cup B) \in Nat
      /\ Cardinality(A \cup B) <= Cardinality(Servers)
  <2>1. A \cup B \in SUBSET Servers /\ Servers \in SUBSET Servers /\ A \cup B \subseteq Servers
    OBVIOUS
  <2> QED
    BY <2>1, VotersMonotone
<1>4. /\ Cardinality(A) \in Nat
      /\ Cardinality(B) \in Nat
      /\ Cardinality(A \cap B) \in Nat
  <2>1. A \cap B \in SUBSET Servers
    OBVIOUS
  <2> QED
    BY <2>1, VotersMonotone
<1>5. Cardinality(A \cap B) >= F + 1
  BY <1>2, <1>3, <1>4, FaultModel DEF Quorum
<1>6. A \cap B \in SUBSET Servers
  OBVIOUS
<1> QED
  BY <1>5, <1>6, HonestVoter
=============================================================================
