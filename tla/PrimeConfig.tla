---------------------------- MODULE PrimeConfig -----------------------------
(***************************************************************************)
(* The configuration every Prime component shares: NUM_SERVERS replicas,   *)
(* of which at most f are Byzantine and at most k are down or partitioned  *)
(* away, with NUM_SERVERS = 3f + 2k + 1 (def.h).                           *)
(***************************************************************************)
EXTENDS Integers, FiniteSets

CONSTANTS
  Servers,      \* the NUM_SERVERS replicas
  Byzantine,    \* replicas that may send anything they can sign
  Down,         \* replicas that are crashed or partitioned away for good
  F, K          \* VAR.F and VAR.K

ASSUME FaultModel ==
  /\ IsFiniteSet(Servers)
  /\ F \in Nat \ {0}
  /\ K \in Nat
  /\ Cardinality(Servers) = 3*F + 2*K + 1
  /\ Byzantine \subseteq Servers
  /\ Cardinality(Byzantine) <= F
  /\ Down \subseteq Servers

Correct == Servers \ (Byzantine \cup Down)

\* mutant of Quorum
HalfQuorum == F + K + 1

(* 2f + k + 1: any two sets of this size meet in a replica that is not     *)
(* Byzantine, and n - f - k replicas are enough to form one.               *)
Quorum == 2*F + K + 1
=============================================================================
