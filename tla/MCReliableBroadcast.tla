------------------------- MODULE MCReliableBroadcast -------------------------
(* Instances of ReliableBroadcast for TLC.                                  *)
EXTENDS ReliableBroadcast

CONSTANTS s1, s2, s3, s4, p1, p2
=============================================================================
