---- MODULE MCSuspectLeader ----
EXTENDS SuspectLeader

CONSTANTS s1, s2, s3, s4

(* The second leader is Byzantine. *)
S4Second == [v \in Views |-> CASE v = 1 -> s1 [] v = 2 -> s4 [] OTHER -> s2]

FirstAndThird == <<1, 3>>

AskS1 == {<<s1, 2>>}

(* s3 gets a certificate of the last view for the first ordinal. *)
MisleadS3 == {<<s3, 1, 3>>}

(* Where the search starts: the first ordinal has been ordered, s1 and     *)
(* maybe s2 have executed it, and nothing else has happened.               *)
MCInit ==
  /\ View = [r \in Correct |-> 1]
  /\ new_leader = [r \in Correct |-> No_Votes]
  /\ nl_queued = [r \in Correct |-> FALSE]
  /\ view_change_done = [r \in Correct |-> TRUE]
  /\ executed_ord = [r \in Correct |-> TRUE]
  /\ \E executed \in {{s1, s2}, {s1}} :
       ARU = [r \in Correct |-> IF r \in executed THEN 1 ELSE 0]
  /\ last_view = [r \in Correct |-> 1]
  /\ joined = [v \in Views |-> IF v = 1 THEN Correct ELSE {}]
  /\ votes = {}
  /\ ordered = <<1>>
  /\ copied = {}
  /\ misled = {}

MCSpec == MCInit /\ [][Next]_vars
MCFairSpec == MCSpec /\ WF_vars(Arrives_Or_Catches_Up)
====
