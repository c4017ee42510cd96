------------------------------ MODULE AgreedLog ------------------------------
(***************************************************************************)
(* What Prime's ordering promises to the application: one log.  An entry,  *)
(* once some replica has executed it, is the same for all and for ever,    *)
(* and every replica executes the log from its beginning without leaving   *)
(* an entry out.                                                           *)
(***************************************************************************)
EXTENDS Integers

CONSTANTS
  Replicas,     \* the replicas that execute
  Entries,      \* what may be ordered
  NoEntry,      \* nothing is decided
  Length        \* bound: the log has Length entries

VARIABLES
  log,          \* the entry decided for each sequence number
  executed      \* how far each replica has executed the log

LogInit ==
  /\ log = [s \in 1 .. Length |-> NoEntry]
  /\ executed = [r \in Replicas |-> 0]

(* Replica r executes the log up to n.  Entries that nobody has executed   *)
(* before are decided now, as far as n; nothing is decided again.          *)
Execute(r, n) ==
  /\ n > executed[r]
  /\ executed' = [executed EXCEPT ![r] = n]
  /\ log' \in [1 .. Length -> Entries \cup {NoEntry}]
  /\ \A s \in 1 .. Length :
       /\ log[s] # NoEntry \/ s > n => log'[s] = log[s]
       /\ s <= n => log'[s] # NoEntry

LogNext == \E r \in Replicas, n \in 1 .. Length : Execute(r, n)

LogSpec == LogInit /\ [][LogNext]_<<log, executed>>
=============================================================================
