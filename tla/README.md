# Spire: TLA+ models of the Prime replication engine

Spire is an intrusion-tolerant SCADA system. Its masters are replicated by
Prime, a Byzantine fault-tolerant replication engine (`prime/src`), which
"maintains correctness as long as no more than f servers are Byzantine, and
remains available as long as no more than f servers are Byzantine and no more
than k servers are crashed/partitioned out of the total 3f+2k+1 servers"
(`prime/README.txt`). This directory holds TLA+ models of Prime's agreement
protocols, TLC configurations that check them on small instances and TLAPS
proofs for all instances.

Everything is translated from the C code. Prime is single-threaded: an event
loop hands one message or timer at a time to a handler, which runs to
completion. One action of a model is therefore one whole handler; what
interleaves are the handlers of different replicas and the messages between
them.

## The system's parts

| part | source | state it keeps | operations | talks to | hard because |
|---|---|---|---|---|---|
| global ordering | `order.c` | per sequence number a slot: Pre-Prepare, Prepares, Commits, certificates, `ordered`, `made_eligible`; `seq`, `ARU`, `ppARU`, `Pending_Execution` | send a Pre-Prepare; process Pre-Prepare, Prepare, Commit; execute; flood; retransmit; garbage collect | pre-ordering (which PO-Requests are held), view change (may I send?), reconciliation, catchup | equivocating leader, votes before the Pre-Prepare, slots ordered out of order, requests that arrive late |
| reliable broadcast | `reliable_broadcast.c` | per (server, number) a slot: the message it is bound to, who echoed, who is ready | process INIT, ECHO, READY; clear at a view change | carries the view change's Reports and PC_Sets | two payloads for one slot, READY before INIT, `!=` thresholds |
| view change | `view_change.c` | reports, PC_Sets, `complete_state`, VC lists, partial signatures, the Replay and its votes, `view_change_done` | start; process Report, PC_Set, VC_List, VC_Partial_Sig, VC_Proof, Replay, Replay_Prepare, Replay_Commit; execute the Replay | reliable broadcast, ordering (reads and rewrites its slots) | what was executed must survive; late Commits; the order in which certificates are merged; slots that cannot be executed yet |
| suspect leader | `suspect_leader.c` | turnaround times, bounds, New_Leader messages, `leader_suspected` | ping, RTT and TAT messages, suspect, install a view | view change | Byzantine reports, messages of different views cross, votes and proofs that stop too early |
| pre-ordering | `pre_order.c` | per introducing server the PO-Requests and acknowledgements, `cum_aru`, the PO-ARU matrix | process Update, PO_Request, PO_Ack, PO_ARU; `PRE_ORDER_Update_Cum_ARU`; `PRE_ORDER_Proof_ARU` | ordering | wake-ups of waiting slots, incarnations of recovered servers |
| reconciliation | `recon.c`, `erasure.c` | parts received per PO-Request | send and process parts | pre-ordering | which f+1 servers send |
| catchup | `catchup.c` | ordinal certificates, catchup requests, jumps | request, certificate, jump | ordering, suspect leader, client | a jump or a certificate in the middle of a view change |
| proactive recovery | `proactive_recovery.c` | incarnations, recovery status; for a reset: shares, proposal, Prepares, Commits, carry-over | New_Incarnation, Pending_State; reset share, proposal, Prepare, Commit, certificate, view change of the reset | all | two proposals, timers that race messages, a round left after somebody finished it; votes dropped when incarnation vectors differ |
| validation, construction, dispatch | `validate.c`, `packets.c`, `process.c` | none | check and build messages | all | messages that are made of other signed messages, which are counted without asking whether their senders differ |
| signing, network, client | `signature.c`, `merkle.c`, `network.c`, `client.c`, ... | batches, sockets | | all | |
| SCADA master, ITRC, proxy, HMIs | `scada_master`, `common`, `proxy`, ... | field-device state | | Prime through ITRC | |

What makes each correct: reliable broadcast delivers the same payload
everywhere and once; ordering executes the same Pre-Prepare everywhere, each
following the one before, and never stops while the leader is correct; a view
change loses nothing that anybody executed; suspect-leader moves all replicas
to a common view, away from leaders that do not lead and only from those; a
reset of the system gives all replicas the same membership; pre-ordering makes a request eligible only if enough correct
replicas hold it; catchup and recovery never take execution back.

## The modules

* `PrimeConfig` - the servers, who of them is Byzantine or down, and
  `Quorum` = 2f+k+1. At most f servers are Byzantine. How many are down is
  not bounded: safety does not depend on it, and the liveness runs choose it.
* `ReliableBroadcast` - one slot of `reliable_broadcast.c` through several
  views. `rb_msg`, `state`, `echo_received`, `ready_received` are the fields of
  `rb_slot`; `delivered` is a history of the upcalls `PROCESS_Message`.
  `RB_Process_Init/Echo/Ready` are the handlers, and
  `RB_Initialize_Upon_View_Change` the start of a view change with the
  originator's broadcast.
* `Ordering` - `order.c`, with the part of `pre_order.c` that execution waits
  for and the part of `view_change.c` that leaves a view. Each variable is a
  field of `DATA.ORD`, of `ord_slot`, of `DATA.PO` or of `DATA.VIEW`, as its
  declaration says; `report` is a history of the Reports and PC_Sets sent.
  The actions are the handlers of the same name. `Inconsistent_Pre_Prepare` is the
  branch of `ORDER_Process_Pre_Prepare` that suspects the leader.
* `ViewChange` - the rest of `view_change.c`, composed with `Ordering`, whose
  variables it extends by `vc_partial_sig`, `replay`, `replay_prepare` and
  `replay_commit`, the messages sent in each view. A replica that fails the
  assertion at the end of `VIEW_Execute_Replay` joins `aborted` and stops.
  `Complete_State` is `VIEW_Check_Complete_State`, `Full_PC_Set` the merge of
  certificates, `Replayed_Slots` the loop that rebuilds the slots; the actions
  are the handlers of the same name.
* `AgreedLog` - what ordering promises: one log, each entry decided once,
  executed by every replica from its beginning. `Ordering` instantiates it
  with `Executed_Log`, the Pre-Prepares executed so far, and `ARU`
  (`ImplementsLog`); `ViewChange` inherits the mapping.
* `LeaderTiming` - the measuring half of `suspect_leader.c`, in one view. The
  variables are the fields of `DATA.SUSP`; `SUSPECT_Process_TAT_Measure`,
  `_RTT_Measure` and `_TAT_UB` are the handlers, each with the comparison
  `SUSPECT_Suspect_Leader` that it ends with. `leader`, a correct server, and
  `prompt`, whether it answers in the time that it should, are chosen at the start.
* `SuspectLeader` - the other half: New_Leader messages, the view they
  install, the proofs that make others follow; and of `catchup.c` how a replica that
  was left behind changes its view. `ordered` and `votes` are what was
  committed and signed so far. Proofs, certificates and jumps that are made of
  copies are the actions with `Made_Up` in their names and the second disjunct of
  `Provable`; the histories `copied` and `misled` record the views that they
  brought about and who accepted a certificate or a jump. How a view change ends and what is
  ordered are one step each here; `ViewChange` and `Ordering` have them in detail.
* `SystemReset` - the fresh start of the whole system in
  `proactive_recovery.c`. The variables are the fields of `DATA.PR`, two timers
  and the messages sent; the actions are the handlers and timer functions of the same
  name. `Consider_Proposal` is the second half of `PR_Process_Reset_Proposal`,
  which three handlers call. A replica that fails an assertion joins `aborted`.
  The field `made_up` of a certificate, which no action reads, tells a
  certificate of copies from a real one.
* `MCReliableBroadcast`, `MCOrdering`, `MCViewChange`, `MCLeaderTiming`,
  `MCSuspectLeader`, `MCSystemReset` - instances for TLC.
* `PrimeConfigProofs`, `ReliableBroadcastProofs`, `OrderingProofs`,
  `OrderingExecProofs`, `ViewChangeProofs`, `LeaderTimingProofs`,
  `SuspectLeaderProofs`, `SystemResetProofs` - proofs.

How they fit together: `LeaderTiming` is why a replica takes the step
`SUSPECT_Suspect_Leader` of `SuspectLeader`; that is why it takes
`VIEW_Start_View_Change` of `Ordering`, which may happen at any time there;
`ViewChange` continues from it. `ReliableBroadcast` is why `ViewChange` and `SystemReset` may let
all replicas see the same reports.

### Abstractions

* A digest stands for what it is the digest of: a Prepare or a Commit carries
  the Pre-Prepare it votes for.
* A Pre-Prepare carries a vector `last_executed` and a matrix of PO-ARUs, with
  one column per introducing server. Columns do not interact in `order.c`; one
  is modelled, so `last_executed` is a number and the matrix is the number
  `PRE_ORDER_Proof_ARU` computes from it.
* The network keeps every message that a correct replica has sent. A replica
  may receive it never, once or often, in any order. This covers loss,
  retransmission (`ORDER_Periodic_Retrans`, `RB_Periodic_Retrans`) and
  messages of views long left.
* A Byzantine server may send any message it can sign that passes the
  validators, to any replica, at any time, in `ReliableBroadcast`, `Ordering`,
  `LeaderTiming`, `SuspectLeader` and `SystemReset`. In `ViewChange` it does so in
  ordering, and takes no part in the view change itself. For TLC constants say which
  messages are worth sending: `Lies`, `LieTo` and `LieViews`, and in the last two
  modules those of the next item. The theorems hold for every value of them.
* Proofs, certificates and reports are messages made of other signed messages, and
  the validators count those without asking that their senders differ. What a
  Byzantine server can make of copies of one message is in the models:
  New_Leader_Proofs of any view (`validate.c:1265`; `Copied`), ORD_Certificates of any
  view, with which `catchup.c:234` switches the view before a Commit is counted, and jumps
  (`validate.c:1653`; `Made_Up` of `SuspectLeader`), RESET_NEWLEADERPROOFs
  (`validate.c:2231` says so itself) and RESET_CERTs for a proposal that anybody signed
  (`validate.c:2408`; `Copies`), and RESET_VIEWCHANGEs that report a proposal
  of any view, signed by anybody (`validate.c:2283`; `Made_Up` of
  `SystemReset`). A proposal's `num_shares` counts repeated shares
  (`validate.c:2148`), so it may name fewer servers than that.
* A replica that is down takes no step at all. It may be among the senders that a
  quorum is counted over, which makes quorums scarce.
* All PO-Requests arrive through `PRE_ORDER_Update_Cum_ARU`. Retrieval by
  reconciliation has the same effect on ordering.
* In `ORDER_Execute_Commit`, a chain of slots that have become executable is
  executed in one action, as the recursion through
  `ORDER_Attempt_To_Execute_Pending_Commits` does. The upcalls to the client,
  to reconciliation and to catchup change no state of `order.c` that these
  properties read.
* In `ViewChange` all replicas see the same reports, because reliable
  broadcast carries them (`RBAgreement`). A handler tests what has been sent: a
  replica to which a message has not arrived yet is one that does not act yet.
  So the calls of `VIEW_Try_Execute_Replay` at the end of other handlers are
  steps of their own, between which the model may do what the code does when
  the last message comes later. The partial signatures stand for the VC_Proof
  that combines them. Byzantine servers take no part in a view change.
* In `LeaderTiming` times are small natural numbers and `VARIABILITY_KLAT`
  (2.5 in the code) is a natural number: only comparisons matter. A message that is late carries an
  older value, so a correct replica's TAT_MEASURE may have any value up to what
  it has measured, its TAT_UB any from its bound up. Pings and pongs are the
  choice of a round trip no shorter than the fastest one.
* In `SuspectLeader` a replica that is left behind may get the next ordinal or
  jump to any that another replica has executed; catchup requests and replies
  are the fairness of these steps.
* In `SystemReset` a share is named by its server (one incarnation each), and
  all servers have the votes that make them send their share. The
  handlers test what has been sent, as in `ViewChange`. A Byzantine leader's
  RESET_NEWVIEW may name any list. The comparison of reports
  "byte for byte" includes their headers, so it may fail for
  equal proposals where a Byzantine server signed (`May_Differ`).
* Incarnations of a running system (all installed, never changing), Pre-Prepares in several parts,
  garbage collection and the attack switches in the code are left out.

## What TLC checks

Every run has four replicas (f = 1, k = 0, `Quorum` = 3), the smallest
configuration in which two quorums meet in just two replicas, one of which may
be Byzantine.

| run | instance | property |
|---|---|---|
| `rb_byzantine` | s4 Byzantine and the originator, two payloads, a view change | `Agreement`, `NoDuplicates`, `TypeOK`, `Totality` (liveness) |
| `ord_byzantine` | Byzantine leader, two Pre-Prepares for the first number and one, following only one of them, for the second, and Commits to each replica for what it has accepted; replicas leave for view 2 at any time, or a PO-Request comes late | `OrderAgreement`, `CommittedIsReported`, `NoRequestTwiceOrSkipped`, `AcceptedCoversExecuted`, `NoLostWakeup` |
| `ord_leader` | correct leader, one replica down, a PO-Request that comes at any time | `NoSlotHangs` (liveness), `TypeOK` |
| `ord_live` | Byzantine leader that sends one Pre-Prepare to s1, another to s2, none to s3, and no votes | `NoSlotHangs` (liveness) |
| `vc_two_views` | s1 stays in view 1 and executes there while the others agree on a list without it, replay and order in view 2; or: two sequence numbers with certificates for any of them | `OrderAgreement`, `ReplayCoversExecuted`, `ReplayedSlotsFollow`, `ImplementsLog` (refinement), `VCTypeOK` |
| `sr_reset` | Byzantine first leader with two proposals, one of which leaves out the next leader and names two servers with three shares; its votes for both, any report of these or of a proposal of the second view that it signs itself; a certificate and a proof made of copies | `ResetAgreement`, `ExecutedIsCarriedOver`, `EnoughMembers`, `ExecutesAsMember`, `TypeOK` |
| `lt_timing` | s4 Byzantine and reporting 0 or the maximum, s3 twice as far away as the others, any correct leader, prompt or not | `WellPlacedLeaderTrusted` (of steps), `SlowLeaderSuspected` |
| `sl_views` | three views, s4 Byzantine and leader of the second; an ordinal in the first view and one in the third; a proof of the third view made of copies, a certificate or a jump of the third view for the first ordinal | `NoneLeftBehind`, `BadLeaderLeft` (liveness), `ViewsAreVotedFor`, `TypeOK` |

What each property says and of which code is in the comment before it.

Four runs fail; each is a finding:

| run | property that fails | what happens |
|---|---|---|
| `vc_merge` | `OrderAgreement` | s1 holds a certificate of view 1. In view 2, without s1, another Pre-Prepare is ordered at the same number, and s2 executes it. The list for view 3 has s1 and not s2; `VIEW_Execute_Replay` merges certificates in the order of server ids and keeps the old one of s1, although s3 and s4 hold one of view 2. |
| `vc_overtaken` | `ReplayCoversExecuted` | s1 alone has a certificate; the Replay of view 2 carries it and s1 executes it. The others go on to view 3 before they execute the Replay. Having agreed on it leaves no trace in their reports, and without s1 the Replay of view 3 starts at the number s1 has executed. |
| `vc_early` | `ProposedAfterViewChangeIsExecuted` | A Pre-Prepare of the new view arrives while the replica is in the view change. It is stored and `ppARU` runs past it without a Prepare; the end of the Replay takes `ppARU` back, and nothing calls `ORDER_Send_Prepares` again: a later Pre-Prepare returns before that call, as it does not follow `ppARU`. With one replica silent the quorum for the slot is never reached. |
| `vc_stale` | `ExecutedAlike` | s1, the leader of view 1, fills in `made_eligible` of its slot when it sends a Pre-Prepare (`order.c:292`), and follows the others into view 2 before it receives its own message. The slot accepts the Pre-Prepare of the new leader for the same number; the Replay keeps the slot because it is of the new view (`view_change.c:1069`), and neither `ORDER_Send_Prepares` nor `ORDER_Process_Commit` computes the value again, since it is marked as computed (`order.c:689`, `order.c:1275`). s1 executes other PO-Requests at this number than the rest. |

The first two contradict agreement without any Byzantine server; both take
three views. With two views the same properties hold (`vc_two_views`, and the
theorems of `ViewChangeProofs`). `vc_stale` takes one view change and no
Byzantine server either: all agree on the Pre-Prepare of the slot, and one of them
executes other PO-Requests for it. With two views that is the only way to
execute differently (`VCExecutedAlikeOrStale`): the replica led view 1 and proposed
the number there, and the slot is of view 2.

More places where the code may stop, stall or be misled are in the models and are
kept out of the properties, or named in them:

* `assert(DATA.ORD.ppARU == rep->startSeq - 1)` at the end of
  `VIEW_Execute_Replay` fails if a replayed slot lacks a PO-Request and is
  "marked as pending", as the comment there intends, and also if Commits of the
  new view are executed before the last Replay_Commit arrives. Such a replica
  is in `aborted`; the properties hold for it and for the others.
* `PR_Check_Complete_VC_State` runs again for every RESET_VIEWCHANGE beyond the
  list; a leader that carried a proposal over then fails
  `assert(DATA.PR.reset_proposal == NULL)` (`aborted` of `SystemReset`).
* In a reset, the leader's Prepare counts among the 2f+k beside its proposal, which
  `order.c` avoids ("he can't be counted twice"). A leader with two proposals and
  Prepares for both gets certificates for both; the assertion in
  `PR_Check_Complete_VC_State` that reports of one view match then stops whoever
  collects both. Two quorums of Commits still meet, so `ResetAgreement` holds.
* `ORDER_Execute_Commit` sets `executed_ord` for whatever ordinal it executes,
  although its comment speaks of the first one in the view after the view
  change. A replica that executes an ordinal of the old view during the view
  change stops sending its New_Leader_Proof before any other has followed; if the
  others then are too few to leave the old view, and those that left too few
  to work in the new one, everything stops. `NoneLeftBehind` and
  `BadLeaderLeft` name this state, `Proof_Stopped_Early`, as their exception; without
  the disjunct TLC shows the behaviour for both.
* A New_Leader_Proof of copies installs its view without any correct replica's
  vote, so `ViewsAreVotedFor` excepts the views in `copied`: of the others it says that f+k+1 correct replicas
  have voted, back to the last view with copies. A receiver sends the proof on, so all
  follow; such proofs are no exception of the two liveness properties.
* An ORD_Certificate of copies switches the view of its receiver, who has no
  proof of that view to send on; if the others are too few to leave theirs, they stay.
  `NoneLeftBehind` and `BadLeaderLeft` hold until somebody has accepted one
  (`misled`), not after.
* A RESET_CERT of copies is executed by whom it reaches, who then runs with a membership
  that nobody agreed on. `ResetAgreement`, `ExecutedIsCarriedOver` and
  `EnoughMembers` speak of the proposals that were not executed in this way (`By_Copies`);
  `ExecutesAsMember` holds for them too.
* The second view of a reset is bound by the first only if its leader is not Byzantine, since
  the length of the list in a RESET_NEWVIEW is not checked (`proactive_recovery.c:2293`), and if no
  Byzantine server reports a proposal of a view above 1, which would win over the executed one
  (`proactive_recovery.c:2350`). Otherwise the view is `Unbound`, and
  `ExecutedIsCarriedOver` and the part of `ResetAgreement` about two views say
  nothing. Later views are not protected at all: a report is of the view that is left only.
* Repeated shares count towards the 2f+k+1 of a proposal, so a membership need not have 2f+k+1 members. What
  it does have is `EnoughMembers`: f+k+1 correct servers with the leader counted in, since
  whoever commits has found its own share in it.

Without `copied` in `ViewsAreVotedFor`, without `misled` in `Kept_Apart`, without
`By_Copies` in the three properties of the reset and without the reports in `Unbound`, TLC
shows the violation in the same runs.

Where a Byzantine server and a replica that takes no part appear together
(`Chaining`), the run exceeds what Prime promises to be available under; safety
must hold all the same, and with only one way to form a quorum the Byzantine server
decides each of them.

*Bounds.* `MaxView` (1 or 2; 3 in `sl_views` and two failing runs): most properties are about
leaving a view, for which one later view is enough; `sl_views` needs a view that
may be passed over. `MaxSeq` (1 or 2): agreement is per slot; the
properties that relate slots need a slot and the one after it. `MaxPO` (0 or
1): one PO-Request tells two proposals apart and can be missing; without it the
runs of the view change are about which view a Pre-Prepare is of. `Lies`: the proposals of the run, each with a vote by the Byzantine server; the
times it reports. `Prompt` (two shares from the start): which two does not
matter, the third starts the timers. `Late`: the shares of correct servers. `Copies` and `Made_Up` of
the reset: a certificate for a proposal of nobody's share but the receiver's, to the replica
that leads next, a proof of the second view to the others, a report of a proposal of the second view. `Copied` and
`Made_Up` of `sl_views`: the last view, which passes the Byzantine leader's over, and
one replica to be misled, which leaves two. `Asked`: one replica is asked by the
Byzantine server to leave the first view, so one can have the quorum before the
others. `OrderedIn` (an ordinal in view 1, one in view 3):
one that can be executed late, and one by which a replica can find out that it
was left behind. `MAX_TAT_TIME` (4): a time below, at and above each bound.
`Watching` (one replica): replicas do not influence each other's suspicion.

*Initial states.* `sl_views` starts later than `Init`, in states that are reached from it
(`MCInit`): the first ordinal is ordered and some have executed it. What is left out
is the ways to get there.

*Constraints.* `ord_byzantine` has two parts that start in the same state: `Leaving` (one
sequence number, a PO-Request that everyone has from the start, three replicas
that leave the view) and `Chaining` (two sequence numbers, no view change, the
PO-Request at any time, two correct replicas). In both, the Byzantine leader
commits to each of two replicas what that one has accepted, also when that differs; a Commit for
anything else would count for nothing (`VotesThatCount`). Its `VIEW` leaves out what has no
effect any more; `Relevant` says why. The runs of `MCViewChange` with four replicas up or two slots
carry a `CONSTRAINT` that says who hears what, and `VC_Lists` says which lists
may be agreed on in each view. A failing run needs no more than its behaviour.
`vc_two_views` has two parts: `Apart` lets all interleavings happen of one replica that
executes in view 1 and three that replay into view 2 and order there, with
Commits delivered to all of them but one; `Gaps` lets s1 and s2 get certificates
for one number each and stops before view 2 orders. `MaxView` is 2 there, as the
failing runs show what a third view does. `vc_stale` has the constraint
`UnheardProposal`: who hears what up to the Replay. In `lt_timing` turnarounds are reported after
the bounds, and correct replicas measure the fastest round trip: reports
only grow and bounds only fall, so the comparison at the end is the same for
every order, and the theorems hold without either constraint.

*Reduction.* `SYMMETRY` permutes correct replicas that no constant tells
apart. `VIEW Relevant` hides `leader_suspected`, which no other action reads,
and the votes of a slot that already has the certificate they were for: from
then on a handler only looks at whether a vote is there, and only to store another.
The `VIEW` of `lt_timing` leaves out the measures once the bounds are final, that of
`sr_reset` what a replica has that has ended or stopped, and who asked for a view of which
there is a proof. Liveness
runs use neither symmetry nor views.

*Deadlock* is not checked: a model stops when everything sent has arrived and
the bounds are reached.

*Fairness.* A message from a correct replica in the current view eventually
arrives, because it is retransmitted periodically and handlers run to
completion; what is queued in the event loop eventually runs; a PO-Request that
is missing is eventually retrieved. Nothing is assumed of Byzantine servers,
of the leader's willingness to propose, or of replicas leaving a view. Flooding
is not retransmitted by the code: `NoSlotHangs` is about links that do
not lose flooded Pre-Prepares. In `ViewChange` the messages of the view change
arrive eventually as well (`VIEW_Periodic_Retrans`, `RB_Periodic_Retrans`), and
a replica follows others into a view (`Join_View_Change`: New_Leader_Proofs are
sent periodically). In `SuspectLeader` only what is being sent again must
arrive: a New_Leader while its timer is queued, a proof while `executed_ord` is
0; a message that is no longer repeated may be lost. Replicas that are behind catch
up, and a leader that does not lead is suspected once all correct replicas are in
its view; no view change has to finish and no ordinal has to be ordered. In
`Ordering` and `SuspectLeader` each fair step can be taken only a bounded
number of times, so weak fairness of their disjunction says the same as weak
fairness of each, and TLC checks it faster.

Each property has a mutant, a definition changed as a plausible bug would
change it (`\* mutant` in the modules), under which the run fails.

## What is proved

For every set of servers, f, k, every number of views, sequence numbers and
PO-Requests, any set of servers down and any messages that the modules admit from at most f Byzantine
servers, made of copies or not (see *Abstractions*; the named assumptions `FaultModel`, `Bounds`, `OrderingBounds`, `TimingBounds`,
`ViewBounds`, `ResetBounds` and `ViewChangeBounds`):

* `QuorumsMeet`: two quorums share a server that is not Byzantine. The counting
  argument behind everything else.
* `RBTypeOK`, `RBAgreement`, `RBNoDuplicates`, by the inductive invariant `RBInv`. A READY is only sent by a
  correct replica after a quorum of ECHOs or after f+1 READYs; the invariant says
  that all READYs by correct replicas in a view name one payload, because correct
  replicas echo one payload per view and quorums of ECHOs meet. Counts
  in the slot are backed by messages that were sent, and `delivered` counts a crossing of the
  threshold that cannot be crossed again before the slot is cleared.
* `OrdTypeOK`, `OrdAgreement`, `OrdCommittedIsReported`, of `Ordering`, that is up to the
  end of the first view change: replicas leave the view at any time and
  may execute afterwards what was committed before, by the inductive
  invariant `OrdInv`. `OrderAgreement` is not inductive: it says nothing of
  slots not yet executed. `OrdInv` adds the chain from execution back to certificates: what is
  executed or waits is ordered (`ExecutedOrdered`), what is ordered has a
  quorum of stored Commits (`OrderedBacked`), stored Commits of servers that
  are not Byzantine were sent (`CountedCommits`), a replica commits only what
  its certificate is for (`CommitsCertified`), and that certificate is for the
  slot's one Pre-Prepare and never changes (`SlotsConsistent`). Two quorums of
  Commits meet in a replica with one certificate. For the view change, a replica that has
  reported commits nothing more, and each report covers all it has
  committed (`CommitsReported`): the same meeting replica has reported what it committed.

* `OrdImplementsLog`: `Ordering` implements `AgreedLog`. By agreement `Executed_Log` is what any replica that has
  executed a slot holds there (`LogHolds`); only `ORDER_Execute_Commit` moves
  `ARU`, and it never touches the Pre-Prepare of an executed slot
  (`StepExecutes`), so a step that executes is `Execute` of the log and every other one
  leaves it alone (`LogStep`).
* `OrdNoRequestTwiceOrSkipped`, `OrdAcceptedCoversExecuted`, `OrdNoLostWakeup`
  of `Ordering`, by `ExecInvariant`, which adds two groups of facts to `OrdInv`.
  A replica may execute a slot on the Commits of others without having compared
  it with the slot before it, so that slots follow each other is a fact about who
  prepared them. `ChainInv` therefore speaks of messages: a Prepare was sent by a
  replica that held the slot and the one before it and found that they
  fit (`PreparesCompared`), a leader that is not Byzantine proposes one
  Pre-Prepare per sequence number, each where the one before stops
  (`LeadersPropose`), and a certificate has 2f+k such Prepares that are not the
  leader's (`CertificatesBacked`). The preparers of two neighbouring slots, each
  with the leader, meet in one that is not Byzantine (`PreparersMeet`), and that one has compared
  them. `ExecInv` is each replica's bookkeeping: `made_eligible` is that of the slot or
  of the replica's own proposal (`EligibleKnown`), what is ordered is executed
  or waits (`OrderedWaits`), and what a slot misses has not come
  (`MissingToCome`). The two properties of the code's own assertions and
  wake-ups are conjuncts of it; they are inductive only together with the others.
* Of `ViewChange`, for every number of views: `VCInvariant`, `VCTypes`,
  `VCOrderedIsReplayed` and `VoteInvariant`. After a Replay most of `OrdInv` is
  false: a slot may hold a no-op of view 0, be executed without having been ordered, or
  have lost the votes for its certificate. So the proofs start from a
  description of what a step may do (`VC_Step`): `Acts` for the handlers of `Ordering`,
  idea by idea (accepts, counts, certifies, orders, executes, sends), and `Replays`
  for `VIEW_Execute_Replay`, slot by slot. `Replayed_Slots` is a
  recursive function that the provers cannot unfold; `ReplayedSlotsFrom` gives its closed form:
  a slot is copied, or a no-op that goes back to the last slot before it that
  is not one (`Base`, `Copied`).
  `VCInv` says which slots are filled in (`VCSlots`, without which executing is not even
  well-typed), that a list and its startSeq are what its members reported
  (`RoundsAgree`), that each reports once for a view, with certificates of earlier ones
  (`ReportsOnce`), that whoever has sent a Commit holds the certificate as long as it is
  in the view and then reports it (`CommitsCounted`), and that stored Commits were
  sent (`CommitsStored`). The quorum that committed and the list of the
  next Replay meet in a replica that did both: hence `VCOrderedIsReplayed`.
  `VoteInv` says the same of messages rather than slots, as a Replay clears slots: a replica proposes,
  prepares and commits one Pre-Prepare for a number in a view (`SentOnce`), in the
  way its state still shows (`VoteSent`), and what is certified has a proposal and
  2f+k Prepares behind it for ever (`SlotsBacked`).
* Of `ViewChange`, with `MaxView <= 2`, that is over one view change:
  `VCReplayCoversExecuted`, `VCOrderAgreement` and `VCImplementsLog`, by
  `TwoViewInv`, which adds to these two how each executed slot came about: it
  was ordered, or it comes from the one Replay, and nobody in its list had executed it
  (`ExecutedHow`); and that a slot of view 1 is filled in from its own
  Pre-Prepare (`EligibleFirst`, with `OwnProposals` for what its leader fills
  in before it hears itself). Agreement then goes by cases. Ordered twice: the quorums of
  Commits meet, or the views differ, and then one slot lies before the startSeq and the new leader
  proposes only after it. Ordered and replayed: the replica that committed and is
  in the list reports a certificate, and a number has one certificate in a view. Replayed
  twice: the merge is the same, and a no-op depends on the slot before it, in which
  the two agree if this is the first one where they differ. Byzantine servers propose and
  vote in ordering as they like; in the view change itself the model gives them no
  part, so the theorems say nothing of a Byzantine leader of the new view. The hypothesis is needed:
  `vc_merge` and `vc_overtaken` violate two of these statements with a third view. With
  two views, `VCImplementsLog` follows as it does for `Ordering`, since a
  Replay never touches what is executed (`ExecutedStays`).
* Of `ViewChange`, with `MaxView <= 2` too: `VCReplayedSlotsFollow`, by `TwoViewInv`
  and `FollowInv`. That one slot starts where the one before it stops is checked by the code only
  when a replica prepares (`ORDER_Send_Prepares`), and a slot that a Replay copies is never
  prepared by the replica that copies it. So the fact is carried by the messages: a correct
  leader's proposals, and in view 1 a correct replica's Prepares, for successive
  numbers follow each other (`ChainedSent`), and of two certificates of view 1 for
  successive numbers a correct leader proposed both or a correct replica prepared both. A no-op before a certified slot
  stops where that slot starts (`FollowsNoOp`), as the Replay has the same certificate
  that the replica executes. The new leader has executed its Replay when it proposes
  (`CaughtUp`), knows nothing of the slots after it (`LeaderFresh`), and starts
  where the last replayed slot stops, on which all agree.
  Where a slot stops is what its Pre-Prepare says, and only for a no-op what
  `made_eligible` holds (`Stops_At`): at the replica of `vc_stale` the
  two differ.
* Of `ViewChange`, with `MaxView <= 2`: `VCExecutedAlikeOrStale`, which says how
  far the finding `vc_stale` goes. By `EligibleFrom`, a slot that is filled in without a
  Pre-Prepare is an own proposal, and a slot of view 2 is filled in from
  its Pre-Prepare or from what the replica itself proposed in view 1.
* Of `SystemReset`, for every number of views: `ResetTypeOK`, `ResetMembers`,
  `ResetEnoughMembers` and `ResetAgreementInView`, by the inductive invariant `RoundInv`
  (`ResetRounds`). The stored proposal is of the replica's view and has
  its share, or is its own, until it has executed (`ProposalOfView`); a replica commits once in a view
  (`OneCommit`) and is a member of what it commits, or led its view (`CommitsAreMembers`); a Commit
  has 2f+k Prepares behind it (`CommitsBacked`), and whatever is executed or
  certified a quorum of Commits, or else there is a certificate of copies for it
  (`ExecutedCommitted`). Two quorums of Commits of a view meet in a replica that
  sent one, and of a quorum f+k+1 are not Byzantine and members.
* Of `SystemReset`, for every number of views as well: `ResetAgrees` and `ResetCarriesOver`, by `RoundInv` and
  `CarryInv` (`ResetInvariant`). The agreement of two views is not inductive: it needs that nobody commits in the first view
  after reporting for the second (`ReportedLeft`), that what a replica has
  committed in the first view is what it has stored (`FirstView`) and so what it reports
  (`CommitReported`), that a correct leader's list is a quorum (`ListsQuorum`), and that what is carried over into the second view, and
  a Prepare of it, is what a quorum of reports leaves as the only choice
  (`CarriedCovered`, `PreparesCovered`), unless the view is `Unbound`. The quorum
  of Commits and the quorum of reports meet in a replica whose report is the executed
  proposal; reports of the first view of anything else beside it fail the code's assertion. The exceptions are those
  of the properties; that a view is `Unbound` is stable, because reports stay.
  The first two views is what the code gives: a RESET_VIEWCHANGE reports only a certificate
  of the view that its sender leaves (`proactive_recovery.c:2106`), so a replica
  that passes through the second view without a certificate there reports
  nothing of the first, and no invariant of this form carries on to a third. In later
  views, too, a leader may replace the proposal that it has committed to.
* `SlowLeaderFound`, `PromptLeaderTrusted` of `LeaderTiming`, by `TimingInv`:
  reports of correct replicas hold what they can have measured, bounds are not below what their sender
  can keep, `alpha`, `tat_leader` and `tat_acceptable` are the order statistics
  of the stored times, and the comparison was made after the last change. The
  argument is counting: among the f+k+1 lowest reports one is of a replica
  that is neither Byzantine nor silent, among the f+k+1 highest bounds too.
* `ViewTypeOK`, `ViewsVotedFor` of `SuspectLeader`, by `ViewInv` (`ViewInvariant`): a stored
  New_Leader of a correct replica was sent by it, a correct replica votes only for
  the view after one that is in turn, and ordinals are ordered only in
  installed views. In turn is a view if f+k+1 correct replicas have voted for it and for
  those before it, back to the last one in `copied`; since `copied` only grows, copies
  that are accepted later take nothing away from it.

Only model-checked: the liveness properties (`Totality`, `NoSlotHangs`,
`NoneLeftBehind`, `BadLeaderLeft`), since TLAPS here does not prove
fairness arguments. Every invariant and every action property that a passing run
checks is also a theorem.

## Plan

1. *View change, continued*: Byzantine servers in the view change (a leader
   with two Replays, surplus PC_Sets, lists of any size) and VC_Proof messages
   that get lost.
2. *Pre-ordering* (`PreOrder`): PO-Requests, acknowledgements, the PO-ARU
   matrix; `PRE_ORDER_Proof_ARU` against its definition as an order statistic.
3. *Catchup* with the slots that a jump clears; *reconciliation*.
4. *Recovery of one server*: incarnations in a running system.
5. Proofs: agreement of one view change with Byzantine servers in it, once they
   are modelled; what a third view keeps (`VCOrderedIsReplayed` and `VoteInvariant` hold
   there, agreement does not); `VCReplayedSlotsFollow` for more views, where
   Prepares of later views are chained only above the Replay.

## Not modelled

Cryptography (a signature of a correct server cannot be forged, threshold
signatures combine), sockets and the event loop, client upcalls, message
layout and length checks, erasure coding arithmetic, the values of timing constants, the
SCADA application, the ITRC layer, the proxies, HMIs, PLC programs, the IDS and the
Spines overlay. `PROJECT.json` lists each with the reason.
