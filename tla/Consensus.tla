----------------------------- MODULE Consensus ------------------------------
(***************************************************************************)
(* One node's ConsensusEngine (network-node/src/consensus.rs): the         *)
(* proposals it knows, the votes it has recorded, and the tasks that run   *)
(* its methods concurrently.                                               *)
(*                                                                         *)
(* Both maps sit behind a tokio RwLock.  A guard that is dropped before    *)
(* the next `await` makes its block one step.  Three guards on the         *)
(* proposals outlive an `await`, and are read off the program counters:    *)
(* the write guard of a task that finalizes, the read guard of get_stats,  *)
(* and the read guard under which the maintenance task asks for the write  *)
(* guard.  Vote types only matter to the outcome of finalize_proposal,     *)
(* which no task gets to (see FinalizingSpec), so a vote is its voter.     *)
(***************************************************************************)
EXTENDS Integers, Sums

CONSTANTS
  ProposalIds,          \* the ids of proposals, fresh for each create_proposal
  Nodes,                \* the voters are 1..Nodes; node 1 runs this engine
  NumTasks,             \* the tasks that call the engine's methods are 1..NumTasks
  RequiredVotes,        \* required_votes
  Ttl,                  \* proposal_ttl_minutes
  MaxTime               \* bound: the last reading of the clock

VARIABLES
  proposals,            \* the proposals map: what the engine knows of each id
  votes,                \* the votes map: how often each voter is recorded
  announced,            \* expires_at of each proposal made here or by a peer
  pc,                   \* where each task is
  job,                  \* its arguments and local variables
  maintenance,          \* "tick", or "upgrade" from its read to its write guard
  sent,                 \* the votes handed to the broadcast channel
  receiver,             \* does the channel still have a receiver?
  now                   \* chrono::Utc::now()

vars == <<proposals, votes, announced, pc, job, maintenance, sent, receiver, now>>

Self == 1
Voters == 1..Nodes
Tasks == 1..NumTasks
Unknown == [current_votes |-> 0, status |-> "Unknown"]
Proposal == [current_votes : Nat, status : {"Active", "Expired", "Unknown"}]
Job == [id : ProposalIds, voter : Voters, local : BOOLEAN, expired : SUBSET ProposalIds]

ASSUME ConsensusAssumption ==
  /\ Nodes \in Nat \ {0} /\ RequiredVotes \in Nat /\ Ttl \in Nat /\ MaxTime \in Nat
  /\ ProposalIds # {} /\ NumTasks \in Nat

NewProposal == [current_votes |-> 0, status |-> "Active"]

Known(p) == proposals[p].status # "Unknown"

is_expired(p) == now > announced[p]

\* Mutant: the status and the deadline are not looked at.
AnyKnownProposal(p) == Known(p)

can_vote(p) == proposals[p].status = "Active" /\ ~is_expired(p)

has_quorum(p) == Known(p) /\ proposals[p].current_votes >= RequiredVotes

\* The guards on the proposals that live across an `await`.
WriteHeld == \E t \in Tasks : pc[t] \in {"finalize", "decide"}
ReadHeld == maintenance = "upgrade" \/ \E t \in Tasks : pc[t] = "stats"

\* tokio's lock is fair: a reader waits behind the writer that is queued.
ReadFree == ~WriteHeld /\ maintenance = "tick"
WriteFree == ~WriteHeld /\ ~ReadHeld

TotalVotes(p) == Sum(votes[p], Nodes)

Idle == [id |-> CHOOSE p \in ProposalIds : TRUE, voter |-> Self, local |-> FALSE,
         expired |-> {}]

Init ==
  /\ proposals = [p \in ProposalIds |-> Unknown]
  /\ votes = [p \in ProposalIds |-> [v \in Voters |-> 0]]
  /\ announced = [p \in ProposalIds |-> -1]
  /\ pc = [t \in Tasks |-> "idle"]
  /\ job = [t \in Tasks |-> Idle]
  /\ maintenance = "tick"
  /\ sent = {}
  /\ receiver = TRUE
  /\ now = 0

-----------------------------------------------------------------------------
(* Making a proposal, here or at a peer. *)

\* A failed broadcast returns an error and leaves the proposal stored.
create_proposal(p) ==
  /\ announced[p] = -1
  /\ WriteFree
  /\ proposals' = [proposals EXCEPT ![p] = NewProposal]
  /\ announced' = [announced EXCEPT ![p] = now + Ttl]
  /\ UNCHANGED <<votes, pc, job, maintenance, sent, receiver, now>>

PeerProposes(p) ==
  /\ announced[p] = -1
  /\ announced' = [announced EXCEPT ![p] = now + Ttl]
  /\ UNCHANGED <<proposals, votes, pc, job, maintenance, sent, receiver, now>>

\* A peer's proposal may be delivered again and again: the test that it is not
\* known yet and the insertion are made under different guards.
process_proposal(t, p) ==
  /\ pc[t] = "idle" /\ announced[p] >= 0
  /\ ReadFree /\ ~Known(p)
  /\ pc' = [pc EXCEPT ![t] = "insert"]
  /\ job' = [job EXCEPT ![t].id = p]
  /\ UNCHANGED <<proposals, votes, announced, maintenance, sent, receiver, now>>

\* The record is stored as it was received.  Proposals are only ever sent by
\* create_proposal, as they were made: without votes, and active.
InsertProposal(t) ==
  /\ pc[t] = "insert"
  /\ WriteFree
  /\ proposals' = [proposals EXCEPT ![job[t].id] = NewProposal]
  /\ pc' = [pc EXCEPT ![t] = "idle"]
  /\ UNCHANGED <<votes, announced, job, maintenance, sent, receiver, now>>

-----------------------------------------------------------------------------
(* Voting: `vote` and `process_vote` take the same steps, the first for    *)
(* this node and with a broadcast at the end.                              *)

BeginVote(t, p, v, local) ==
  /\ pc[t] = "idle"
  /\ ReadFree /\ Known(p) /\ can_vote(p)
  /\ pc' = [pc EXCEPT ![t] = "check"]
  /\ job' = [job EXCEPT ![t] = [id |-> p, voter |-> v, local |-> local, expired |-> {}]]
  /\ UNCHANGED <<proposals, votes, announced, maintenance, sent, receiver, now>>

vote(t, p) == BeginVote(t, p, Self, TRUE)

\* A peer's vote may be delivered more than once, and this node's own vote may
\* come back to it once it has been broadcast.
process_vote(t, p, v) ==
  /\ v = Self => <<p, v>> \in sent
  /\ BeginVote(t, p, v, FALSE)

\* Mutant: the voter is not looked up.
NotChecked(t) ==
  /\ pc[t] = "check"
  /\ pc' = [pc EXCEPT ![t] = "store"]
  /\ UNCHANGED <<proposals, votes, announced, job, maintenance, sent, receiver, now>>

CheckVoted(t) ==
  /\ pc[t] = "check"
  /\ pc' = [pc EXCEPT ![t] = IF votes[job[t].id][job[t].voter] = 0 THEN "store" ELSE "idle"]
  /\ UNCHANGED <<proposals, votes, announced, job, maintenance, sent, receiver, now>>

\* Mutant: a repeated vote replaces the earlier one, and is still counted.
StoreOnce(t) ==
  /\ pc[t] = "store"
  /\ votes' = [votes EXCEPT ![job[t].id][job[t].voter] = 1]
  /\ pc' = [pc EXCEPT ![t] = "count"]
  /\ UNCHANGED <<proposals, announced, job, maintenance, sent, receiver, now>>

StoreVote(t) ==
  /\ pc[t] = "store"
  /\ votes' = [votes EXCEPT ![job[t].id][job[t].voter] = @ + 1]
  /\ pc' = [pc EXCEPT ![t] = "count"]
  /\ UNCHANGED <<proposals, announced, job, maintenance, sent, receiver, now>>

\* Below the quorum the guard is dropped and a local vote is sent.  At the
\* quorum finalize_proposal is called with the write guard still held, and its
\* first step waits for a read guard of the same lock.
CountVote(t) ==
  LET p == job[t].id
      counted == proposals[p].current_votes + 1
      quorum == counted >= RequiredVotes
  IN  /\ pc[t] = "count"
      /\ WriteFree
      /\ proposals' = [proposals EXCEPT ![p].current_votes = counted]
      /\ pc' = [pc EXCEPT ![t] = IF quorum THEN "finalize" ELSE "idle"]
      /\ sent' = IF ~quorum /\ job[t].local /\ receiver
                 THEN sent \cup {<<p, job[t].voter>>} ELSE sent
      /\ UNCHANGED <<votes, announced, job, maintenance, receiver, now>>

\* finalize_proposal: both maps are read, the caller's write guard still held,
\* and the outcome is stored under another write guard.  Vote types are left
\* out, so either outcome is possible.
FinalizeRead(t) ==
  /\ pc[t] = "finalize"
  /\ ReadFree
  /\ pc' = [pc EXCEPT ![t] = "decide"]
  /\ UNCHANGED <<proposals, votes, announced, job, maintenance, sent, receiver, now>>

FinalizeDecide(t) ==
  /\ pc[t] = "decide"
  /\ WriteFree
  /\ \E outcome \in {"Approved", "Rejected"} :
       proposals' = [proposals EXCEPT ![job[t].id].status = outcome]
  /\ pc' = [pc EXCEPT ![t] = "idle"]
  /\ sent' = IF job[t].local /\ receiver
             THEN sent \cup {<<job[t].id, job[t].voter>>} ELSE sent
  /\ UNCHANGED <<votes, announced, job, maintenance, receiver, now>>

-----------------------------------------------------------------------------
(* Expiry, statistics and the environment. *)

Expirable == {p \in ProposalIds : proposals[p].status = "Active" /\ is_expired(p)}

CleanupScan(t) ==
  /\ pc[t] = "idle"
  /\ ReadFree /\ Expirable # {}
  /\ pc' = [pc EXCEPT ![t] = "mark"]
  /\ job' = [job EXCEPT ![t].expired = Expirable]
  /\ UNCHANGED <<proposals, votes, announced, maintenance, sent, receiver, now>>

CleanupMark(t) ==
  /\ pc[t] = "mark"
  /\ WriteFree
  /\ proposals' = [p \in ProposalIds |->
       IF p \in job[t].expired THEN [proposals[p] EXCEPT !.status = "Expired"]
       ELSE proposals[p]]
  /\ pc' = [pc EXCEPT ![t] = "idle"]
  /\ UNCHANGED <<votes, announced, job, maintenance, sent, receiver, now>>

\* The maintenance task asks for the write guard in the scope of its own read
\* guard: having found an expired proposal it never takes another step.  (The
\* guard shadows the lock there; what is meant is a write guard of the lock.)
MaintenanceTick ==
  /\ ReadFree /\ Expirable # {}
  /\ maintenance' = "upgrade"
  /\ UNCHANGED <<proposals, votes, announced, pc, job, sent, receiver, now>>

StatsProposals(t) ==
  /\ pc[t] = "idle"
  /\ ReadFree
  /\ pc' = [pc EXCEPT ![t] = "stats"]
  /\ UNCHANGED <<proposals, votes, announced, job, maintenance, sent, receiver, now>>

\* Mutant: get_stats upgrades its read guard instead of going on under it.
StatsUpgrade(t) ==
  /\ pc[t] = "stats"
  /\ WriteFree
  /\ pc' = [pc EXCEPT ![t] = "idle"]
  /\ UNCHANGED <<proposals, votes, announced, job, maintenance, sent, receiver, now>>

StatsVotes(t) ==
  /\ pc[t] = "stats"
  /\ pc' = [pc EXCEPT ![t] = "idle"]
  /\ UNCHANGED <<proposals, votes, announced, job, maintenance, sent, receiver, now>>

DropReceiver ==
  /\ receiver
  /\ receiver' = FALSE
  /\ UNCHANGED <<proposals, votes, announced, pc, job, maintenance, sent, now>>

Tick ==
  /\ now < MaxTime
  /\ now' = now + 1
  /\ UNCHANGED <<proposals, votes, announced, pc, job, maintenance, sent, receiver>>

-----------------------------------------------------------------------------
Start(t) ==
  \/ \E p \in ProposalIds : process_proposal(t, p) \/ vote(t, p)
  \/ \E p \in ProposalIds, v \in Voters : process_vote(t, p, v)
  \/ CleanupScan(t)
  \/ StatsProposals(t)

Continue(t) ==
  InsertProposal(t) \/ CheckVoted(t) \/ StoreVote(t) \/ CountVote(t)
    \/ CleanupMark(t) \/ StatsVotes(t)

Next ==
  \/ \E p \in ProposalIds : create_proposal(p) \/ PeerProposes(p)
  \/ \E t \in Tasks : Start(t) \/ Continue(t)
  \/ MaintenanceTick
  \/ DropReceiver
  \/ Tick

Spec == Init /\ [][Next]_vars

\* A task that is inside a method is scheduled again, and the lock, which
\* serves its waiters in order, lets it in again and again while it can.
ConsensusFairness == \A t \in Tasks : SF_vars(Continue(t))

FairSpec == Spec /\ ConsensusFairness

\* Neither step of finalize_proposal is ever enabled: the first waits for a read
\* guard, and its own task holds the write guard.  Next leaves them out; with
\* them, and fair, nothing changes.
Finalize(t) == FinalizeRead(t) \/ FinalizeDecide(t)

FinalizingSpec ==
  /\ Init
  /\ [][Next \/ \E t \in Tasks : Finalize(t)]_vars
  /\ \A t \in Tasks : SF_vars(Continue(t) \/ Finalize(t))

-----------------------------------------------------------------------------
(* Properties. *)

ConsensusTypeOK ==
  /\ proposals \in [ProposalIds -> Proposal]
  /\ votes \in [ProposalIds -> [Voters -> Nat]]
  /\ announced \in [ProposalIds -> Int]
  /\ pc \in [Tasks -> {"idle", "insert", "check", "store", "count", "finalize",
                       "mark", "stats"}]
  /\ job \in [Tasks -> Job]
  /\ maintenance \in {"tick", "upgrade"}
  /\ sent \subseteq ProposalIds \X Voters
  /\ receiver \in BOOLEAN
  /\ now \in Nat

\* The tasks that have recorded a vote on p and not counted it yet.
Uncounted(p) ==
  Sum([t \in Tasks |-> IF pc[t] = "count" /\ job[t].id = p THEN 1 ELSE 0], NumTasks)

\* The tasks that have found no vote of v on p and have not recorded theirs.
Unrecorded(p, v) ==
  Sum([t \in Tasks |->
         IF pc[t] = "store" /\ job[t].id = p /\ job[t].voter = v THEN 1 ELSE 0], NumTasks)

\* A vote is counted only if it is recorded (vote, process_vote: push, then
\* current_votes += 1 under another guard): whatever the interleaving, the count
\* of a proposal and the votes still to be counted never exceed the votes
\* recorded for it, although a proposal delivered twice may reset its count.
VotesBackCounts ==
  \A p \in ProposalIds : proposals[p].current_votes + Uncounted(p) <= TotalVotes(p)

\* The check for an earlier vote and the recording are separate steps, so a
\* voter can be recorded more than once, but only by tasks that were all past
\* the check before the first of them recorded: at most once per task.
DuplicatesBounded ==
  \A p \in ProposalIds, v \in Voters : votes[p][v] <= NumTasks

\* can_vote is evaluated on a copy, so a vote can be recorded on a proposal
\* that has expired since; but only by a task that had begun before: on an
\* expired proposal the votes recorded and still under way never grow.
UnderWay(p) ==
  Sum([t \in Tasks |->
         IF pc[t] \in {"check", "store"} /\ job[t].id = p THEN 1 ELSE 0], NumTasks)

ExpiredVotesDrain ==
  [][\A p \in ProposalIds :
       proposals[p].status = "Expired" /\ proposals'[p].status = "Expired"
         => TotalVotes(p)' + UnderWay(p)' <= TotalVotes(p) + UnderWay(p)]_vars

\* A task inside a method returns, unless the proposals are locked for good by
\* a finalization or by the maintenance task: there is no other deadlock
\* between the two locks.
LockedForGood == WriteHeld \/ maintenance = "upgrade"
OperationsReturn ==
  \A t \in Tasks : (pc[t] # "idle") ~> (pc[t] = "idle" \/ LockedForGood)

\* "Finalize a proposal when quorum is reached" (the comment on
\* finalize_proposal, line 352).
QuorumDecides ==
  \A p \in ProposalIds :
    (proposals[p].current_votes > 0 /\ has_quorum(p))
      ~> proposals[p].status \in {"Approved", "Rejected"}
=============================================================================
