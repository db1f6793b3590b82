--------------------------- MODULE ServiceProofs ----------------------------
(***************************************************************************)
(* Proofs about what a node's tasks share: the consensus engine, the       *)
(* handlers that report errors, the event indexer, and the signing service *)
(* with its public-key cache; for any number of tasks, proposals, voters,  *)
(* components, endpoints, ledgers, restarts, signers, retries and calls,   *)
(* any threshold and any time to live.                                     *)
(***************************************************************************)
EXTENDS ErrorMiddleware, EventIndexer, Consensus, Signing, SumTheorems

-----------------------------------------------------------------------------
(* Consensus: voting *)

TaskPlaces == {"idle", "insert", "check", "store", "count", "finalize", "mark", "stats"}

\* What a task adds to the three tallies of Consensus.
Counts(t, p) == IF pc[t] = "count" /\ job[t].id = p THEN 1 ELSE 0
Records(t, p, v) ==
  IF pc[t] = "store" /\ job[t].id = p /\ job[t].voter = v THEN 1 ELSE 0
Votes(t, p) == IF pc[t] \in {"check", "store"} /\ job[t].id = p THEN 1 ELSE 0

\* A voter's records and the tasks about to add one are together at most the tasks:
\* a task is about to add one only if it saw none.
RecordsBounded ==
  \A p \in ProposalIds, v \in Voters : votes[p][v] + Unrecorded(p, v) <= NumTasks

TallyTypes ==
  /\ proposals \in [ProposalIds -> Proposal]
  /\ votes \in [ProposalIds -> [Voters -> Nat]]
  /\ pc \in [Tasks -> TaskPlaces]
  /\ job \in [Tasks -> Job]

VotingInv == TallyTypes /\ VotesBackCounts /\ RecordsBounded

-----------------------------------------------------------------------------
(* The tallies *)

\* A sum of n ones is n.
LEMMA SumOnes ==
  ASSUME NEW n \in Nat
  PROVE  Sum([i \in 1..n |-> 1], n) = n
<1> DEFINE s == [i \in 1..n |-> 1]
           p == [i \in 0..n |-> i]
<1>1. s \in [1..n -> Int] /\ IsPartial(p, s, n) /\ p[n] = n
  BY DEF IsPartial
<1> HIDE DEF s, p
<1>2. Sum(s, n) = n
  BY <1>1, SumIs
<1> QED BY <1>2 DEF s

\* The tallies are natural numbers, and no more than all tasks record at once.
LEMMA TallyBounds ==
  ASSUME NEW p, NEW v
  PROVE  /\ Uncounted(p) \in Nat /\ UnderWay(p) \in Nat /\ Unrecorded(p, v) \in Nat
         /\ Unrecorded(p, v) <= NumTasks
<1> DEFINE c == [t \in Tasks |-> IF pc[t] = "count" /\ job[t].id = p THEN 1 ELSE 0]
           r == [t \in Tasks |-> IF pc[t] = "store" /\ job[t].id = p /\ job[t].voter = v THEN 1 ELSE 0]
           w == [t \in Tasks |-> IF pc[t] \in {"check", "store"} /\ job[t].id = p THEN 1 ELSE 0]
           o == [t \in 1..NumTasks |-> 1]
<1>1. /\ c \in [1..NumTasks -> Nat] /\ r \in [1..NumTasks -> Nat] /\ w \in [1..NumTasks -> Nat]
      /\ NumTasks \in Nat
  BY ConsensusAssumption DEF Tasks
<1>2. r \in [1..NumTasks -> Int] /\ o \in [1..NumTasks -> Int] /\ \A t \in 1..NumTasks : r[t] <= o[t]
  BY DEF Tasks
<1>3. Sum(o, NumTasks) = NumTasks
  BY <1>1, SumOnes
<1>4. Uncounted(p) = Sum(c, NumTasks) /\ Unrecorded(p, v) = Sum(r, NumTasks)
      /\ UnderWay(p) = Sum(w, NumTasks)
  BY DEF Uncounted, Unrecorded, UnderWay
<1> HIDE DEF c, r, w, o
<1>5. Sum(r, NumTasks) <= NumTasks
  BY <1>1, <1>2, <1>3, SumMonotone, Zenon
<1> QED BY <1>1, <1>4, <1>5, SumNat, Zenon

\* A step of one task changes each tally by what it changes of that task.
LEMMA TallyStep ==
  ASSUME NEW t \in Tasks, NEW p, NEW v,
         \A u \in Tasks \ {t} : pc'[u] = pc[u] /\ job'[u] = job[u]
  PROVE  /\ Uncounted(p)' = Uncounted(p) + (Counts(t, p)' - Counts(t, p))
         /\ Unrecorded(p, v)' = Unrecorded(p, v) + (Records(t, p, v)' - Records(t, p, v))
         /\ UnderWay(p)' = UnderWay(p) + (Votes(t, p)' - Votes(t, p))
<1> DEFINE c(P, J) == [u \in Tasks |-> IF P[u] = "count" /\ J[u].id = p THEN 1 ELSE 0]
           r(P, J) == [u \in Tasks |-> IF P[u] = "store" /\ J[u].id = p /\ J[u].voter = v THEN 1 ELSE 0]
           w(P, J) == [u \in Tasks |-> IF P[u] \in {"check", "store"} /\ J[u].id = p THEN 1 ELSE 0]
<1>1. NumTasks \in Nat /\ t \in 1..NumTasks
  BY ConsensusAssumption DEF Tasks
<1>2. Uncounted(p)' = Uncounted(p) + (Counts(t, p)' - Counts(t, p))
  <2>1. c(pc, job) \in [1..NumTasks -> Int] /\ c(pc', job') \in [1..NumTasks -> Int]
    BY DEF Tasks
  <2>2. \A u \in 1..NumTasks : u # t => c(pc', job')[u] = c(pc, job)[u]
    BY DEF Tasks
  <2>3. c(pc, job)[t] = Counts(t, p) /\ c(pc', job')[t] = Counts(t, p)'
    BY DEF Counts
  <2>4. Uncounted(p) = Sum(c(pc, job), NumTasks) /\ Uncounted(p)' = Sum(c(pc', job'), NumTasks)
    BY DEF Uncounted
  <2> HIDE DEF c
  <2> QED BY <1>1, <2>1, <2>2, <2>3, <2>4, SumUpdate, Zenon
<1>3. Unrecorded(p, v)' = Unrecorded(p, v) + (Records(t, p, v)' - Records(t, p, v))
  <2>1. r(pc, job) \in [1..NumTasks -> Int] /\ r(pc', job') \in [1..NumTasks -> Int]
    BY DEF Tasks
  <2>2. \A u \in 1..NumTasks : u # t => r(pc', job')[u] = r(pc, job)[u]
    BY DEF Tasks
  <2>3. r(pc, job)[t] = Records(t, p, v) /\ r(pc', job')[t] = Records(t, p, v)'
    BY DEF Records
  <2>4. /\ Unrecorded(p, v) = Sum(r(pc, job), NumTasks)
        /\ Unrecorded(p, v)' = Sum(r(pc', job'), NumTasks)
    BY DEF Unrecorded
  <2> HIDE DEF r
  <2> QED BY <1>1, <2>1, <2>2, <2>3, <2>4, SumUpdate, Zenon
<1>4. UnderWay(p)' = UnderWay(p) + (Votes(t, p)' - Votes(t, p))
  <2>1. w(pc, job) \in [1..NumTasks -> Int] /\ w(pc', job') \in [1..NumTasks -> Int]
    BY DEF Tasks
  <2>2. \A u \in 1..NumTasks : u # t => w(pc', job')[u] = w(pc, job)[u]
    BY DEF Tasks
  <2>3. w(pc, job)[t] = Votes(t, p) /\ w(pc', job')[t] = Votes(t, p)'
    BY DEF Votes
  <2>4. UnderWay(p) = Sum(w(pc, job), NumTasks) /\ UnderWay(p)' = Sum(w(pc', job'), NumTasks)
    BY DEF UnderWay
  <2> HIDE DEF w
  <2> QED BY <1>1, <2>1, <2>2, <2>3, <2>4, SumUpdate, Zenon
<1> QED BY <1>2, <1>3, <1>4

\* The votes recorded for a proposal are a natural number; one more record is one more.
LEMMA TotalVotesStep ==
  ASSUME TallyTypes, NEW p \in ProposalIds
  PROVE  /\ TotalVotes(p) \in Nat
         /\ \A q \in ProposalIds, v \in Voters :
              votes' = [votes EXCEPT ![q][v] = @ + 1]
                => TotalVotes(p)' = TotalVotes(p) + (IF p = q THEN 1 ELSE 0)
<1>1. votes[p] \in [1..Nodes -> Nat] /\ Nodes \in Nat
  BY ConsensusAssumption DEF TallyTypes, Voters
<1>2. TotalVotes(p) \in Nat
  BY <1>1, SumNat DEF TotalVotes
<1>3. ASSUME NEW q \in ProposalIds, NEW v \in Voters, votes' = [votes EXCEPT ![q][v] = @ + 1]
      PROVE  TotalVotes(p)' = TotalVotes(p) + (IF p = q THEN 1 ELSE 0)
  <2>1. CASE p # q
    <3>1. votes'[p] = votes[p]
      BY <1>3, <2>1 DEF TallyTypes
    <3> QED BY <1>2, <2>1, <3>1 DEF TotalVotes
  <2>2. CASE p = q
    <3>1. votes'[p] = [votes[p] EXCEPT ![v] = votes[p][v] + 1]
      BY <1>3, <2>2 DEF TallyTypes
    <3>2. votes[p] \in [1..Nodes -> Int] /\ votes'[p] \in [1..Nodes -> Int] /\ v \in 1..Nodes
      BY <1>1, <3>1 DEF Voters
    <3>3. (\A i \in 1..Nodes : i # v => votes'[p][i] = votes[p][i]) /\ votes'[p][v] = votes[p][v] + 1
      BY <1>1, <3>1 DEF Voters
    <3>4. Sum(votes'[p], Nodes) = Sum(votes[p], Nodes) + (votes'[p][v] - votes[p][v])
      BY <1>1, <3>2, <3>3, SumUpdate, Zenon
    <3>5. votes[p][v] \in Nat
      BY <1>1 DEF Voters
    <3> QED BY <1>2, <2>2, <3>3, <3>4, <3>5 DEF TotalVotes
  <2> QED BY <2>1, <2>2
<1> QED BY <1>2, <1>3

-----------------------------------------------------------------------------
(* The invariant *)

\* Nothing is recorded or under way at first.
LEMMA VotingInit == Init => VotingInv
<1> SUFFICES ASSUME Init PROVE VotingInv
  OBVIOUS
<1>1. Idle \in Job
  BY ConsensusAssumption DEF Idle, Job, Self, Voters
<1>2. TallyTypes
  BY <1>1 DEF Init, TallyTypes, Unknown, Proposal, TaskPlaces
<1>3. ASSUME NEW p \in ProposalIds
      PROVE  proposals[p].current_votes + Uncounted(p) <= TotalVotes(p)
  <2>1. Uncounted(p) = Sum([i \in 1..NumTasks |-> 0], NumTasks)
    <3>1. [t \in Tasks |-> IF pc[t] = "count" /\ job[t].id = p THEN 1 ELSE 0] = [i \in 1..NumTasks |-> 0]
      BY DEF Init, Tasks
    <3> QED BY <3>1, Zenon DEF Uncounted
  <2>2. Uncounted(p) = 0
    BY <2>1, SumZero, ConsensusAssumption
  <2>3. proposals[p].current_votes = 0
    BY DEF Init, Unknown
  <2> QED BY <1>2, <2>2, <2>3, TotalVotesStep
<1>4. ASSUME NEW p \in ProposalIds, NEW v \in Voters
      PROVE  votes[p][v] + Unrecorded(p, v) <= NumTasks
  <2>1. votes[p][v] = 0
    BY DEF Init
  <2> QED BY <2>1, TallyBounds, ConsensusAssumption
<1> QED BY <1>2, <1>3, <1>4 DEF VotingInv, VotesBackCounts, RecordsBounded

\* A step that adds no vote keeps the invariant if the counts only go down.
LEMMA NoVoteAdded ==
  ASSUME VotingInv, TallyTypes', UNCHANGED votes,
         \A p \in ProposalIds : proposals'[p].current_votes \in {0, proposals[p].current_votes},
         \A p \in ProposalIds : Uncounted(p)' = Uncounted(p),
         \A p \in ProposalIds, v \in Voters :
           Unrecorded(p, v)' = Unrecorded(p, v) \/ votes[p][v] = 0
  PROVE  VotingInv'
<1>1. ASSUME NEW p \in ProposalIds
      PROVE  (proposals[p].current_votes + Uncounted(p) <= TotalVotes(p))'
  <2>1. TotalVotes(p)' = TotalVotes(p) /\ TotalVotes(p) \in Nat
    BY TotalVotesStep DEF TotalVotes, VotingInv
  <2>2. proposals[p].current_votes \in Nat
    BY DEF VotingInv, TallyTypes, Proposal
  <2>3. /\ proposals[p].current_votes + Uncounted(p) <= TotalVotes(p) /\ Uncounted(p) \in Nat
        /\ proposals'[p].current_votes = 0 \/ proposals'[p].current_votes = proposals[p].current_votes
        /\ Uncounted(p)' = Uncounted(p)
    BY TallyBounds, Zenon DEF VotingInv, VotesBackCounts
  <2> DEFINE n == proposals[p].current_votes
             n2 == proposals'[p].current_votes
  <2>4. n2 + Uncounted(p) <= TotalVotes(p)
    <3> HIDE DEF n, n2
    <3>1. n \in Nat /\ n + Uncounted(p) <= TotalVotes(p) /\ Uncounted(p) \in Nat /\ (n2 = 0 \/ n2 = n)
      BY <2>2, <2>3, Zenon DEF n, n2
    <3> QED BY <2>1, <3>1
  <2> QED BY <2>1, <2>3, <2>4, Zenon
<1>2. ASSUME NEW p \in ProposalIds, NEW v \in Voters
      PROVE  (votes[p][v] + Unrecorded(p, v) <= NumTasks)'
  <2>1. CASE Unrecorded(p, v)' = Unrecorded(p, v)
    BY <2>1 DEF VotingInv, RecordsBounded
  <2>2. CASE votes[p][v] = 0
    <3>1. (Unrecorded(p, v) \in Nat /\ Unrecorded(p, v) <= NumTasks)'
      BY TallyBounds, PTL
    <3> QED BY <2>2, <3>1
  <2> QED BY <2>1, <2>2, Zenon
<1> QED BY <1>1, <1>2, Zenon DEF VotingInv, VotesBackCounts, RecordsBounded

\* Recording a vote adds one to the records, and one to those still to be counted.
LEMMA StoreVoteStep ==
  ASSUME VotingInv, NEW t \in Tasks, StoreVote(t)
  PROVE  VotingInv'
<1> DEFINE q == job[t].id
           w == job[t].voter
<1>1. q \in ProposalIds /\ w \in Voters
  BY Zenon DEF VotingInv, TallyTypes, Job
<1>2. /\ pc[t] = "store" /\ pc'[t] = "count" /\ job' = job /\ proposals' = proposals
      /\ votes' = [votes EXCEPT ![q][w] = @ + 1]
      /\ \A u \in Tasks \ {t} : pc'[u] = pc[u] /\ job'[u] = job[u]
  BY Zenon DEF StoreVote, VotingInv, TallyTypes
<1>3. TallyTypes'
  <2>1. pc' \in [Tasks -> TaskPlaces]
    BY Zenon DEF StoreVote, VotingInv, TallyTypes, TaskPlaces
  <2>2. votes' \in [ProposalIds -> [Voters -> Nat]]
    BY <1>1, <1>2 DEF VotingInv, TallyTypes
  <2> QED BY <1>2, <2>1, <2>2, Zenon DEF VotingInv, TallyTypes
<1>4. ASSUME NEW p \in ProposalIds
      PROVE  (proposals[p].current_votes + Uncounted(p) <= TotalVotes(p))'
  <2> DEFINE one == IF p = q THEN 1 ELSE 0
  <2>1. proposals[p].current_votes \in Nat /\ one \in Nat
    BY Zenon DEF VotingInv, TallyTypes, Proposal
  <2>2. Uncounted(p)' = Uncounted(p) + one
    <3>1. Counts(t, p) = 0 /\ Counts(t, p)' = one
      BY <1>2 DEF Counts
    <3> HIDE DEF one
    <3> QED BY <1>2, <2>1, <3>1, TallyStep, TallyBounds
  <2>3. TotalVotes(p)' = TotalVotes(p) + one /\ TotalVotes(p) \in Nat
    BY <1>1, <1>2, TotalVotesStep, Zenon DEF VotingInv
  <2>4. proposals'[p].current_votes = proposals[p].current_votes
    BY <1>2
  <2>5. proposals[p].current_votes + Uncounted(p) <= TotalVotes(p)
    BY DEF VotingInv, VotesBackCounts
  <2>6. Uncounted(p) \in Nat
    BY TallyBounds
  <2> DEFINE n == proposals[p].current_votes
             n2 == proposals'[p].current_votes
  <2>7. n \in Nat /\ n2 = n /\ n + Uncounted(p) <= TotalVotes(p)
    BY <2>1, <2>4, <2>5
  <2> HIDE DEF one, q, n, n2
  <2>8. n2 + Uncounted(p)' <= TotalVotes(p)'
    BY <2>1, <2>2, <2>3, <2>6, <2>7
  <2> QED BY <2>8, Zenon DEF n2
<1>5. ASSUME NEW p \in ProposalIds, NEW v \in Voters
      PROVE  (votes[p][v] + Unrecorded(p, v) <= NumTasks)'
  <2> DEFINE one == IF p = q /\ v = w THEN 1 ELSE 0
  <2>1. votes[p][v] \in Nat /\ one \in Nat
    BY Zenon DEF VotingInv, TallyTypes
  <2>2. Unrecorded(p, v)' = Unrecorded(p, v) - one
    <3>1. Records(t, p, v) = one /\ Records(t, p, v)' = 0
      BY <1>2, Zenon DEF Records
    <3> HIDE DEF one
    <3> QED BY <1>2, <2>1, <3>1, TallyStep, TallyBounds
  <2>3. votes'[p][v] = votes[p][v] + one
    BY <1>1, <1>2 DEF VotingInv, TallyTypes
  <2>4. votes[p][v] + Unrecorded(p, v) <= NumTasks
    BY Zenon DEF VotingInv, RecordsBounded
  <2> HIDE DEF one, q
  <2> QED BY <2>1, <2>2, <2>3, <2>4, TallyBounds, ConsensusAssumption
<1> QED BY <1>3, <1>4, <1>5, Zenon DEF VotingInv, VotesBackCounts, RecordsBounded

\* Counting a vote takes it from those still to be counted.
LEMMA CountVoteStep ==
  ASSUME VotingInv, NEW t \in Tasks, CountVote(t)
  PROVE  VotingInv'
<1> DEFINE q == job[t].id
           counted == proposals[q].current_votes + 1
<1>1. q \in ProposalIds /\ counted \in Nat
  BY DEF VotingInv, TallyTypes, Job, Proposal
<1>2. /\ pc[t] = "count" /\ pc'[t] = (IF counted >= RequiredVotes THEN "finalize" ELSE "idle")
      /\ job' = job /\ votes' = votes
      /\ proposals' = [proposals EXCEPT ![q].current_votes = counted]
      /\ \A u \in Tasks \ {t} : pc'[u] = pc[u] /\ job'[u] = job[u]
  BY DEF CountVote, VotingInv, TallyTypes
<1>3. /\ proposals'[q].current_votes = counted
      /\ \A p \in ProposalIds \ {q} : proposals'[p] = proposals[p]
  BY <1>1, <1>2 DEF VotingInv, TallyTypes, Proposal
<1>4. TallyTypes'
  <2>1. pc' \in [Tasks -> TaskPlaces]
    BY DEF CountVote, VotingInv, TallyTypes, TaskPlaces
  <2>2. [proposals[q] EXCEPT !.current_votes = counted] \in Proposal
    BY <1>1, Zenon DEF VotingInv, TallyTypes, Proposal
  <2>3. proposals' \in [ProposalIds -> Proposal]
    BY <1>1, <1>2, <2>2, Zenon DEF VotingInv, TallyTypes
  <2> QED BY <1>2, <2>1, <2>3, Zenon DEF VotingInv, TallyTypes
<1>5. ASSUME NEW p \in ProposalIds
      PROVE  (proposals[p].current_votes + Uncounted(p) <= TotalVotes(p))'
  <2> DEFINE one == IF p = q THEN 1 ELSE 0
  <2>1. proposals[p].current_votes \in Nat /\ one \in Nat
    BY DEF VotingInv, TallyTypes, Proposal
  <2>2. Uncounted(p)' = Uncounted(p) - one
    <3>1. Counts(t, p) = one /\ Counts(t, p)' = 0
      BY <1>2, Zenon DEF Counts
    <3> HIDE DEF one
    <3> QED BY <1>2, <2>1, <3>1, TallyStep, TallyBounds
  <2>3. proposals'[p].current_votes = proposals[p].current_votes + one
    <3>1. CASE p = q
      BY <1>3, <3>1, Zenon
    <3>2. CASE p # q
      BY <1>3, <3>2 DEF VotingInv, TallyTypes, Proposal
    <3> QED BY <3>1, <3>2, Zenon
  <2>4. TotalVotes(p)' = TotalVotes(p) /\ TotalVotes(p) \in Nat
    BY <1>2, TotalVotesStep, Zenon DEF TotalVotes, VotingInv
  <2>5. proposals[p].current_votes + Uncounted(p) <= TotalVotes(p)
    BY DEF VotingInv, VotesBackCounts
  <2>6. Uncounted(p) \in Nat
    BY TallyBounds, Zenon
  <2> HIDE DEF one, q, counted
  <2> QED BY <2>1, <2>2, <2>3, <2>4, <2>5, <2>6
<1>6. ASSUME NEW p \in ProposalIds, NEW v \in Voters
      PROVE  (votes[p][v] + Unrecorded(p, v) <= NumTasks)'
  <2>1. Records(t, p, v) = 0 /\ Records(t, p, v)' = 0
    BY <1>2, Zenon DEF Records
  <2>2. Unrecorded(p, v)' = Unrecorded(p, v)
    BY <1>2, <2>1, TallyStep, TallyBounds
  <2> QED BY <1>2, <2>2, Zenon DEF VotingInv, RecordsBounded
<1> QED BY <1>4, <1>5, <1>6 DEF VotingInv, VotesBackCounts, RecordsBounded

\* Every step of the engine keeps the invariant; one step per action that touches the
\* proposals, the votes or a task.
LEMMA VotingStep == VotingInv /\ [Next]_vars => VotingInv'
<1> SUFFICES ASSUME VotingInv, [Next]_vars
             PROVE  VotingInv'
  OBVIOUS
<1> DEFINE Quiet == {"idle", "insert", "mark", "stats"}
<1>1. NewProposal \in Proposal /\ NewProposal.current_votes = 0
  BY Zenon DEF NewProposal, Proposal
<1>2. ASSUME NEW p \in ProposalIds, create_proposal(p)
      PROVE  VotingInv'
  <2>1. TallyTypes' /\ UNCHANGED <<votes, pc, job>>
    BY <1>1, <1>2, Zenon DEF create_proposal, VotingInv, TallyTypes
  <2>2. \A q \in ProposalIds : proposals'[q].current_votes \in {0, proposals[q].current_votes}
    BY <1>1, <1>2 DEF create_proposal, VotingInv, TallyTypes
  <2>3. /\ \A q \in ProposalIds : Uncounted(q)' = Uncounted(q)
        /\ \A q \in ProposalIds, v \in Voters : Unrecorded(q, v)' = Unrecorded(q, v)
    BY <2>1, Zenon DEF Uncounted, Unrecorded
  <2> QED BY <2>1, <2>2, <2>3, NoVoteAdded, Zenon
<1>3. ASSUME NEW t \in Tasks, TallyTypes', UNCHANGED votes,
             \A u \in Tasks \ {t} : pc'[u] = pc[u] /\ job'[u] = job[u],
             \A q \in ProposalIds : proposals'[q].current_votes \in {0, proposals[q].current_votes},
             pc[t] \in Quiet \cup {"check"}, pc'[t] \in Quiet \cup {"check", "store"},
             pc'[t] = "store" => job'[t] = job[t] /\ votes[job[t].id][job[t].voter] = 0
      PROVE  VotingInv'
  <2>1. \A q \in ProposalIds : Uncounted(q)' = Uncounted(q)
    <3> SUFFICES ASSUME NEW q \in ProposalIds PROVE Uncounted(q)' = Uncounted(q)
      BY Zenon
    <3>1. Counts(t, q) = 0 /\ Counts(t, q)' = 0
      BY <1>3, Zenon DEF Counts
    <3>2. Uncounted(q)' = Uncounted(q) + (Counts(t, q)' - Counts(t, q))
      BY <1>3, TallyStep
    <3>3. Uncounted(q) \in Nat
      BY TallyBounds
    <3> QED BY <3>1, <3>2, <3>3
  <2>2. ASSUME NEW q \in ProposalIds, NEW v \in Voters, votes[q][v] # 0
        PROVE  Unrecorded(q, v)' = Unrecorded(q, v)
    <3>1. Records(t, q, v) = 0 /\ Records(t, q, v)' = 0
      BY <1>3, <2>2, Zenon DEF Records
    <3>2. Unrecorded(q, v)' = Unrecorded(q, v) + (Records(t, q, v)' - Records(t, q, v))
      BY <1>3, TallyStep
    <3>3. Unrecorded(q, v) \in Nat
      BY TallyBounds, Zenon
    <3> QED BY <3>1, <3>2, <3>3
  <2> QED BY <1>3, <2>1, <2>2, NoVoteAdded, Zenon
<1>4. ASSUME NEW t \in Tasks,
             \/ \E p \in ProposalIds : process_proposal(t, p)
             \/ CleanupScan(t) \/ StatsProposals(t) \/ StatsVotes(t)
      PROVE  VotingInv'
  <2>1. /\ UNCHANGED <<votes, proposals>> /\ pc[t] \in Quiet /\ pc'[t] \in Quiet
        /\ \A u \in Tasks \ {t} : pc'[u] = pc[u] /\ job'[u] = job[u]
    BY <1>4 DEF process_proposal, CleanupScan, StatsProposals, StatsVotes, VotingInv, TallyTypes
  <2>2. pc' \in [Tasks -> TaskPlaces]
    BY <1>4 DEF process_proposal, CleanupScan, StatsProposals, StatsVotes, VotingInv, TallyTypes, TaskPlaces
  <2>3. Expirable \subseteq ProposalIds
    BY DEF Expirable
  <2>4. job' \in [Tasks -> Job]
    <3>1. ASSUME NEW p \in ProposalIds, process_proposal(t, p)
          PROVE  job' \in [Tasks -> Job]
      BY <3>1, Zenon DEF process_proposal, VotingInv, TallyTypes, Job
    <3>2. CASE CleanupScan(t)
      <4>1. [job[t] EXCEPT !.expired = Expirable] \in Job
        BY <2>3, Zenon DEF VotingInv, TallyTypes, Job
      <4> QED BY <3>2, <4>1 DEF CleanupScan, VotingInv, TallyTypes
    <3>3. CASE StatsProposals(t) \/ StatsVotes(t)
      BY <3>3, Zenon DEF StatsProposals, StatsVotes, VotingInv, TallyTypes
    <3> QED BY <1>4, <3>1, <3>2, <3>3
  <2> QED BY <1>3, <2>1, <2>2, <2>4, Zenon DEF VotingInv, TallyTypes
<1>5. ASSUME NEW t \in Tasks, InsertProposal(t)
      PROVE  VotingInv'
  <2>1. job[t].id \in ProposalIds
    BY DEF VotingInv, TallyTypes, Job
  <2>2. /\ UNCHANGED <<votes, job>> /\ pc[t] = "insert" /\ pc'[t] = "idle"
        /\ \A u \in Tasks \ {t} : pc'[u] = pc[u]
        /\ pc' \in [Tasks -> TaskPlaces]
    BY <1>5 DEF InsertProposal, VotingInv, TallyTypes, TaskPlaces
  <2>3. /\ proposals' \in [ProposalIds -> Proposal]
        /\ \A q \in ProposalIds : proposals'[q].current_votes \in {0, proposals[q].current_votes}
    BY <1>1, <1>5, <2>1, Zenon DEF InsertProposal, VotingInv, TallyTypes
  <2> QED BY <1>3, <2>2, <2>3 DEF VotingInv, TallyTypes
<1>6. ASSUME NEW t \in Tasks, NEW p \in ProposalIds, NEW v \in Voters, NEW local \in BOOLEAN,
             BeginVote(t, p, v, local)
      PROVE  VotingInv'
  <2>1. /\ UNCHANGED <<votes, proposals>> /\ pc[t] = "idle" /\ pc'[t] = "check"
        /\ \A u \in Tasks \ {t} : pc'[u] = pc[u] /\ job'[u] = job[u]
        /\ pc' \in [Tasks -> TaskPlaces]
    BY <1>6, Zenon DEF BeginVote, VotingInv, TallyTypes, TaskPlaces
  <2>2. job' \in [Tasks -> Job]
    BY <1>6, Zenon DEF BeginVote, VotingInv, TallyTypes, Job
  <2> QED BY <1>3, <2>1, <2>2 DEF VotingInv, TallyTypes
<1>7. ASSUME NEW t \in Tasks, CheckVoted(t)
      PROVE  VotingInv'
  <2>1. /\ UNCHANGED <<votes, proposals, job>> /\ pc[t] = "check" /\ pc'[t] \in {"store", "idle"}
        /\ pc'[t] = "store" => votes[job[t].id][job[t].voter] = 0
        /\ \A u \in Tasks \ {t} : pc'[u] = pc[u]
        /\ pc' \in [Tasks -> TaskPlaces]
    BY <1>7, Zenon DEF CheckVoted, VotingInv, TallyTypes, TaskPlaces
  <2> QED BY <1>3, <2>1, Zenon DEF VotingInv, TallyTypes
<1>8. ASSUME NEW t \in Tasks, CleanupMark(t)
      PROVE  VotingInv'
  <2>1. /\ UNCHANGED <<votes, job>> /\ pc[t] = "mark" /\ pc'[t] = "idle"
        /\ \A u \in Tasks \ {t} : pc'[u] = pc[u]
        /\ pc' \in [Tasks -> TaskPlaces]
    BY <1>8 DEF CleanupMark, VotingInv, TallyTypes, TaskPlaces
  <2>2. \A q \in ProposalIds : /\ [proposals[q] EXCEPT !.status = "Expired"] \in Proposal
                               /\ [proposals[q] EXCEPT !.status = "Expired"].current_votes
                                    = proposals[q].current_votes
    BY DEF VotingInv, TallyTypes, Proposal
  <2>3. /\ proposals' \in [ProposalIds -> Proposal]
        /\ \A q \in ProposalIds : proposals'[q].current_votes = proposals[q].current_votes
    BY <1>8, <2>2, Zenon DEF CleanupMark, VotingInv, TallyTypes
  <2> QED BY <1>3, <2>1, <2>3 DEF VotingInv, TallyTypes
<1>9. CASE UNCHANGED <<proposals, votes, pc, job>>
  <2>1. /\ \A q \in ProposalIds : Uncounted(q)' = Uncounted(q)
        /\ \A q \in ProposalIds, v \in Voters : Unrecorded(q, v)' = Unrecorded(q, v)
    BY <1>9 DEF Uncounted, Unrecorded
  <2> QED BY <1>9, <2>1, NoVoteAdded, Zenon DEF VotingInv, TallyTypes
<1>10. ASSUME NEW t \in Tasks, Start(t) PROVE VotingInv'
  <2>1. Self \in Voters /\ TRUE \in BOOLEAN /\ FALSE \in BOOLEAN
    BY ConsensusAssumption DEF Self, Voters
  <2> QED BY <1>4, <1>6, <1>10, <2>1, Zenon DEF Start, vote, process_vote
<1>11. ASSUME NEW t \in Tasks, Continue(t) PROVE VotingInv'
  BY <1>4, <1>5, <1>7, <1>8, <1>11, StoreVoteStep, CountVoteStep, Zenon DEF Continue
<1> QED
  BY <1>2, <1>9, <1>10, <1>11, Zenon
  DEF Next, vars, PeerProposes, MaintenanceTick, DropReceiver, Tick

-----------------------------------------------------------------------------
\* VotingInv holds of every behaviour.
LEMMA VotingInvariant == Spec => []VotingInv
BY VotingInit, VotingStep, PTL DEF Spec

\* A vote is counted only if it is recorded, in every interleaving of any number of
\* tasks that vote, process votes, insert proposals again, or clean up.
THEOREM CountsAreBacked == Spec => []VotesBackCounts
BY VotingInvariant, PTL DEF VotingInv

\* A voter is recorded at most once per task, because a task that adds a record has
\* seen none: the race between check and record is bounded by the tasks in it.
THEOREM RecordsPerVoterBounded == Spec => []DuplicatesBounded
<1>1. VotingInv => DuplicatesBounded
  <2> SUFFICES ASSUME VotingInv, NEW p \in ProposalIds, NEW v \in Voters
               PROVE  votes[p][v] <= NumTasks
    BY DEF DuplicatesBounded
  <2>1. votes[p][v] \in Nat /\ votes[p][v] + Unrecorded(p, v) <= NumTasks
    BY DEF VotingInv, TallyTypes, RecordsBounded
  <2> QED BY <2>1, TallyBounds, ConsensusAssumption
<1> QED BY <1>1, VotingInvariant, PTL

\* On an expired proposal the votes recorded and still under way never grow: only a
\* task that begins a vote adds to them, and it begins none on an expired proposal.
THEOREM ExpiredVotesNeverGrow == Spec => ExpiredVotesDrain
<1>1. VotingInv /\ [Next]_vars =>
        [\A p \in ProposalIds :
           proposals[p].status = "Expired" /\ proposals'[p].status = "Expired"
             => TotalVotes(p)' + UnderWay(p)' <= TotalVotes(p) + UnderWay(p)]_vars
  <2> SUFFICES ASSUME VotingInv, Next, NEW p \in ProposalIds, proposals[p].status = "Expired"
               PROVE  TotalVotes(p)' + UnderWay(p)' <= TotalVotes(p) + UnderWay(p)
    OBVIOUS
  <2>1. TotalVotes(p) \in Nat /\ UnderWay(p) \in Nat
    BY TallyBounds, TotalVotesStep DEF VotingInv
  <2>2. ASSUME NEW t \in Tasks, UNCHANGED votes, Votes(t, p)' <= Votes(t, p),
               \A u \in Tasks \ {t} : pc'[u] = pc[u] /\ job'[u] = job[u]
        PROVE  TotalVotes(p)' + UnderWay(p)' <= TotalVotes(p) + UnderWay(p)
    <3>1. UnderWay(p)' = UnderWay(p) + (Votes(t, p)' - Votes(t, p))
      BY <2>2, TallyStep, Zenon
    <3>2. TotalVotes(p)' = TotalVotes(p)
      BY <2>2, Zenon DEF TotalVotes
    <3>3. Votes(t, p) \in Nat /\ Votes(t, p)' \in Nat
      BY DEF Votes
    <3> DEFINE T == TotalVotes(p)
               T2 == TotalVotes(p)'
               W == UnderWay(p)
               W2 == UnderWay(p)'
               x == Votes(t, p)
               x2 == Votes(t, p)'
    <3>4. /\ T \in Nat /\ W \in Nat /\ x \in Nat /\ x2 \in Nat /\ x2 <= x
          /\ T2 = T /\ W2 = W + (x2 - x)
      BY <2>1, <2>2, <3>1, <3>2, <3>3, Zenon
    <3> HIDE DEF T, T2, W, W2, x, x2
    <3>5. T2 + W2 <= T + W
      BY <3>4
    <3> QED BY <3>5, Zenon DEF T, T2, W, W2
  <2>3. ASSUME NEW t \in Tasks, Start(t)
        PROVE  TotalVotes(p)' + UnderWay(p)' <= TotalVotes(p) + UnderWay(p)
    <3>1. UNCHANGED votes /\ \A u \in Tasks \ {t} : pc'[u] = pc[u] /\ job'[u] = job[u]
      BY <2>3, Zenon DEF Start, process_proposal, vote, process_vote, BeginVote, CleanupScan,
         StatsProposals, VotingInv, TallyTypes
    <3>2. pc'[t] = "check" => job'[t].id # p
      <4>1. ASSUME NEW q \in ProposalIds, NEW v, NEW local, BeginVote(t, q, v, local)
            PROVE  job'[t].id # p
        <5>1. q # p
          <6>1. can_vote(q)
            BY <4>1, Zenon DEF BeginVote
          <6> QED BY <6>1 DEF can_vote
        <5>2. job'[t].id = q
          BY <4>1 DEF BeginVote, VotingInv, TallyTypes
        <5> QED BY <5>1, <5>2, Zenon
      <4>2. ASSUME (\E q \in ProposalIds : process_proposal(t, q)) \/ CleanupScan(t) \/ StatsProposals(t)
            PROVE  pc'[t] # "check"
        BY <4>2 DEF process_proposal, CleanupScan, StatsProposals, VotingInv, TallyTypes
      <4> QED BY <2>3, <4>1, <4>2, Zenon DEF Start, vote, process_vote
    <3>3. pc'[t] # "store" /\ Votes(t, p) = 0
      BY <2>3, Zenon DEF Start, process_proposal, vote, process_vote, BeginVote, CleanupScan,
         StatsProposals, VotingInv, TallyTypes, Votes
    <3>4. Votes(t, p)' = 0
      BY <3>2, <3>3, Zenon DEF Votes
    <3> QED BY <2>2, <3>1, <3>3, <3>4
  <2>4. ASSUME NEW t \in Tasks, StoreVote(t)
        PROVE  TotalVotes(p)' + UnderWay(p)' <= TotalVotes(p) + UnderWay(p)
    <3> DEFINE one == IF p = job[t].id THEN 1 ELSE 0
    <3>1. job[t].id \in ProposalIds /\ job[t].voter \in Voters /\ one \in Nat
      BY Zenon DEF VotingInv, TallyTypes, Job
    <3>2. Votes(t, p) = one /\ Votes(t, p)' = 0
      BY <2>4 DEF StoreVote, Votes, VotingInv, TallyTypes
    <3>3. TotalVotes(p)' = TotalVotes(p) + one
      BY <2>4, <3>1, TotalVotesStep, Zenon DEF StoreVote, VotingInv
    <3>4. UnderWay(p)' = UnderWay(p) + (Votes(t, p)' - Votes(t, p))
      BY <2>4, TallyStep, Zenon DEF StoreVote, VotingInv, TallyTypes
    <3>5. UnderWay(p)' = UnderWay(p) + (0 - one)
      BY <3>2, <3>4, Zenon
    <3> HIDE DEF one
    <3> QED BY <2>1, <3>1, <3>3, <3>5
  <2>5. ASSUME NEW t \in Tasks,
               InsertProposal(t) \/ CheckVoted(t) \/ CountVote(t) \/ CleanupMark(t) \/ StatsVotes(t)
        PROVE  TotalVotes(p)' + UnderWay(p)' <= TotalVotes(p) + UnderWay(p)
    <3>1. UNCHANGED <<votes, job>> /\ \A u \in Tasks \ {t} : pc'[u] = pc[u]
      BY <2>5, Zenon DEF InsertProposal, CheckVoted, CountVote, CleanupMark, StatsVotes, VotingInv, TallyTypes
    <3>2. pc'[t] \in {"check", "store"} => pc[t] \in {"check", "store"}
      BY <2>5, Zenon DEF InsertProposal, CheckVoted, CountVote, CleanupMark, StatsVotes, VotingInv, TallyTypes
    <3>3. Votes(t, p)' <= Votes(t, p)
      BY <3>1, <3>2 DEF Votes
    <3> QED BY <2>2, <3>1, <3>3
  <2>6. CASE UNCHANGED <<votes, pc, job>>
    BY <2>1, <2>6 DEF TotalVotes, UnderWay
  <2> QED
    BY <2>3, <2>4, <2>5, <2>6, Zenon
    DEF Next, Continue, create_proposal, PeerProposes, MaintenanceTick, DropReceiver, Tick
<1> QED BY <1>1, VotingInvariant, PTL DEF Spec, ExpiredVotesDrain

-----------------------------------------------------------------------------
(* The error middleware *)

Breaker ==
  [state : {"None", "Closed", "Open", "HalfOpen"}, failure_count : Nat,
   last_failure_time : Nat, success_count : Nat]

\* BreakerAccounts with the types it needs: an error between the two locks names a
\* component.
AccountsInv ==
  /\ clock \in Nat
  /\ circuit_breakers \in [Components -> Breaker]
  /\ credit \in [Components -> Int]
  /\ handling \in [Handlers -> Components \cup {"none"}]
  /\ BreakerAccounts

\* No breaker has an entry at first.
LEMMA AccountsInit == ErrorInit => AccountsInv
BY ErrorAssumption DEF ErrorInit, AccountsInv, BreakerAccounts, Breaker, NoBreaker, NewBreaker

\* One more failure opens a closed breaker before it gets to the threshold, and
\* leaves the successes alone.
LEMMA FailKeepsAccount ==
  ASSUME clock \in Nat, NEW b \in Breaker, b.state # "None",
         b.state = "Closed" => b.failure_count < BreakerThreshold
  PROVE  /\ Fail(b) \in Breaker
         /\ Fail(b).state = "Closed" => Fail(b).failure_count < BreakerThreshold
         /\ Fail(b).success_count = b.success_count
<1> DEFINE n == [b EXCEPT !.failure_count = b.failure_count + 1]
<1>1. /\ n \in Breaker /\ n.state = b.state /\ n.success_count = b.success_count
      /\ n.failure_count = b.failure_count + 1 /\ n.last_failure_time = b.last_failure_time
  BY DEF Breaker
<1>2. /\ Opened(n) \in Breaker /\ Opened(n).state = "Open"
      /\ Opened(n).success_count = n.success_count
  BY <1>1, Zenon DEF Opened, Breaker
<1>3. /\ [n EXCEPT !.state = "HalfOpen"] \in Breaker
      /\ [n EXCEPT !.state = "HalfOpen"].state = "HalfOpen"
      /\ [n EXCEPT !.state = "HalfOpen"].success_count = n.success_count
  BY <1>1, Zenon DEF Breaker
<1>4. b.state \in {"Closed", "Open", "HalfOpen"}
  BY DEF Breaker
<1>5. Fail(b) = CASE n.state = "Closed" -> IF n.failure_count >= BreakerThreshold THEN Opened(n) ELSE n
                  [] n.state = "Open" -> IF clock - n.last_failure_time > BreakerTimeout
                                         THEN [n EXCEPT !.state = "HalfOpen"] ELSE n
                  [] n.state = "HalfOpen" -> Opened(n)
  BY DEF Fail
<1>6. n.failure_count \in Nat /\ BreakerThreshold \in Nat
  BY <1>1, ErrorAssumption DEF Breaker
<1> HIDE DEF n
<1>7. CASE b.state = "Closed"
  BY <1>1, <1>2, <1>5, <1>6, <1>7
<1>8. CASE b.state = "Open"
  BY <1>1, <1>3, <1>5, <1>8
<1>9. CASE b.state = "HalfOpen"
  BY <1>1, <1>2, <1>5, <1>9, Zenon
<1> QED BY <1>4, <1>7, <1>8, <1>9

\* A success counts one up, or closes the breaker and takes all counts back.
LEMMA SucceedKeepsAccount ==
  ASSUME NEW b \in Breaker,
         b.state = "Closed" => b.failure_count < BreakerThreshold
  PROVE  /\ Succeed(b) \in Breaker
         /\ Succeed(b).state = "Closed" => Succeed(b).failure_count < BreakerThreshold
         /\ Succeed(b).success_count = IF Closes(b) THEN 0 ELSE b.success_count + 1
<1>1. CASE Closes(b)
  <2> DEFINE n == [b EXCEPT !.state = "Closed", !.failure_count = 0, !.success_count = 0]
  <2>1. Succeed(b) = n
    BY <1>1 DEF Succeed
  <2>2. n \in Breaker /\ n.failure_count = 0 /\ n.success_count = 0
    BY Zenon DEF Breaker
  <2> HIDE DEF n
  <2> QED BY <1>1, <2>1, <2>2, ErrorAssumption
<1>2. CASE ~Closes(b)
  <2> DEFINE n == [b EXCEPT !.success_count = b.success_count + 1]
  <2>1. Succeed(b) = n
    BY <1>2 DEF Succeed
  <2>2. /\ n \in Breaker /\ n.state = b.state /\ n.failure_count = b.failure_count
        /\ n.success_count = b.success_count + 1
    BY DEF Breaker
  <2> HIDE DEF n
  <2> QED BY <1>2, <2>1, <2>2
<1> QED BY <1>1, <1>2

\* Every error, success, reset and tick keeps the account.
LEMMA AccountsStep == AccountsInv /\ [ErrorNext]_errorVars => AccountsInv'
<1> SUFFICES ASSUME AccountsInv, [ErrorNext]_errorVars
             PROVE  AccountsInv'
  BY Zenon
<1>1. ASSUME NEW t \in Handlers, NEW c \in Components, record_error_stats(t, c)
      PROVE  AccountsInv'
  BY <1>1, Zenon DEF record_error_stats, AccountsInv, BreakerAccounts
<1>2. ASSUME NEW t \in Handlers, check_circuit_breaker(t)
      PROVE  AccountsInv'
  <2> DEFINE c == handling[t]
             entry == IF circuit_breakers[c].state = "None" THEN NewBreaker ELSE circuit_breakers[c]
  <2>1. c \in Components
    BY <1>2, Zenon DEF check_circuit_breaker, AccountsInv
  <2>2. /\ entry \in Breaker /\ entry.state # "None" /\ entry.success_count <= credit[c]
        /\ entry.state = "Closed" => entry.failure_count < BreakerThreshold
    <3>1. NewBreaker \in Breaker
      BY DEF NewBreaker, Breaker
    <3>2. circuit_breakers[c] \in Breaker /\ credit[c] \in Int
      BY <2>1, Zenon DEF AccountsInv
    <3> QED BY <2>1, <3>1, <3>2, ErrorAssumption DEF AccountsInv, BreakerAccounts, NewBreaker, Breaker
  <2>3. circuit_breakers' = [circuit_breakers EXCEPT ![c] = Fail(entry)] /\ UNCHANGED <<clock, credit>>
    BY <1>2, Zenon DEF check_circuit_breaker
  <2>4. handling' \in [Handlers -> Components \cup {"none"}]
    BY <1>2, Zenon DEF check_circuit_breaker, AccountsInv
  <2> HIDE DEF entry
  <2>5. /\ Fail(entry) \in Breaker
        /\ Fail(entry).state = "Closed" => Fail(entry).failure_count < BreakerThreshold
        /\ Fail(entry).success_count <= credit[c]
    BY <2>2, FailKeepsAccount, Zenon DEF AccountsInv
  <2> HIDE DEF c
  <2> QED BY <2>1, <2>3, <2>4, <2>5, Zenon DEF AccountsInv, BreakerAccounts
<1>3. ASSUME NEW c \in Components, record_success(c)
      PROVE  AccountsInv'
  <2> DEFINE b == circuit_breakers[c]
  <2>1. /\ b \in Breaker /\ credit[c] \in Int /\ b.success_count <= credit[c]
        /\ b.state = "Closed" => b.failure_count < BreakerThreshold
    BY DEF AccountsInv, BreakerAccounts
  <2>2. /\ circuit_breakers' = [circuit_breakers EXCEPT ![c] = Succeed(b)]
        /\ credit' = [credit EXCEPT ![c] = credit[c] + (IF Closes(b) THEN 1 - 3 ELSE 1)]
        /\ UNCHANGED <<clock, handling>>
    BY <1>3, Zenon DEF record_success
  <2>3. Closes(b) => b.success_count + 1 >= 3
    BY Zenon DEF Closes
  <2> HIDE DEF b
  <2>4. Succeed(b).success_count <= credit[c] + (IF Closes(b) THEN 1 - 3 ELSE 1)
    BY <2>1, <2>3, SucceedKeepsAccount DEF Breaker
  <2>5. /\ circuit_breakers' \in [Components -> Breaker] /\ credit' \in [Components -> Int]
    BY <2>1, <2>2, SucceedKeepsAccount DEF AccountsInv
  <2>6. BreakerAccounts'
    <3> SUFFICES ASSUME NEW d \in Components
                 PROVE  /\ circuit_breakers'[d].state = "Closed" =>
                             circuit_breakers'[d].failure_count < BreakerThreshold
                        /\ circuit_breakers'[d].success_count <= credit'[d]
      BY Zenon DEF BreakerAccounts
    <3>1. CASE d = c
      BY <2>1, <2>2, <2>4, <3>1, SucceedKeepsAccount, Zenon DEF AccountsInv
    <3>2. CASE d # c
      BY <2>2, <3>2, Zenon DEF AccountsInv, BreakerAccounts
    <3> QED BY <3>1, <3>2, Zenon
  <2> QED BY <2>2, <2>5, <2>6, Zenon DEF AccountsInv
<1>4. ASSUME NEW c \in Components, reset_circuit_breaker(c)
      PROVE  AccountsInv'
  <2>1. NewBreaker \in Breaker /\ NewBreaker.success_count = 0 /\ NewBreaker.failure_count = 0
    BY DEF NewBreaker, Breaker
  <2>2. credit[c] >= 0
    BY DEF AccountsInv, BreakerAccounts, Breaker
  <2> QED BY <1>4, <2>1, <2>2, ErrorAssumption DEF reset_circuit_breaker, AccountsInv, BreakerAccounts
<1>5. CASE reset_stats \/ ClockTick \/ UNCHANGED errorVars
  BY <1>5 DEF reset_stats, ClockTick, errorVars, AccountsInv, BreakerAccounts
<1> QED BY <1>1, <1>2, <1>3, <1>4, <1>5 DEF ErrorNext

\* A closed breaker is below its threshold at all times, and no breaker has closed
\* more often than a third of the successes recorded for it.
THEOREM BreakersAccount == ErrorSpec => []BreakerAccounts
BY AccountsInit, AccountsStep, PTL DEF ErrorSpec, AccountsInv

-----------------------------------------------------------------------------
(* The event indexer *)

\* The inductive invariant: a call is at an endpoint that exists, whose ledgers are
\* known, and there is no gap behind the cursor.
IndexerInv == IndexerTypeOK /\ NoGapsBehindCursor

\* A failed request leaves its call at an endpoint, or ends it.
LEMMA FailoverKeepsCalls ==
  ASSUME IndexerTypeOK, NEW c \in Callers, NEW f \in Failures, call[c] # 0, Failover(c, f)
  PROVE  call' \in [Callers -> Endpoints \cup {0}]
<1>1. call[c] \in Endpoints /\ call[c] \in Nat
  BY IndexerAssumption DEF IndexerTypeOK, Endpoints
<1>2. call[c] < NumEndpoints => call[c] + 1 \in Endpoints
  BY <1>1, IndexerAssumption DEF Endpoints
<1> QED BY <1>1, <1>2 DEF Failover, IndexerTypeOK

\* The cursor moves to one past the ledgers of the endpoint that answered, which may
\* be back; every ledger on the way was logged or left out of the page.
LEMMA GetEventsStep ==
  ASSUME IndexerInv, GetEvents
  PROVE  IndexerInv'
<1> DEFINE e == call["indexer"]
<1>1. e \in Endpoints /\ tip[e] \in Nat /\ tip[e] <= MaxLedger
  <2>1. e \in Endpoints
    BY DEF GetEvents, IndexerInv, IndexerTypeOK, Callers
  <2>2. tip[e] \in Ledgers
    BY <2>1, Zenon DEF IndexerInv, IndexerTypeOK
  <2> QED BY <2>1, <2>2, IndexerAssumption DEF Ledgers
<1>2. /\ logged' = logged \cup Page(current_ledger, e)
      /\ cut' = cut \cup (From(current_ledger, e) \ Page(current_ledger, e))
      /\ current_ledger' = tip[e] + 1
      /\ indexer' = "select" /\ call' = [call EXCEPT !["indexer"] = 0]
      /\ UNCHANGED <<cancelled, tip, restarts>>
  BY DEF GetEvents, NextCursor
<1> HIDE DEF e
<1>3. Page(current_ledger, e) \subseteq From(current_ledger, e)
      /\ From(current_ledger, e) \subseteq Ledgers
  BY Zenon DEF Page, From
<1>4. IndexerTypeOK'
  <2>1. current_ledger' \in 0..(MaxLedger + 1)
    BY <1>1, <1>2, IndexerAssumption
  <2>2. call' \in [Callers -> Endpoints \cup {0}]
    BY <1>2, Zenon DEF IndexerInv, IndexerTypeOK
  <2>3. logged' \subseteq Ledgers /\ cut' \subseteq Ledgers
    BY <1>2, <1>3 DEF IndexerInv, IndexerTypeOK
  <2> QED BY <1>2, <2>1, <2>2, <2>3, Zenon DEF IndexerInv, IndexerTypeOK
<1>5. ASSUME NEW l \in Ledgers, l < current_ledger'
      PROVE  l \in logged' \cup cut'
  <2>1. l \in Nat /\ current_ledger \in Nat /\ l <= tip[e]
    BY <1>1, <1>2, <1>5, IndexerAssumption DEF IndexerInv, IndexerTypeOK, Ledgers
  <2>2. CASE l < current_ledger
    BY <1>2, <2>2, Zenon DEF IndexerInv, NoGapsBehindCursor
  <2>3. CASE current_ledger <= l
    <3>1. l \in From(current_ledger, e)
      BY <2>1, <2>3 DEF From
    <3> QED BY <1>2, <3>1
  <2> QED BY <2>1, <2>2, <2>3
<1> QED BY <1>4, <1>5, Zenon DEF IndexerInv, NoGapsBehindCursor

\* The indexer leaves no gap behind its cursor but what a full page left out, for any
\* lag between the endpoints, whichever polls fail, and across restarts.
THEOREM IndexerLeavesNoGaps == IndexerSpec => []NoGapsBehindCursor
<1>1. IndexerInit => IndexerInv
  <2> SUFFICES ASSUME IndexerInit PROVE IndexerInv
    OBVIOUS
  <2>1. /\ 0 \in 0..(MaxLedger + 1) /\ 0 \in Ledgers /\ 0 \in 0..MaxRestarts
        /\ \A l \in Ledgers : ~(l < 0)
    BY IndexerAssumption DEF Ledgers
  <2> QED BY <2>1, Zenon DEF IndexerInit, IndexerInv, IndexerTypeOK, NoGapsBehindCursor
<1>2. IndexerInv /\ [IndexerNext]_indexerVars => IndexerInv'
  <2> SUFFICES ASSUME IndexerInv, [IndexerNext]_indexerVars PROVE IndexerInv'
    OBVIOUS
  <2> USE DEF IndexerInv, IndexerTypeOK, NoGapsBehindCursor
  <2>1. 1 \in Endpoints
    BY IndexerAssumption DEF Endpoints
  <2>2. CASE UNCHANGED indexerVars
    BY <2>2 DEF indexerVars
  <2>3. CASE PollTick
    BY <2>1, <2>3, Zenon DEF PollTick
  <2>4. CASE GetEvents
    BY <2>4, GetEventsStep, Zenon
  <2>5. CASE GetEventsFails
    <3>1. call' \in [Callers -> Endpoints \cup {0}]
      BY <2>5, FailoverKeepsCalls, Zenon DEF GetEventsFails, Callers
    <3> QED BY <2>5, <3>1, Zenon DEF GetEventsFails
  <2>6. CASE StopIndexer
    BY <2>6, Zenon DEF StopIndexer
  <2>7. CASE SorobanService
    BY <2>1, <2>7, Zenon DEF SorobanService, get_health, get_transaction_status,
       simulate_transaction, submit_soroban_transaction, ServiceCall
  <2>8. CASE ServiceAnswer
    <3>1. call' \in [Callers -> Endpoints \cup {0}]
      BY <2>8, FailoverKeepsCalls, Zenon DEF ServiceAnswer, Callers
    <3> QED BY <2>8, <3>1, Zenon DEF ServiceAnswer
  <2>9. CASE Cancel
    BY <2>9 DEF Cancel
  <2>10. CASE RestartNode
    <3>1. current_ledger' \in 0..(MaxLedger + 1) /\ restarts' \in 0..MaxRestarts
      BY <2>10, IndexerAssumption DEF RestartNode
    <3>2. \A l \in Ledgers : ~(l < current_ledger')
      BY <2>10, IndexerAssumption DEF RestartNode, Ledgers
    <3> QED BY <2>10, <3>1, <3>2, Zenon DEF RestartNode
  <2>11. ASSUME NEW e \in Endpoints, CloseLedger(e)
         PROVE  IndexerInv'
    <3>1. tip' \in [Endpoints -> Ledgers]
      BY <2>11, IndexerAssumption DEF CloseLedger, Ledgers
    <3> QED BY <2>11, <3>1, Zenon DEF CloseLedger
  <2> QED BY <2>2, <2>3, <2>4, <2>5, <2>6, <2>7, <2>8, <2>9, <2>10, <2>11, Zenon DEF IndexerNext
<1>3. IndexerInv => NoGapsBehindCursor
  BY Zenon DEF IndexerInv
<1> QED BY <1>1, <1>2, <1>3, PTL DEF IndexerSpec

-----------------------------------------------------------------------------
(* The signing service *)

\* Neither the cache nor a fetch on its way back has a key from before the last
\* invalidation, nor has the signer: keys are replaced by later ones only.
CacheInv ==
  /\ registered \subseteq KeyIds
  /\ key \in [KeyIds -> Nat]
  /\ cache \in [KeyIds -> [key : Nat, cached_at : Nat]]
  /\ query \in [Clients -> [id : KeyIds, key : Nat, attempt : Nat]]
  /\ stage \in [Clients -> {"idle", "fetch", "fetch_sleep", "insert", "sign", "sign_sleep"}]
  /\ utc \in Nat
  /\ current_since \in [KeyIds -> Nat]
  /\ \A k \in KeyIds : current_since[k] <= key[k]
  /\ InvalidationHolds

\* Nothing is cached or on its way at first.
LEMMA CacheInvInit == SigningInit => CacheInv
<1> SUFFICES ASSUME SigningInit PROVE CacheInv
  BY Zenon
<1>1. NoQuery \in [id : KeyIds, key : Nat, attempt : Nat]
  BY SigningAssumption DEF NoQuery
<1> QED BY <1>1 DEF SigningInit, CacheInv, InvalidationHolds, NoEntry

\* The oldest key in flight is that of the signer or of a fetch, and older than none.
LEMMA OldestIsLeast ==
  ASSUME CacheInv, NEW k \in KeyIds
  PROVE  /\ OldestInFlight(k) \in Nat /\ OldestInFlight(k) <= key[k]
         /\ \A t \in Clients : stage[t] = "insert" /\ query[t].id = k => OldestInFlight(k) <= query[t].key
<1> DEFINE S == {key[k]} \cup {query[t].key : t \in {u \in Clients : stage[u] = "insert" /\ query[u].id = k}}
<1>1. S \subseteq Nat /\ key[k] \in S
  BY DEF CacheInv
<1>2. \A t \in Clients : stage[t] = "insert" /\ query[t].id = k => query[t].key \in S
  BY Zenon
<1>3. OldestInFlight(k) = Min(S)
  BY DEF OldestInFlight
<1> HIDE DEF S
<1>4. \E x \in S : \A y \in S : x =< y
  BY <1>1, Least, Zenon
<1>5. Min(S) \in S /\ \A y \in S : Min(S) =< y
  BY <1>4, Zenon DEF Min
<1> QED BY <1>1, <1>2, <1>3, <1>5, Zenon

\* Every call of the service, and every answer of a signer, keeps CacheInv.
LEMMA CacheInvStep == CacheInv /\ [SigningNext]_signing_vars => CacheInv'
<1> SUFFICES ASSUME CacheInv, [SigningNext]_signing_vars
             PROVE  CacheInv'
  BY Zenon
<1> DEFINE Queries == [id : KeyIds, key : Nat, attempt : Nat]
<1>1. NoQuery \in Queries
  BY SigningAssumption, Zenon DEF NoQuery
\* <1>2 is for a later key of a signer, <1>3 for a step of a task that brings no key.
<1>2. ASSUME registered' \subseteq KeyIds, key' \in [KeyIds -> Nat], \A k \in KeyIds : key[k] <= key'[k],
             UNCHANGED <<cache, stage, query, current_since, utc>>
      PROVE  CacheInv'
  BY <1>2 DEF CacheInv, InvalidationHolds
<1>3. ASSUME NEW t \in Clients, stage' \in [Clients -> {"idle", "fetch", "fetch_sleep", "insert", "sign", "sign_sleep"}],
             query' \in [Clients -> Queries], stage'[t] # "insert",
             \A u \in Clients \ {t} : stage'[u] = stage[u] /\ query'[u] = query[u],
             UNCHANGED <<registered, key, cache, current_since, utc>>
      PROVE  CacheInv'
  BY <1>3, Zenon DEF CacheInv, InvalidationHolds
<1>4. ASSUME NEW k \in KeyIds, NEW reached \in BOOLEAN, add_signer(k, reached)
      PROVE  CacheInv'
  <2>1. key' \in [KeyIds -> Nat] /\ \A j \in KeyIds : key[j] <= key'[j]
    <3>1. CASE key' = [key EXCEPT ![k] = @ + 1]
      BY <3>1 DEF CacheInv
    <3>2. CASE UNCHANGED key
      BY <3>2 DEF CacheInv
    <3> QED BY <1>4, <3>1, <3>2, Zenon DEF add_signer, CreateKey
  <2> QED BY <1>2, <1>4, <2>1, Zenon DEF add_signer, CacheInv
<1>5. ASSUME NEW k \in KeyIds, set_default_signer(k)
      PROVE  CacheInv'
  BY <1>2, <1>5 DEF set_default_signer, CacheInv
<1>6. ASSUME NEW k \in KeyIds, ReplaceKmsKey(k)
      PROVE  CacheInv'
  <2>1. key' \in [KeyIds -> Nat] /\ \A j \in KeyIds : key[j] <= key'[j]
    BY <1>6 DEF ReplaceKmsKey, CacheInv
  <2> QED BY <1>2, <1>6, <2>1, Zenon DEF ReplaceKmsKey, CacheInv
<1>7. ASSUME NEW k \in KeyIds, invalidate_cache(k)
      PROVE  CacheInv'
  <2> DEFINE m == OldestInFlight(k)
  <2>1. /\ m \in Nat /\ m <= key[k]
        /\ \A t \in Clients : stage[t] = "insert" /\ query[t].id = k => m <= query[t].key
    BY OldestIsLeast, Zenon
  <2>2. cache' = [cache EXCEPT ![k] = NoEntry] /\ current_since' = [current_since EXCEPT ![k] = m]
        /\ UNCHANGED <<registered, key, stage, query, utc>>
    BY <1>7, Zenon DEF invalidate_cache
  <2> HIDE DEF m
  <2>3. cache' \in [KeyIds -> [key : Nat, cached_at : Nat]] /\ current_since' \in [KeyIds -> Nat]
        /\ \A j \in KeyIds : current_since'[j] <= key'[j]
    BY <2>1, <2>2 DEF CacheInv, NoEntry
  <2>4. \A j \in KeyIds : cache'[j].key # 0 => cache'[j].key >= current_since'[j]
    BY <2>2, Zenon DEF CacheInv, InvalidationHolds, NoEntry
  <2>5. \A t \in Clients : stage'[t] = "insert" => query'[t].key >= current_since'[query'[t].id]
    BY <2>1, <2>2 DEF CacheInv, InvalidationHolds
  <2> QED BY <2>2, <2>3, <2>4, <2>5 DEF CacheInv, InvalidationHolds
<1>8. ASSUME NEW t \in Clients, NEW k \in KeyIds, get_public_key(t, k) \/ sign_with(t, k)
      PROVE  CacheInv'
  <2>1. stage' = [stage EXCEPT ![t] = "fetch"] \/ stage' = [stage EXCEPT ![t] = "sign"]
    BY <1>8 DEF get_public_key, sign_with
  <2>2. query' = [query EXCEPT ![t] = [id |-> k, key |-> 0, attempt |-> 1]]
        /\ UNCHANGED <<registered, key, cache, current_since, utc>>
    BY <1>8, Zenon DEF get_public_key, sign_with
  <2>3. query' \in [Clients -> Queries]
    BY <2>2 DEF CacheInv
  <2>4. /\ stage' \in [Clients -> {"idle", "fetch", "fetch_sleep", "insert", "sign", "sign_sleep"}]
        /\ stage'[t] # "insert" /\ \A u \in Clients \ {t} : stage'[u] = stage[u]
    BY <2>1, Zenon DEF CacheInv
  <2>5. \A u \in Clients \ {t} : query'[u] = query[u]
    BY <2>2, Zenon DEF CacheInv
  <2> QED BY <1>3, <2>2, <2>3, <2>4, <2>5, Zenon
<1>9. ASSUME NEW t \in Clients, FetchAnswer(t)
      PROVE  CacheInv'
  <2> DEFINE j == [query[t] EXCEPT !.key = key[query[t].id]]
  <2>1. j \in Queries /\ j.key = key[query[t].id] /\ j.id = query[t].id /\ query[t].id \in KeyIds
    BY Zenon DEF CacheInv
  <2>2. query' = [query EXCEPT ![t] = j] /\ stage' = [stage EXCEPT ![t] = "insert"]
        /\ UNCHANGED <<registered, key, cache, current_since, utc>>
    BY <1>9, Zenon DEF FetchAnswer
  <2> HIDE DEF j
  <2>3. \A u \in Clients : stage'[u] = "insert" => query'[u].key >= current_since'[query'[u].id]
    BY <2>1, <2>2 DEF CacheInv, InvalidationHolds
  <2> QED BY <2>1, <2>2, <2>3 DEF CacheInv, InvalidationHolds
<1>10. ASSUME NEW t \in Clients, InsertFetched(t)
       PROVE  CacheInv'
  <2> DEFINE e == [key |-> query[t].key, cached_at |-> utc]
  <2>1. e \in [key : Nat, cached_at : Nat] /\ e.key = query[t].key /\ query[t].id \in KeyIds
    BY Zenon DEF CacheInv
  <2>2. /\ stage[t] = "insert" /\ cache' = [cache EXCEPT ![query[t].id] = e]
        /\ stage' = [stage EXCEPT ![t] = "idle"] /\ query' = [query EXCEPT ![t] = NoQuery]
        /\ UNCHANGED <<registered, key, current_since, utc>>
    BY <1>10, Zenon DEF InsertFetched, Return
  <2> HIDE DEF e
  <2>3. \A k \in KeyIds : cache'[k].key # 0 => cache'[k].key >= current_since'[k]
    BY <2>1, <2>2, Zenon DEF CacheInv, InvalidationHolds
  <2>4. \A u \in Clients : stage'[u] = "insert" => query'[u].key >= current_since'[query'[u].id]
    BY <2>2, Zenon DEF CacheInv, InvalidationHolds
  <2> QED BY <1>1, <2>1, <2>2, <2>3, <2>4, Zenon DEF CacheInv, InvalidationHolds
<1>11. ASSUME NEW t \in Clients, SignAnswer(t) \/ DropCall(t) \/ Wake(t)
       PROVE  CacheInv'
  <2>1. CASE SignAnswer(t) \/ DropCall(t)
    <3>1. /\ stage' = [stage EXCEPT ![t] = "idle"] /\ query' = [query EXCEPT ![t] = NoQuery]
          /\ UNCHANGED <<registered, key, cache, current_since, utc>>
      BY <2>1, Zenon DEF SignAnswer, DropCall, Return
    <3>2. /\ stage' \in [Clients -> {"idle", "fetch", "fetch_sleep", "insert", "sign", "sign_sleep"}]
          /\ stage'[t] # "insert" /\ \A u \in Clients \ {t} : stage'[u] = stage[u]
      BY <3>1, Zenon DEF CacheInv
    <3>3. query' \in [Clients -> Queries] /\ \A u \in Clients \ {t} : query'[u] = query[u]
      BY <1>1, <3>1, Zenon DEF CacheInv
    <3> QED BY <1>3, <3>1, <3>2, <3>3
  <2>2. CASE Wake(t)
    <3>1. /\ stage' = [stage EXCEPT ![t] = IF @ = "fetch_sleep" THEN "fetch" ELSE "sign"]
          /\ UNCHANGED <<registered, key, cache, query, current_since, utc>>
      BY <2>2, Zenon DEF Wake
    <3>2. /\ stage' \in [Clients -> {"idle", "fetch", "fetch_sleep", "insert", "sign", "sign_sleep"}]
          /\ stage'[t] # "insert" /\ \A u \in Clients \ {t} : stage'[u] = stage[u]
      BY <3>1, Zenon DEF CacheInv
    <3>3. query' \in [Clients -> Queries] /\ \A u \in Clients \ {t} : query'[u] = query[u]
      BY <3>1 DEF CacheInv
    <3> QED BY <1>3, <3>1, <3>2, <3>3
  <2> QED BY <1>11, <2>1, <2>2, Zenon
<1>12. ASSUME NEW t \in Clients, NEW e \in KmsErrors, SignerError(t, e)
       PROVE  CacheInv'
  <2>1. UNCHANGED <<registered, key, cache, current_since, utc>> /\ stage[t] \in {"fetch", "sign"}
    BY <1>12, Zenon DEF SignerError
  <2>2. CASE Return(t)
    BY <1>1, <1>3, <2>1, <2>2, Zenon DEF Return, CacheInv
  <2>3. CASE stage' = [stage EXCEPT ![t] = Sleep(@)] /\ query' = [query EXCEPT ![t].attempt = @ + 1]
    <3>1. [query[t] EXCEPT !.attempt = query[t].attempt + 1] \in Queries
      BY DEF CacheInv
    <3>2. query' \in [Clients -> Queries]
      BY <2>3, <3>1, Zenon DEF CacheInv
    <3> QED BY <1>3, <2>1, <2>3, <3>2, Zenon DEF Sleep, CacheInv
  <2> QED BY <1>12, <2>2, <2>3 DEF SignerError, AfterError
<1>13. CASE SecondPasses
  BY <1>13 DEF SecondPasses, CacheInv, InvalidationHolds
<1>14. CASE UNCHANGED signing_vars
  BY <1>14 DEF signing_vars, CacheInv, InvalidationHolds
<1> QED
  BY <1>4, <1>5, <1>6, <1>7, <1>8, <1>9, <1>10, <1>11, <1>12, <1>13, <1>14, Zenon DEF SigningNext, Proceed

\* After an invalidation no answer has a key older than the signer had then, except
\* one already on its way, for any interleaving of any number of calls.
THEOREM InvalidationIsKept == SigningSpec => []InvalidationHolds
BY CacheInvInit, CacheInvStep, PTL DEF SigningSpec, CacheInv

-----------------------------------------------------------------------------
\* The default signer is one that was added, as soon as any was: add_signer makes the
\* first one the default, and no signer is ever removed.
THEOREM DefaultStaysRegistered == SigningSpec => []DefaultIsRegistered
<1>1. SigningInit => DefaultIsRegistered
  BY DEF SigningInit, DefaultIsRegistered
<1>2. DefaultIsRegistered /\ [SigningNext]_signing_vars => DefaultIsRegistered'
  <2> SUFFICES ASSUME DefaultIsRegistered, [SigningNext]_signing_vars
               PROVE  DefaultIsRegistered'
    BY Zenon
  <2>1. ASSUME NEW k \in KeyIds, NEW reached \in BOOLEAN, add_signer(k, reached)
        PROVE  DefaultIsRegistered'
    BY <2>1, SigningAssumption, Zenon DEF add_signer, DefaultIsRegistered
  <2>2. ASSUME NEW k \in KeyIds, set_default_signer(k)
        PROVE  DefaultIsRegistered'
    BY <2>2, SigningAssumption DEF set_default_signer, DefaultIsRegistered
  <2>3. CASE UNCHANGED <<registered, default_signer_key>>
    BY <2>3 DEF DefaultIsRegistered
  <2> QED
    BY <2>1, <2>2, <2>3, Zenon
    DEF SigningNext, Proceed, invalidate_cache, ReplaceKmsKey, get_public_key, sign_with, FetchAnswer,
        InsertFetched, SignAnswer, SignerError, Wake, DropCall, SecondPasses, signing_vars
<1> QED BY <1>1, <1>2, PTL DEF SigningSpec
=============================================================================
