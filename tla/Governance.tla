----------------------------- MODULE Governance -----------------------------
(***************************************************************************)
(* The GovernanceService (network-node/src/governance.rs) over the         *)
(* registry of ChainParams: operators propose upgrades and vote, and a     *)
(* tick closes the proposals whose voting period is over and submits what  *)
(* passed.  Nothing in src/ calls the service yet; the heights its methods *)
(* are given are taken to be the registry's.                               *)
(***************************************************************************)
EXTENDS ChainParams, Functions

CONSTANTS
  Addresses,            \* the addresses that callers use
  Patches,              \* the patches that callers submit
  MaxProposals,         \* bound: proposals made
  MaxUpgrades,          \* bound: upgrades accepted
  VotingDuration        \* voting_duration

VARIABLES
  proposals             \* the proposals in the order they were made

ASSUME GovernanceAssumption ==
  /\ Addresses \subseteq Address /\ Patches \subseteq Patch
  /\ MaxProposals \in Nat /\ MaxUpgrades \in Nat /\ VotingDuration \in Nat

Statuses == {"Voting", "Passed", "Rejected", "Executed"}
Vote == [voter : Address, approve : BOOLEAN]
Proposal == [proposer : Address, patch : Patch, activation : Heights, status : Statuses,
             votes : UNION {[s -> Vote] : s \in SUBSET Names}, end_height : Heights]

GovernanceInit ==
  /\ governance \in Configs
  /\ registry = from_genesis_document(governance)
  /\ proposals = <<>>

\* The end of the voting period wraps in a release build.
propose(proposer, patch, activation) ==
  /\ Len(proposals) < MaxProposals
  /\ check_role(registry, proposer, "Operator")
  /\ proposals' = Append(proposals,
       [proposer |-> proposer, patch |-> patch, activation |-> activation,
        status |-> "Voting", votes |-> [n \in {} |-> 0],
        end_height |-> (registry.current_height + VotingDuration) % (MaxHeight + 1)])
  /\ UNCHANGED <<governance, registry>>

\* A second vote under any spelling of the name replaces the first.
cast_vote(p, voter, approve) ==
  /\ check_role(registry, voter, "Operator")
  /\ proposals[p].status = "Voting"
  /\ proposals' = [proposals EXCEPT ![p].votes =
       [n \in DOMAIN @ \cup {normalize_id(voter)} |->
          IF n = normalize_id(voter) THEN [voter |-> voter, approve |-> approve] ELSE @[n]]]
  /\ UNCHANGED <<governance, registry>>

\* Mutant: a proposal that could not be executed is tried again.
DueOrPassed(p) ==
  \/ proposals[p].status = "Passed"
  \/ proposals[p].status = "Voting" /\ registry.current_height >= proposals[p].end_height

Due(p) ==
  /\ proposals[p].status = "Voting"
  /\ registry.current_height >= proposals[p].end_height

\* The members that approve decide in a DAO; the admin keys need no vote.
Passes(prop) ==
  \/ governance.mode = "AdminKeys"
  \/ Cardinality({n \in DOMAIN prop.votes :
                    prop.votes[n].approve /\ normalize_id(prop.votes[n].voter) \in Keys})
       >= governance.min_approvals

\* Mutant: a proposal counts as executed whatever submitting it returned.
ExecuteRegardless(state, p) ==
  LET prop == proposals[p]
      voters == {prop.votes[n].voter : n \in DOMAIN prop.votes}
  IN  [registry |-> IF Accepts(state.registry, prop.patch, prop.activation,
                               prop.proposer, voters)
                    THEN submit_parameter_upgrade(state.registry, prop.patch,
                                                  prop.activation)
                    ELSE state.registry,
       executed |-> state.executed \cup {p}]

\* Submitting one passed proposal with everyone who voted, whichever way.
Execute(state, p) ==
  LET prop == proposals[p]
      voters == {prop.votes[n].voter : n \in DOMAIN prop.votes}
  IN  IF Accepts(state.registry, prop.patch, prop.activation, prop.proposer, voters)
      THEN [registry |-> submit_parameter_upgrade(state.registry, prop.patch,
                                                  prop.activation),
            executed |-> state.executed \cup {p}]
      ELSE state

\* Submitting the passed proposals one after the other.
ExecuteAll(order) ==
  LET state[i \in 0..Len(order)] ==
        IF i = 0 THEN [registry |-> registry, executed |-> {}]
        ELSE Execute(state[i - 1], order[i])
  IN  state[Len(order)]

\* The proposals are met in the order of a HashMap, so in any order.
tick ==
  LET due == {p \in DOMAIN proposals : Due(p)}
      passing == {p \in due : Passes(proposals[p])}
  IN  /\ due # {}
      /\ Len(registry.upgrade_history) + Cardinality(passing) <= MaxUpgrades
      /\ \E order \in Bijection(1..Cardinality(passing), passing) :
           LET end == ExecuteAll(order)
           IN  /\ registry' = end.registry
               /\ proposals' = [p \in DOMAIN proposals |->
                    IF p \in due
                    THEN [proposals[p] EXCEPT !.status =
                            IF p \in end.executed THEN "Executed"
                            ELSE IF p \in passing THEN "Passed" ELSE "Rejected"]
                    ELSE proposals[p]]
      /\ UNCHANGED governance

\* The registry's own methods, called beside the service.
GrantRole(caller, target, role) ==
  /\ check_role(registry, caller, "Admin")
  /\ registry' = grant_role(registry, target, role)
  /\ UNCHANGED <<governance, proposals>>

RevokeRole(caller, target) ==
  /\ check_role(registry, caller, "Admin")
  /\ HasRole(registry, target)
  /\ registry' = revoke_role(registry, target)
  /\ UNCHANGED <<governance, proposals>>

\* The hook for consensus and sync; nothing in src/ calls it yet.
SetChainTip(height) ==
  /\ registry' = set_chain_tip_height(registry, height)
  /\ UNCHANGED <<governance, proposals>>
=============================================================================
