--------------------------- MODULE UpgradeService ---------------------------
(***************************************************************************)
(* The chain parameters as the node serves them: ParameterUpgrade requests *)
(* reach the registry through the interceptor of the gRPC server           *)
(* (grpc/server.rs) and the network or the gateway service (grpc/), while  *)
(* the governance service submits what its proposals decided.              *)
(*                                                                         *)
(* A handler awaits the signature check, which accepts everything, and the *)
(* write guard; it reads no shared state before it has the guard, so its   *)
(* whole effect is the one step in which it holds it.                      *)
(***************************************************************************)
EXTENDS Governance

CONSTANTS
  VoterLists,           \* the lists of DAO voters that requests carry
  Metadata,             \* the headers that requests carry
  GrantedRoles          \* the roles that admins grant

VARIABLES
  configured,           \* is GRPC_ADMIN_AUTH_TOKEN_HASH set and not blank?
  responses             \* the tokens of the requests that were answered Ok

vars == <<governance, registry, proposals, configured, responses>>

Init == GovernanceInit /\ configured \in BOOLEAN /\ responses = <<>>

\* A header is absent, blank, or holds a token; "basic" is another scheme.
HeaderValues == {"absent", "blank", "basic", "wrong", "right"}
MetadataMap == [authorization : HeaderValues, x_api_key : HeaderValues,
                api_key : HeaderValues]
Blank == {"absent", "blank"}

ASSUME UpgradeAssumption ==
  /\ Metadata \subseteq MetadataMap /\ GrantedRoles \subseteq Roles
  /\ \A voters \in VoterLists : voters \subseteq Address

\* A bearer token, or else the first key that is not blank.
extract_admin_token(metadata) ==
  IF metadata.authorization \notin Blank \cup {"basic"} THEN metadata.authorization
  ELSE IF metadata.x_api_key \notin Blank THEN metadata.x_api_key
  ELSE IF metadata.api_key \notin Blank THEN metadata.api_key
  ELSE "none"

is_admin_grpc_route(path) ==
  path \in {"network/DistributeRewards", "network/ParameterUpgrade",
            "gateway/DistributeRewards", "gateway/ParameterUpgrade"}

\* AdminAuthInterceptor: does the request reach its handler?
Intercept(path, metadata) ==
  is_admin_grpc_route(path) => configured /\ extract_admin_token(metadata) = "right"

\* The network service's handler.  A request without a patch, or one that the
\* registry refuses, is answered with an error and changes nothing.
HandleUpgrade(token, patch, activation, proposer, voters) ==
  /\ Len(registry.upgrade_history) < MaxUpgrades
  /\ Accepts(registry, patch, activation, proposer, voters)
  /\ registry' = submit_parameter_upgrade(registry, patch, activation)
  /\ responses' = Append(responses, token)
  /\ UNCHANGED <<governance, proposals, configured>>

parameter_upgrade(metadata, patch, activation, proposer, voters) ==
  /\ Intercept("network/ParameterUpgrade", metadata)
  /\ HandleUpgrade(extract_admin_token(metadata), patch, activation, proposer, voters)

\* The gateway forwards every field of the request and of the answer.
gateway_parameter_upgrade(metadata, patch, activation, proposer, voters) ==
  /\ Intercept("gateway/ParameterUpgrade", metadata)
  /\ HandleUpgrade(extract_admin_token(metadata), patch, activation, proposer, voters)

Requests ==
  \E metadata \in Metadata, patch \in Patches, h \in Heights,
     proposer \in Addresses, voters \in VoterLists :
    \/ parameter_upgrade(metadata, patch, h, proposer, voters)
    \/ gateway_parameter_upgrade(metadata, patch, h, proposer, voters)

Voting ==
  \/ \E a \in Addresses, patch \in Patches, h \in Heights : propose(a, patch, h)
  \/ \E p \in DOMAIN proposals, a \in Addresses, b \in BOOLEAN : cast_vote(p, a, b)
  \/ tick

Administration ==
  \/ \E a, b \in Addresses, r \in GrantedRoles : GrantRole(a, b, r)
  \/ \E a, b \in Addresses : RevokeRole(a, b)
  \/ \E h \in Heights : SetChainTip(h)

Next ==
  \/ Requests
  \/ (Voting \/ Administration) /\ UNCHANGED <<configured, responses>>

Spec == Init /\ [][Next]_vars
-----------------------------------------------------------------------------
UpgradeTypeOK ==
  /\ governance \in Configs /\ registry \in Registry
  /\ proposals \in Seq(Proposal)
  /\ configured \in BOOLEAN /\ responses \in Seq({"none", "wrong", "right", "basic"})

\* What the registry does to the parameters of a height is a schedule in the
\* sense of ParameterSchedule: accepted upgrades, merged patches, executed
\* proposals and a tip that moves either way never change what is in force at
\* a height less than the activation delay above the tip.
Schedule ==
  INSTANCE ParameterSchedule WITH
    Genesis <- genesis_parameters,
    tip <- registry.current_height,
    schedule <- [h \in Heights |-> effective_parameters_at(registry, h)]
ScheduleSpec == Schedule!Spec

\* The field of the parameters that the upgrades at some places of a history put
\* in force at a height: set by the highest activation that is due, and among
\* the upgrades of that height by the last announced.
Announced(history, places, height, f) ==
  LET setters == {i \in places :
                    history[i].activation <= height /\ f \in DOMAIN history[i].patch}
      Later(i, j) == \/ history[i].activation > history[j].activation
                     \/ history[i].activation = history[j].activation /\ i >= j
  IN  IF setters = {} THEN 0
      ELSE LET last == CHOOSE i \in setters : \A j \in setters : Later(i, j)
           IN  history[last].patch[f]

\* The upgrades that the history API reports explain the parameters of every
\* height, whichever service submitted them and in whatever order they are
\* due; the ones it calls pending have no part in the active parameters.
HistoryExplainsParameters ==
  LET history == registry.upgrade_history
      live == DOMAIN history \ pending_upgrades(registry)
  IN  /\ \A h \in Heights, f \in Fields :
           effective_parameters_at(registry, h)[f] = Announced(history, DOMAIN history, h, f)
      /\ \A f \in Fields :
           active_parameters(registry)[f] = Announced(history, live, registry.current_height, f)

\* Every upgrade in the history is either that of one executed proposal or
\* was requested by one client that presented the configured token.
UpgradesAccountedFor ==
  /\ Len(registry.upgrade_history)
       = Cardinality({p \in DOMAIN proposals : proposals[p].status = "Executed"})
         + Len(responses)
  /\ \A i \in DOMAIN responses : responses[i] = "right" /\ configured

\* A tick decides a proposal once: one that passed and could not be submitted
\* (too late, a role revoked meanwhile, voters) stays "Passed" for ever, and no
\* vote is added to a decided one.
DecidedIsFinal ==
  [][\A p \in DOMAIN proposals :
       proposals[p].status # "Voting" => proposals'[p] = proposals[p]]_vars

\* "Tallies votes for proposals that have reached their end height and executes
\* those that passed" (the comment on tick, governance.rs, 128), where voting
\* under admin keys is supported "for uniformity" (161): a proposal of which
\* nobody disapproved is left "Passed" only if its proposer could not submit
\* the same upgrade without a vote either.
PassedIsExecuted ==
  [][\A p \in DOMAIN proposals :
       /\ proposals[p].status = "Voting" /\ proposals'[p].status = "Passed"
       /\ \A n \in DOMAIN proposals[p].votes : proposals[p].votes[n].approve
       => ~Accepts(registry, proposals[p].patch, proposals[p].activation,
                   proposals[p].proposer, {})]_vars

\* Under DAO governance an upgrade in time is accepted when enough distinct
\* members approve it: the test dao_requires_distinct_members submits one with
\* two members and no proposer, and unwraps the Ok (chain_params.rs, 441-443).
DaoApprovalSuffices ==
  governance.mode = "Dao" =>
    \A patch \in Patches, h \in Heights, proposer \in Addresses, voters \in VoterLists :
      /\ patch_has_changes(patch) /\ h >= min_activation_height(registry)
      /\ authorize_upgrade(proposer, voters)
      => Accepts(registry, patch, h, proposer, voters)
=============================================================================
