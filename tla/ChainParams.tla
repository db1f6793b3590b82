---------------------------- MODULE ChainParams -----------------------------
(***************************************************************************)
(* The ChainParameterRegistry (network-node/src/chain_params.rs): the      *)
(* parameters in force at each block height, the upgrades scheduled for    *)
(* later heights, and the roles that may schedule them.                    *)
(*                                                                         *)
(* The registry is one record, and what a method does to it an operator    *)
(* from registry to registry, so that the governance service can apply     *)
(* several upgrades in one step.  A patch is a function whose domain is    *)
(* the set of fields it sets.  An address is a name and the way a client   *)
(* spells it; the plain spelling of the empty name is the empty string.    *)
(***************************************************************************)
EXTENDS Integers, Sequences, FiniteSets

CONSTANTS
  Fields,               \* max_block_body_bytes, min_base_fee, ...
  Values,               \* the values of a field
  Names,                \* names of accounts, Nobody among them
  Nobody,               \* the name of the empty address
  Configs,              \* the governance sections a genesis file may have
  MinDelay,             \* min_activation_delay_blocks
  MaxHeight             \* u64::MAX, scaled down

VARIABLES governance, registry

Heights == 0..MaxHeight
Patch == UNION {[s -> Values] : s \in SUBSET Fields}
NoPatch == [f \in {} |-> 0]
Address == [name : Names, spelling : {"plain", "padded"}]
Roles == {"None", "Operator", "Admin"}
Upgrade == [activation : Heights, patch : Patch]
Registry == [current_height : Heights, activations : [Heights -> Patch],
             upgrade_history : Seq(Upgrade), roles : [Names -> Roles]]

\* A configuration is [mode |-> "AdminKeys", keys] or
\* [mode |-> "Dao", keys (the members), min_approvals].
ASSUME ChainParamsAssumption ==
  /\ MaxHeight \in Nat /\ MinDelay \in Nat
  /\ Nobody \in Names /\ 0 \in Values
  /\ \A c \in Configs : c.mode \in {"AdminKeys", "Dao"} /\ c.keys \subseteq Address
                        /\ c.min_approvals \in Nat

normalize_id(a) == a.name

IsEmpty(a) == a = [name |-> Nobody, spelling |-> "plain"]

Keys == {normalize_id(k) : k \in governance.keys}

patch_has_changes(p) == DOMAIN p # {}

\* The fields that are set replace those of params.
Override(fields, params) ==
  [f \in DOMAIN fields \cup DOMAIN params |->
     IF f \in DOMAIN fields THEN fields[f] ELSE params[f]]

apply_patch(params, patch) == Override(patch, params)

\* Mutant: the patch that was scheduled first keeps its fields.
FirstPatchWins(into, add) == Override(into, add)

merge_patches(into, add) == Override(add, into)

genesis_parameters == [f \in Fields |-> 0]

from_genesis_document(config) ==
  [current_height |-> 0,
   activations |-> [h \in Heights |-> NoPatch],
   upgrade_history |-> <<>>,
   roles |-> [n \in Names |-> IF /\ config.mode = "AdminKeys"
                                 /\ \E k \in config.keys : normalize_id(k) = n
                              THEN "Admin" ELSE "None"]]

\* The patches activated up to a height, applied from the lowest height up.
ApplyUpTo(activations, height) ==
  LET params[h \in 0..height] ==
        apply_patch(IF h = 0 THEN genesis_parameters ELSE params[h - 1],
                    activations[h])
  IN  params[height]

effective_parameters_at(reg, height) ==
  ApplyUpTo([h \in 0..height |-> reg.activations[h]], height)

active_parameters(reg) == effective_parameters_at(reg, reg.current_height)

\* The entries of the history, by their place in it, that are due later.
pending_upgrades(reg) ==
  {i \in DOMAIN reg.upgrade_history : reg.upgrade_history[i].activation > reg.current_height}

\* Any height is taken, a lower one than the tip included.
set_chain_tip_height(reg, height) == [reg EXCEPT !.current_height = height]

check_role(reg, address, required) ==
  LET role == reg.roles[normalize_id(address)]
  IN  role = "Admin" \/ (role = "Operator" /\ required = "Operator")

grant_role(reg, target, role) == [reg EXCEPT !.roles[normalize_id(target)] = role]

HasRole(reg, target) == reg.roles[normalize_id(target)] # "None"

revoke_role(reg, target) == [reg EXCEPT !.roles[normalize_id(target)] = "None"]

authorize_upgrade(proposer, voters) ==
  IF governance.mode = "AdminKeys"
  THEN /\ \A v \in voters : IsEmpty(v)
       /\ normalize_id(proposer) # Nobody
       /\ normalize_id(proposer) \in Keys
  ELSE LET named == {normalize_id(v) : v \in voters} \ {Nobody}
       IN  /\ governance.min_approvals > 0
           /\ named \subseteq Keys
           /\ Cardinality(named) >= governance.min_approvals

\* Mutant: the delay is not added to the tip.
AnyHeightFromTip(reg) == reg.current_height

\* The sum saturates at u64::MAX.
min_activation_height(reg) ==
  IF reg.current_height + MinDelay > MaxHeight THEN MaxHeight
  ELSE reg.current_height + MinDelay

\* Does submit_parameter_upgrade return Ok?
Accepts(reg, patch, activation, proposer, voters) ==
  /\ patch_has_changes(patch)
  /\ check_role(reg, proposer, "Operator")
  /\ authorize_upgrade(proposer, voters)
  /\ activation >= min_activation_height(reg)

\* What it does then.
submit_parameter_upgrade(reg, patch, activation) ==
  [reg EXCEPT
     !.activations[activation] = merge_patches(@, patch),
     !.upgrade_history = Append(@, [activation |-> activation, patch |-> patch])]
=============================================================================
