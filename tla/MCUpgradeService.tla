-------------------------- MODULE MCUpgradeService --------------------------
(* Constants for model-checking UpgradeService. *)
EXTENDS UpgradeService, TLC

Plain(n) == [name |-> n, spelling |-> "plain"]
Padded(n) == [name |-> n, spelling |-> "padded"]

MCConfigs ==
  {[mode |-> "AdminKeys", keys |-> {Padded("key")}, min_approvals |-> 0],
   [mode |-> "Dao", keys |-> {Plain("key"), Plain("op")}, min_approvals |-> 1]}


MCAddresses == {Plain("key"), Padded("op")}
\* The members and, as the test of a DAO upgrade has it, no proposer at all.
DaoAddresses == {Plain("key"), Plain("op"), Plain("")}
MCPatches == {("fee" :> 1), ("fee" :> 2) @@ ("size" :> 1)}
MCVoterLists == {{Plain("")}, {Plain("key"), Plain("op")}}
MCMetadata ==
  {[authorization |-> "wrong", x_api_key |-> "right", api_key |-> "right"],
   [authorization |-> "basic", x_api_key |-> "blank", api_key |-> "right"]}
=============================================================================
