----------------------------- MODULE MCCustody ------------------------------
(***************************************************************************)
(* What is entrusted to the system, for TLC: the users' funds, which the   *)
(* vault contract holds, and the keys with which the node's signing        *)
(* service signs.  The two share no state, so that a behaviour is of one   *)
(* of them, and the other one keeps its initial state.                     *)
(***************************************************************************)
EXTENDS MCVault, Signing

CONSTANTS file, remote

TwoKeys == {file, remote}
KeySetups == {(file :> "local") @@ (remote :> k) : k \in {"kms", "kms_retry", "hsm"}}

VARIABLE part           \* which of the two the behaviour is of

custodyVars == <<vars, signing_vars, part>>

CustodyInit ==
  /\ Init /\ SigningInit
  /\ part \in {"vault", "signing"}
  /\ part = "vault" => kind[remote] = "kms"

CustodyNext ==
  \/ part = "vault" /\ Next /\ UNCHANGED <<signing_vars, part>>
  \/ part = "signing" /\ SigningNext /\ UNCHANGED <<vars, part>>

\* What is fair in the signing service is disabled in its initial state.
CustodySpec == CustodyInit /\ [][CustodyNext]_custodyVars /\ SigningFairness
=============================================================================
