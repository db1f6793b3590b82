----------------------------- MODULE MCClients ------------------------------
(***************************************************************************)
(* The clients of the node's two outside services, for TLC.  They share no *)
(* state and never call each other, so that a behaviour exercises one of   *)
(* them, and the other one keeps its initial state.                        *)
(***************************************************************************)
EXTENDS HorizonClient, EventIndexer

VARIABLE part           \* which client the behaviour is of

clientVars == <<horizonVars, indexerVars, part>>

ClientsInit == HorizonInit /\ IndexerInit /\ part \in {"horizon", "indexer"}

ClientsNext ==
  \/ part = "horizon" /\ HorizonNext /\ UNCHANGED <<indexerVars, part>>
  \/ part = "indexer" /\ IndexerNext /\ UNCHANGED <<horizonVars, part>>

ClientsSpec ==
  /\ ClientsInit /\ [][ClientsNext]_clientVars
  /\ \/ part = "horizon" /\ HorizonFairness
     \/ part = "indexer" /\ IndexerFairness
=============================================================================
