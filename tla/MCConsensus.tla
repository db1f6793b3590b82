---------------------------- MODULE MCConsensus -----------------------------
(***************************************************************************)
(* Instances of Consensus for TLC: two tasks, so that every pair of        *)
(* methods interleaves, two voters of whom one is the node itself, and     *)
(* proposals that expire while a vote is under way.                        *)
(***************************************************************************)
EXTENDS Consensus

CONSTANT p1
OneProposal == {p1}
=============================================================================
