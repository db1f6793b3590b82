------------------------------- MODULE MCNode -------------------------------
(***************************************************************************)
(* The node and the services inside it, for TLC: the life of its servers,  *)
(* the rate limiter, the error middleware, the consensus engine and the    *)
(* signature verification pool.  They share no state, so that each is      *)
(* checked by itself: a behaviour is of one of them, and the others keep   *)
(* their initial states.                                                   *)
(***************************************************************************)
EXTENDS Node, RateLimiter, ErrorMiddleware, Consensus, CryptoPool

CONSTANTS p1, w1, w2

OneProposal == {p1}
TwoWorkers == {w1, w2}

VARIABLE part           \* which of them the behaviour is of

allVars == <<nodeVars, limiterVars, errorVars, vars, cryptoVars, part>>

AllInit ==
  /\ NodeInit /\ LimiterInit /\ ErrorInit /\ Init /\ CryptoInit
  /\ part \in {"node", "limiter", "errors", "consensus", "pool"}
  /\ part # "limiter" => backend = "InMemory"

OthersRest ==
  /\ UNCHANGED part
  /\ IF part = "node" THEN TRUE ELSE UNCHANGED nodeVars
  /\ IF part = "limiter" THEN TRUE ELSE UNCHANGED limiterVars
  /\ IF part = "errors" THEN TRUE ELSE UNCHANGED errorVars
  /\ IF part = "consensus" THEN TRUE ELSE UNCHANGED vars
  /\ IF part = "pool" THEN TRUE ELSE UNCHANGED cryptoVars

\* The pool never gets stuck; the others may stop, the node when it has exited and
\* the rest in a deadlock of the code or at the bounds of their instances.
Rest == part # "pool" /\ UNCHANGED allVars

AllNext ==
  \/ part = "node" /\ NodeNext /\ OthersRest
  \/ part = "limiter" /\ LimiterNext /\ OthersRest
  \/ part = "errors" /\ ErrorNext /\ OthersRest
  \/ part = "consensus" /\ Next /\ OthersRest
  \/ part = "pool" /\ CryptoNext /\ OthersRest
  \/ Rest

\* What is fair in one part is disabled in its initial state, where it rests while
\* the behaviour is of another, except for the node's own start.
AllFairness ==
  /\ WF_nodeVars(part = "node" /\ Main)
  /\ ConsensusFairness /\ CryptoFairness

AllSpec == AllInit /\ [][AllNext]_allVars /\ AllFairness
=============================================================================
