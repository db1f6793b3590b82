-------------------------- MODULE ErrorMiddleware ---------------------------
(***************************************************************************)
(* The error statistics and circuit breakers of the error middleware       *)
(* (network-node/src/error_middleware.rs), as the HTTP server's            *)
(* error_handler_middleware and the operators of the node call them.  The  *)
(* statistics and the breakers are behind two locks, which handle_error    *)
(* takes one after the other.                                              *)
(***************************************************************************)
EXTENDS Integers, FiniteSets

CONSTANTS
  Components,           \* the components that report errors
  NumHandlers,          \* the tasks that call handle_error are 1..NumHandlers
  BreakerThreshold,     \* circuit_breaker_threshold
  BreakerTimeout,       \* circuit_breaker_timeout
  MaxRecent,            \* how many recent errors are kept (100)
  MaxErrors, MaxSuccesses, MaxClock  \* bounds: errors, successes, the last clock reading

VARIABLES
  error_stats,          \* errors by component, and how many recent ones are kept
  circuit_breakers,     \* the breaker of each component; "None" if it has no entry
  handling,             \* the component of each task's error, between the two locks
  clock,                \* chrono::Utc::now()
  errors, successes,
  credit                \* observer: successes of a component less three for each close

errorVars == <<error_stats, circuit_breakers, handling, clock, errors, successes, credit>>

Handlers == 1..NumHandlers
NewBreaker == [state |-> "Closed", failure_count |-> 0, last_failure_time |-> 0,
               success_count |-> 0]
NoBreaker == [NewBreaker EXCEPT !.state = "None"]
NoStats == [by_component |-> [c \in Components |-> 0], recent |-> 0]

ASSUME ErrorAssumption ==
  /\ BreakerThreshold \in Nat \ {0} /\ BreakerTimeout \in Nat /\ NumHandlers \in Nat
  /\ MaxRecent \in Nat /\ MaxErrors \in Nat /\ MaxSuccesses \in Nat /\ MaxClock \in Nat

ErrorInit ==
  /\ error_stats = NoStats
  /\ circuit_breakers = [c \in Components |-> NoBreaker]
  /\ handling = [t \in Handlers |-> "none"]
  /\ clock = 0 /\ errors = 0 /\ successes = 0
  /\ credit = [c \in Components |-> 0]

-----------------------------------------------------------------------------
(* handle_error *)

\* The statistics first; the oldest recent error goes when there are too many.
record_error_stats(t, c) ==
  /\ handling[t] = "none" /\ errors < MaxErrors
  /\ errors' = errors + 1
  /\ error_stats' =
       [by_component |-> [error_stats.by_component EXCEPT ![c] = @ + 1],
        recent |-> IF error_stats.recent + 1 > MaxRecent THEN MaxRecent
                                                         ELSE error_stats.recent + 1]
  /\ handling' = [handling EXCEPT ![t] = c]
  /\ UNCHANGED <<circuit_breakers, clock, successes, credit>>

Opened(b) == [b EXCEPT !.state = "Open", !.last_failure_time = clock]

\* What one more failure makes of a breaker.
Fail(breaker) ==
  LET b == [breaker EXCEPT !.failure_count = @ + 1]
  IN  CASE b.state = "Closed" -> IF b.failure_count >= BreakerThreshold THEN Opened(b) ELSE b
        [] b.state = "Open" -> IF clock - b.last_failure_time > BreakerTimeout
                               THEN [b EXCEPT !.state = "HalfOpen"] ELSE b
        [] b.state = "HalfOpen" -> Opened(b)

check_circuit_breaker(t) ==
  LET c == handling[t]
      entry == IF circuit_breakers[c].state = "None" THEN NewBreaker ELSE circuit_breakers[c]
  IN  /\ c # "none"
      /\ circuit_breakers' = [circuit_breakers EXCEPT ![c] = Fail(entry)]
      /\ handling' = [handling EXCEPT ![t] = "none"]
      /\ UNCHANGED <<error_stats, clock, errors, successes, credit>>

-----------------------------------------------------------------------------
(* Successes, and the operators *)

Closes(b) == b.state = "HalfOpen" /\ b.success_count + 1 >= 3

\* Mutant: closing keeps the counts.
CountsKept(b) ==
  IF Closes(b) THEN [b EXCEPT !.state = "Closed", !.success_count = @ + 1]
               ELSE [b EXCEPT !.success_count = @ + 1]

\* A success counts in every state; the third or a later one closes a half-open breaker.
Succeed(b) ==
  IF Closes(b) THEN [b EXCEPT !.state = "Closed", !.failure_count = 0, !.success_count = 0]
               ELSE [b EXCEPT !.success_count = @ + 1]

record_success(c) ==
  /\ successes < MaxSuccesses /\ circuit_breakers[c].state # "None"
  /\ successes' = successes + 1
  /\ circuit_breakers' = [circuit_breakers EXCEPT ![c] = Succeed(@)]
  /\ credit' = [credit EXCEPT ![c] = @ + (IF Closes(circuit_breakers[c]) THEN 1 - 3 ELSE 1)]
  /\ UNCHANGED <<error_stats, handling, clock, errors>>

reset_stats ==
  /\ error_stats' = NoStats
  /\ UNCHANGED <<circuit_breakers, handling, clock, errors, successes, credit>>

reset_circuit_breaker(c) ==
  /\ circuit_breakers' = [circuit_breakers EXCEPT ![c] = NewBreaker]
  /\ UNCHANGED <<error_stats, handling, clock, errors, successes, credit>>

ClockTick ==
  /\ clock < MaxClock /\ clock' = clock + 1
  /\ UNCHANGED <<error_stats, circuit_breakers, handling, errors, successes, credit>>

ErrorNext ==
  \/ \E t \in Handlers : check_circuit_breaker(t) \/ \E c \in Components : record_error_stats(t, c)
  \/ \E c \in Components : record_success(c) \/ reset_circuit_breaker(c)
  \/ reset_stats \/ ClockTick

ErrorSpec == ErrorInit /\ [][ErrorNext]_errorVars
-----------------------------------------------------------------------------
\* A closed breaker is below its threshold, so that the error that reaches it opens
\* it; and three successes were recorded for every time a breaker closed, although a
\* success that counts for a half-open breaker may be from before it opened.
BreakerAccounts ==
  \A c \in Components :
    /\ circuit_breakers[c].state = "Closed" => circuit_breakers[c].failure_count < BreakerThreshold
    /\ circuit_breakers[c].success_count <= credit[c]
=============================================================================
