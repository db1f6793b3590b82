----------------------------- MODULE CryptoPool -----------------------------
(***************************************************************************)
(* The signature verification pool and service (network-node/src/          *)
(* crypto.rs).  Worker tasks and one batch processor receive from the same *)
(* queue, each request going to exactly one of them (a clone of the        *)
(* receiver is taken to be a second handle on the queue).  A worker only   *)
(* clears the pending entry; the batch processor reports a batch result.   *)
(*                                                                         *)
(* verify_batch borrows the service mutably, so there is one call at a     *)
(* time; its caller may drop it at an await.  A permit per worker exists,  *)
(* so acquiring one never waits; verifying has no await inside; and the    *)
(* receivers live as long as the pool, so sending never fails.             *)
(***************************************************************************)
EXTENDS Integers, Sequences, FiniteSets, Functions

CONSTANTS
  NumSignatures,        \* bound: requests are 1..NumSignatures, in the order made
  Workers,              \* the workers (worker_count of them)
  BatchSize,            \* batch_size
  ValidRequests         \* the requests whose signature verifies

VARIABLES
  call,                 \* the verify_batch call: where it is, what it has to send
  next,                 \* the next fresh request
  pending,              \* pending_requests
  queue,                \* the work channel
  held,                 \* the request each worker has received, 0 for none
  worked,               \* the requests that workers have verified
  batch,                \* the batch being collected
  results,              \* the result channel
  taken,                \* results received, by a caller or the result processor
  processor             \* has start_result_processor been called?

cryptoVars == <<call, next, pending, queue, held, worked, batch, results, taken, processor>>

Signatures == 1..NumSignatures
BatchResult == [ids : Seq(Signatures), valid : Nat, failed : SUBSET Nat]
States == {"idle", "insert", "send", "wait"}

ASSUME CryptoAssumption ==
  /\ NumSignatures \in Nat /\ BatchSize \in Nat \ {0} /\ ValidRequests \subseteq Signatures

CryptoInit ==
  /\ call = [at |-> "idle", last |-> 0]
  /\ next = 1
  /\ pending = {} /\ queue = <<>>
  /\ held = [w \in Workers |-> 0]
  /\ worked = {} /\ batch = <<>> /\ results = <<>> /\ taken = <<>>
  /\ processor = FALSE

-----------------------------------------------------------------------------
(* verify_batch *)

\* Where a call goes when its requests up to r are sent.
After(r, last) == IF r < last THEN "insert" ELSE "wait"

\* A call with n requests; with none it waits for a result all the same.
verify_batch(n) ==
  /\ call.at = "idle"
  /\ next + n - 1 <= NumSignatures
  /\ call' = [at |-> After(next - 1, next + n - 1), last |-> next + n - 1]
  /\ UNCHANGED <<next, pending, queue, held, worked, batch, results, taken, processor>>

\* Mutant: a request is stored after it was sent.
SendFirst ==
  \/ /\ call.at = "insert"
     /\ queue' = Append(queue, next)
     /\ call' = [call EXCEPT !.at = "send"]
     /\ UNCHANGED <<next, pending, held, worked, batch, results, taken, processor>>
  \/ /\ call.at = "send"
     /\ pending' = pending \cup {next}
     /\ next' = next + 1
     /\ call' = [call EXCEPT !.at = After(next, call.last)]
     /\ UNCHANGED <<queue, held, worked, batch, results, taken, processor>>

\* Every request is stored as pending, and then sent to the pool.
verify_signature_batch ==
  \/ /\ call.at = "insert"
     /\ pending' = pending \cup {next}
     /\ call' = [call EXCEPT !.at = "send"]
     /\ UNCHANGED <<next, queue, held, worked, batch, results, taken, processor>>
  \/ /\ call.at = "send"
     /\ queue' = Append(queue, next)
     /\ next' = next + 1
     /\ call' = [call EXCEPT !.at = After(next, call.last)]
     /\ UNCHANGED <<pending, held, worked, batch, results, taken, processor>>

\* The call returns the first result in the channel, whoever's it is.
ReceiveResult ==
  /\ call.at = "wait" /\ results # <<>>
  /\ taken' = Append(taken, Head(results))
  /\ results' = Tail(results)
  /\ call' = [call EXCEPT !.at = "idle"]
  /\ UNCHANGED <<next, pending, queue, held, worked, batch, processor>>

\* The caller gives up at an await.  A request it has not inserted is not made.
DropVerifyBatch ==
  /\ call.at \in {"insert", "wait"}
  /\ call' = [at |-> "idle", last |-> next - 1]
  /\ UNCHANGED <<next, pending, queue, held, worked, batch, results, taken, processor>>

-----------------------------------------------------------------------------
(* The tasks of the pool *)

WorkerReceive(w) ==
  /\ held[w] = 0 /\ queue # <<>>
  /\ held' = [held EXCEPT ![w] = Head(queue)]
  /\ queue' = Tail(queue)
  /\ UNCHANGED <<call, next, pending, worked, batch, results, taken, processor>>

\* The verdict is logged and the pending entry removed; nothing is sent.
WorkerVerify(w) ==
  /\ held[w] # 0
  /\ worked' = worked \cup {held[w]}
  /\ pending' = pending \ {held[w]}
  /\ held' = [held EXCEPT ![w] = 0]
  /\ UNCHANGED <<call, next, queue, batch, results, taken, processor>>

verify_signature(r) == r \in ValidRequests

\* Mutant: the result of a batch is not sent.
NoResult(b) == results' = results

\* How many requests of the batch verify, and which do not, by their place in it.
Verdict(b) ==
  [ids |-> b, valid |-> Cardinality({i \in DOMAIN b : verify_signature(b[i])}),
   failed |-> {i \in DOMAIN b : ~verify_signature(b[i])}]

process_batch(b) == results' = Append(results, Verdict(b))

BatchReceive ==
  /\ queue # <<>>
  /\ LET b == Append(batch, Head(queue))
     IN  IF Len(b) >= BatchSize THEN process_batch(b) /\ batch' = <<>>
                                ELSE batch' = b /\ UNCHANGED results
  /\ queue' = Tail(queue)
  /\ UNCHANGED <<call, next, pending, held, worked, taken, processor>>

\* Mutant: the batch is kept after it was processed.
KeepBatch ==
  /\ batch # <<>> /\ Len(results) < NumSignatures
  /\ process_batch(batch)
  /\ UNCHANGED <<call, next, pending, queue, held, worked, batch, taken, processor>>

\* Mutant: only a full batch is processed when the time is up.
FullBatchOnly ==
  /\ Len(batch) >= BatchSize
  /\ process_batch(batch) /\ batch' = <<>>
  /\ UNCHANGED <<call, next, pending, queue, held, worked, taken, processor>>

\* The sleep starts after the last batch was processed, so that its whole length
\* has elapsed when it ends; it races the queue in `select!`.
BatchTimeout ==
  /\ batch # <<>>
  /\ process_batch(batch) /\ batch' = <<>>
  /\ UNCHANGED <<call, next, pending, queue, held, worked, taken, processor>>

start_result_processor ==
  /\ call.at = "idle" /\ ~processor
  /\ processor' = TRUE
  /\ UNCHANGED <<call, next, pending, queue, held, worked, batch, results, taken>>

\* The background task logs a result, and takes it from a caller that waits.
ProcessResult ==
  /\ processor /\ results # <<>>
  /\ taken' = Append(taken, Head(results))
  /\ results' = Tail(results)
  /\ UNCHANGED <<call, next, pending, queue, held, worked, batch, processor>>

Caller ==
  \/ \E n \in 0..NumSignatures : verify_batch(n)
  \/ verify_signature_batch \/ ReceiveResult \/ DropVerifyBatch
  \/ start_result_processor

Pool ==
  \/ \E w \in Workers : WorkerReceive(w) \/ WorkerVerify(w)
  \/ BatchReceive \/ BatchTimeout \/ ProcessResult

CryptoNext == Caller \/ Pool

\* Tokio runs every ready task.  Which task gets a request is the runtime's
\* choice, but some task that waits for one gets it; an expired sleep ends.
CryptoFairness ==
  /\ WF_cryptoVars(BatchReceive) /\ WF_cryptoVars(BatchTimeout) /\ WF_cryptoVars(ProcessResult)
  /\ \A w \in Workers : WF_cryptoVars(WorkerVerify(w))
  /\ WF_cryptoVars(verify_signature_batch) /\ WF_cryptoVars(ReceiveResult)

CryptoSpec == CryptoInit /\ [][CryptoNext]_cryptoVars /\ CryptoFairness
-----------------------------------------------------------------------------
\* The requests in some batch results, and whether each is in one of them only once.
Reported(rs) == UNION {Range(rs[i].ids) : i \in DOMAIN rs}
ReportedOnce(rs) ==
  \A i, j \in DOMAIN rs : \A k \in DOMAIN rs[i].ids, l \in DOMAIN rs[j].ids :
    rs[i].ids[k] = rs[j].ids[l] => i = j /\ k = l
Holding == {w \in Workers : held[w] # 0}
Sent == 1..(next - 1)

CryptoTypeOK ==
  /\ call \in [at : States, last : 0..NumSignatures] /\ next \in 1..(NumSignatures + 1)
  /\ pending \subseteq Signatures /\ worked \subseteq Signatures
  /\ queue \in Seq(Signatures) /\ batch \in Seq(Signatures)
  /\ held \in [Workers -> Signatures \cup {0}]
  /\ results \in Seq(BatchResult) /\ taken \in Seq(BatchResult) /\ processor \in BOOLEAN

\* Every request that was sent is in exactly one place: queued, with a worker,
\* done by a worker, in the open batch, or in one batch result; and the counts of
\* a result add up.  Workers and batch processor race for the queue, a full batch
\* races its time-out, and two receivers race for the results.
VerifiedOnce ==
  LET places == <<Reported(taken), Reported(results), Range(batch), Range(queue),
                  {held[w] : w \in Holding}, worked>>
  IN  /\ UNION {places[i] : i \in 1..6} = Sent
      /\ \A i, j \in 1..6 : i # j => places[i] \cap places[j] = {}
      /\ ReportedOnce(taken) /\ ReportedOnce(results)
      /\ IsInjective(batch) /\ IsInjective(queue)
      /\ \A w, v \in Holding : held[w] = held[v] => w = v
      /\ \A rs \in {results, taken} : \A i \in DOMAIN rs :
           rs[i].valid + Cardinality(rs[i].failed) = Len(rs[i].ids)

\* get_stats counts exactly the requests no worker has finished: storing a
\* request before it is sent keeps a worker from clearing it too early, and a
\* request that went to the batch processor stays pending for ever.
PendingIsAllButWorked ==
  pending = (IF call.at = "send" THEN 1..next ELSE Sent) \ worked

\* A request that is in the queue is verified in the end, even if it is the last
\* one and the batch it joins never fills up.
QueuedIsVerified ==
  \A r \in Signatures :
    r \in Range(queue) ~> r \in worked \cup Reported(results) \cup Reported(taken)

\* verify_batch returns once the batch processor has a request while it waits and
\* no result processor competes for the result (if every request of the call goes
\* to the workers, nothing ever answers it).
BatchAnswersCaller ==
  (call.at = "wait" /\ batch # <<>> /\ ~processor) ~> (call.at = "idle")
=============================================================================
