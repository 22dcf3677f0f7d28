---------------------------- MODULE RefundOperation ----------------------------
(***************************************************************************)
(* A queued refund until the money is back: the jobs that submit it and    *)
(* poll it, the workers that run them, the provider's refunds and their    *)
(* events, and the operator who retries a refund that failed.              *)
(*                                                                         *)
(* Every try of an operation has a command, an idempotency key and a       *)
(* submit job of its own, so the number of the try names all three, and    *)
(* the provider's refund that its key created.                             *)
(***************************************************************************)
EXTENDS Naturals

CONSTANTS
  Operation,    \* ap_refund_operations
  MaterialLine, \* those of scope MATERIAL_LINE; the others refund a payment
  Worker,       \* runs of processChunk4Workers; all have one lease owner
  MaxRetries,   \* bound on the retries of one operation
  Overrun,      \* whether a handler may outlive the five minutes of its lease
  None

ASSUME RefundAssumption ==
  /\ MaterialLine \subseteq Operation
  /\ MaxRetries \in Nat
  /\ Overrun \in BOOLEAN
  /\ None \notin Nat

VARIABLES
  state,        \* ap_refund_operations.state
  refundId,     \* provider_refund_id, by the try that created that refund
  retryCount,   \* retry_count, the try of provider_command_id
  job,          \* the REFUND_SUBMIT jobs, one a try, and REFUND_RECONCILE
  provider,     \* the statuses a try's refund has had at the provider
  posted,       \* the statuses a try's events bring that were not applied
  worker,       \* the step a run is at, with what it read and was answered
  crossed       \* history: operations that took the result of another try

rowVars      == <<state, refundId, retryCount, crossed>>
providerVars == <<provider, posted>>
vars == <<rowVars, job, providerVars, worker>>

Try           == 0 .. MaxRetries
RefundState   == {"PENDING", "SUCCEEDED", "FAILED"}
JobState      == {"ABSENT", "READY", "LEASED", "COMPLETED", "DEAD_LETTER"}
Submit(n)     == [kind |-> "SUBMIT", try |-> n]
Reconcile     == [kind |-> "RECONCILE", try |-> 0]
Job           == [kind : {"SUBMIT"}, try : Try] \cup {Reconcile}
Idle          == [step |-> "IDLE"]
Calling       == [step : {"CALL"}, op : Operation, job : Job, try : Try,
                  known : BOOLEAN]
Recording     == [step : {"RECORD"}, op : Operation, job : Job, try : Try,
                  status : RefundState]
Ending        == [step : {"COMPLETE", "CATCH"}, op : Operation, job : Job]
Run           == {Idle} \cup Calling \cup Recording \cup Ending

-------------------------------------------------------------------------------
\* The provider's refunds and events.

Created(o, n)   == provider[o][n] # {}
Succeeded(o, n) == "SUCCEEDED" \in provider[o][n]
Failed(o, n)    == "FAILED" \in provider[o][n]

\* A refund that has paid the customer back or still may.
Live(o, n)      == Created(o, n) /\ ~Failed(o, n)

\* The status a refund has, and the status it had when it was created, which
\* the provider answers to every repetition of its key.
Current(o, n) == IF Failed(o, n) THEN "FAILED"
                 ELSE IF Succeeded(o, n) THEN "SUCCEEDED" ELSE "PENDING"
Saved(o, n)   == IF "PENDING" \in provider[o][n] THEN "PENDING"
                 ELSE Current(o, n)

\* The provider does not refund more than was paid.  Two refunds of a whole
\* payment exceed it; two of one line need not.
Payable(o) ==
  o \notin MaterialLine => \A n \in Try : ~Live(o, n)

\* A refund gets a status and an event says so.  One event stands for all that
\* carry that status: the others are stale after it, or late for the next try,
\* as it may be itself when a worker's answer was recorded before.
Reports(o, n, status) ==
  /\ provider' = [provider EXCEPT ![o][n] = @ \cup {status}]
  /\ posted' = [posted EXCEPT ![o][n] = @ \cup {status}]

\* The bank decides a pending refund.
ProviderSettles(o, n) ==
  /\ Created(o, n)
  /\ Current(o, n) = "PENDING"
  /\ \E status \in {"SUCCEEDED", "FAILED"} : Reports(o, n, status)
  /\ UNCHANGED <<rowVars, job, worker>>

-------------------------------------------------------------------------------
\* ap_record_search_refund_result, of the status of try n's refund.

\* The id of another refund is refused; and the success of a failed refund is
\* let through by the function, but not by ap_guard_refund_state_transition.
RecordRaises(o, n, status) ==
  \/ refundId[o] \notin {None, n}
  \/ state[o] = "FAILED" /\ status = "SUCCEEDED"

\* Fault: an operation that succeeded is not decided for good.
StaleIfFailed(o, status) == state[o] = "FAILED" /\ status # "SUCCEEDED"

\* A result is stale when the operation is decided.
Stale(o, status) ==
  state[o] = "SUCCEEDED" \/ (state[o] = "FAILED" /\ status # "SUCCEEDED")

\* Fault: a reconcile job that exists already is left as it is.
ArmReconcileOnce(o) ==
  IF job[o][Reconcile] = "ABSENT"
    THEN [job EXCEPT ![o][Reconcile] = "READY"]
    ELSE job

\* The reconcile job is due anew, whatever has become of it.
ArmReconcile(o) == [job EXCEPT ![o][Reconcile] = "READY"]

RecordResult(o, n, status) ==
  /\ ~RecordRaises(o, n, status)
  /\ IF Stale(o, status)
       THEN UNCHANGED <<state, refundId, crossed, job>>
       ELSE /\ state' = [state EXCEPT ![o] = status]
            /\ refundId' = [refundId EXCEPT ![o] = n]
            /\ crossed' = IF n = retryCount[o] THEN crossed
                                               ELSE crossed \cup {o}
            /\ job' = IF status = "PENDING" THEN ArmReconcile(o) ELSE job
  /\ UNCHANGED retryCount

\* recordCorrectedRefund, of an event at any time after it was posted, with
\* the status its refund had then.  The repetition of an event that was applied
\* is answered without effect.
Webhook(o, n, status) ==
  /\ status \in posted[o][n]
  /\ RecordResult(o, n, status)
  /\ posted' = [posted EXCEPT ![o][n] = @ \ {status}]
  /\ UNCHANGED <<provider, worker>>

\* Fault: only a refund that succeeded cannot be retried.
NotPaid(o) == state[o] # "SUCCEEDED"

\* ap_retry_search_refund, by an operator, takes a failed refund.
Retriable(o) == state[o] = "FAILED"

\* Fault: the id of the refund that failed is kept.
KeepsId(o) == refundId

ClearsId(o) == [refundId EXCEPT ![o] = None]

Retry(o) ==
  LET next == retryCount[o] + 1 IN
  /\ Retriable(o)
  /\ retryCount[o] < MaxRetries
  /\ state' = [state EXCEPT ![o] = "PENDING"]
  /\ refundId' = ClearsId(o)
  /\ retryCount' = [retryCount EXCEPT ![o] = next]
  /\ job' = [job EXCEPT ![o][Submit(next)] = "READY"]
  /\ UNCHANGED <<crossed, providerVars, worker>>

-------------------------------------------------------------------------------
\* The jobs.  A lease is looked up by an owner that all runs share.

Leased(o, j) == job[o][j] = "LEASED"

InHand(o, j) ==
  \E w \in Worker : worker[w] # Idle /\ worker[w].op = o /\ worker[w].job = j

\* Fault: the job of a run that was killed is not claimed again.
ReadyOnly(o, j) ==
  /\ job[o][j] = "READY"
  /\ Overrun \/ ~InHand(o, j)

\* A lease runs out, and a job armed anew comes due, five minutes after the
\* handler renewed the lease before its one call of the provider.
Claimable(o, j) ==
  /\ job[o][j] \in {"READY", "LEASED"}
  /\ Overrun \/ ~InHand(o, j)

-------------------------------------------------------------------------------
\* handleRefund.

At(w, step) == worker[w].step = step

Stops(w) == worker' = [worker EXCEPT ![w] = Idle]

Ends(w, step) ==
  worker' = [worker EXCEPT ![w] = [step |-> step, op |-> @.op, job |-> @.job]]

Answered(w, answer) ==
  worker' = [worker EXCEPT ![w] =
    [step |-> "RECORD", op |-> @.op, job |-> @.job, try |-> @.try,
     status |-> answer]]

\* Fault: the refund is looked up by its id, also before it has one.
RecordedTry(o) == refundId[o]

\* The try that the handler asks the provider about.
TryRead(o) == IF refundId[o] = None THEN retryCount[o] ELSE refundId[o]

\* The job is claimed and the operation read: a decided one needs no call.
Claim(w, o, j) ==
  /\ worker[w] = Idle
  /\ Claimable(o, j)
  /\ job' = [job EXCEPT ![o][j] = "LEASED"]
  /\ worker' = [worker EXCEPT ![w] =
       IF state[o] # "PENDING"
         THEN [step |-> "COMPLETE", op |-> o, job |-> j]
         ELSE [step |-> "CALL", op |-> o, job |-> j,
               known |-> refundId[o] # None,
               try |-> TryRead(o)]]
  /\ UNCHANGED <<rowVars, providerVars>>

\* renewExternal raises unless some run has the lease.
Calls(w) == At(w, "CALL") /\ Leased(worker[w].op, worker[w].job)

\* refunds.retrieve of the id that was read.
Retrieve(w) ==
  LET run == worker[w] IN
  /\ Calls(w)
  /\ run.known
  /\ Answered(w, Current(run.op, run.try))
  /\ UNCHANGED <<rowVars, job, providerVars>>

\* refunds.create with the key of the command that was read: a new refund, or
\* the answer that was given to the key before.
Create(w) ==
  LET run == worker[w] IN
  /\ Calls(w)
  /\ ~run.known
  /\ \/ /\ Created(run.op, run.try)
        /\ Answered(w, Saved(run.op, run.try))
        /\ UNCHANGED providerVars
     \/ /\ ~Created(run.op, run.try)
        /\ Payable(run.op)
        /\ \E status \in RefundState :
             /\ Reports(run.op, run.try, status)
             /\ Answered(w, status)
  /\ UNCHANGED <<rowVars, job>>

\* The reconcile job, armed anew by a pending result, is left as it is.
Record(w) ==
  LET run == worker[w] IN
  /\ At(w, "RECORD")
  /\ RecordResult(run.op, run.try, run.status)
  /\ IF run.status = "PENDING" /\ run.job = Reconcile
       THEN Stops(w)
       ELSE Ends(w, "COMPLETE")
  /\ UNCHANGED providerVars

\* completeExternal.
Complete(w) ==
  LET run == worker[w] IN
  /\ At(w, "COMPLETE")
  /\ Leased(run.op, run.job)
  /\ job' = [job EXCEPT ![run.op][run.job] = "COMPLETED"]
  /\ Stops(w)
  /\ UNCHANGED <<rowVars, providerVars>>

Handling(w) == worker[w] # Idle /\ ~At(w, "CATCH")

\* A call of the database or of the provider raises, or its answer is lost.
Raises(w) ==
  /\ Handling(w)
  /\ Ends(w, "CATCH")
  /\ UNCHANGED <<rowVars, job, providerVars>>

\* retryExternal, early and after twelve attempts or a day.
RetryJob(w, next) ==
  LET run == worker[w] IN
  /\ At(w, "CATCH")
  /\ Leased(run.op, run.job)
  /\ job' = [job EXCEPT ![run.op][run.job] = next]
  /\ Stops(w)
  /\ UNCHANGED <<rowVars, providerVars>>

RetryLater(w) == RetryJob(w, "READY")
DeadLetter(w) == RetryJob(w, "DEAD_LETTER")

\* retryExternal raises as well, and the run ends.
GivesUp(w) ==
  /\ At(w, "CATCH")
  /\ ~Leased(worker[w].op, worker[w].job)
  /\ Stops(w)
  /\ UNCHANGED <<rowVars, job, providerVars>>

\* The run is killed.
Dies(w) ==
  /\ Handling(w)
  /\ Stops(w)
  /\ UNCHANGED <<rowVars, job, providerVars>>

-------------------------------------------------------------------------------
Init ==
  /\ state = [o \in Operation |-> "PENDING"]
  /\ refundId = [o \in Operation |-> None]
  /\ retryCount = [o \in Operation |-> 0]
  /\ job = [o \in Operation |-> [j \in Job |->
              IF j = Submit(0) THEN "READY" ELSE "ABSENT"]]
  /\ provider = [o \in Operation |-> [n \in Try |-> {}]]
  /\ posted = [o \in Operation |-> [n \in Try |-> {}]]
  /\ worker = [w \in Worker |-> Idle]
  /\ crossed = {}

\* What becomes of a claimed job, unless the run is killed.
HandlerStep(w) ==
  \/ Retrieve(w)
  \/ Create(w)
  \/ Record(w)
  \/ Complete(w)
  \/ Raises(w)
  \/ RetryLater(w)
  \/ DeadLetter(w)
  \/ GivesUp(w)

WorkerStep(w) ==
  \/ \E o \in Operation, j \in Job : Claim(w, o, j)
  \/ HandlerStep(w)
  \/ Dies(w)

OperationStep(o) ==
  \/ Retry(o)
  \/ \E n \in Try : ProviderSettles(o, n)
  \/ \E n \in Try, status \in RefundState : Webhook(o, n, status)

Next ==
  \/ \E w \in Worker : WorkerStep(w)
  \/ \E o \in Operation : OperationStep(o)

Spec == Init /\ [][Next]_vars

\* The bank decides, jobs that are due or whose lease ran out are claimed, and
\* handlers go on.  Runs are not killed for ever, a job does not raise for ever
\* without becoming a dead letter, and an operator closes the alert of a failed
\* refund, which holds the workers back while it is open.
Fairness ==
  /\ \A o \in Operation, n \in Try : WF_vars(ProviderSettles(o, n))
  /\ \A o \in Operation, j \in Job : SF_vars(\E w \in Worker : Claim(w, o, j))
  /\ \A w \in Worker : WF_vars(HandlerStep(w)) /\ SF_vars(DeadLetter(w))
  /\ <>[][\A w \in Worker : ~Dies(w)]_vars

FairSpec == Spec /\ Fairness

-------------------------------------------------------------------------------
\* Types of the state variables.
TypeOK ==
  /\ state \in [Operation -> RefundState]
  /\ refundId \in [Operation -> Try \cup {None}]
  /\ retryCount \in [Operation -> Try]
  /\ job \in [Operation -> [Job -> JobState]]
  /\ provider \in [Operation -> [Try -> SUBSET RefundState]]
  /\ posted \in [Operation -> [Try -> SUBSET RefundState]]
  /\ worker \in [Worker -> Run]
  /\ crossed \subseteq Operation

\* A refund has one outcome, events say what happened, and no try is made
\* before its retry.
TryCoheres(o, n) ==
  /\ ~(Succeeded(o, n) /\ Failed(o, n))
  /\ posted[o][n] \subseteq provider[o][n]
  /\ n > retryCount[o] => ~Created(o, n)

\* A decided row names a refund that was so decided.  Unless the row took the
\* result of another try, every try before the last has failed.
RowCoheres(o) ==
  /\ refundId[o] # None => Created(o, refundId[o])
  /\ state[o] # "PENDING" =>
       refundId[o] # None /\ state[o] \in provider[o][refundId[o]]
  /\ o \notin crossed =>
       /\ refundId[o] \in {None, retryCount[o]}
       /\ \A n \in Try : n < retryCount[o] => Failed(o, n)

\* What a run has read exists, and its answer is a status its refund has had.
RunCoheres(w) ==
  LET run == worker[w] IN
  /\ At(w, "CALL") =>
       /\ run.try <= retryCount[run.op]
       /\ run.known => Created(run.op, run.try)
  /\ At(w, "RECORD") => run.status \in provider[run.op][run.try]

\* The rows, the provider and the workers agree.
RowsCohere ==
  /\ \A o \in Operation, n \in Try : TryCoheres(o, n)
  /\ \A o \in Operation : RowCoheres(o)
  /\ \A w \in Worker : RunCoheres(w)

\* The money goes back once, through every retry, lost answer, dead worker and
\* event out of order, as long as no result of an earlier try is recorded for a
\* later one.
PaysOnceUncrossed ==
  \A o \in Operation \ crossed :
    \A m, n \in Try : Live(o, m) /\ Live(o, n) => m = n

\* Somebody still works on a refund that is not decided: the submit job of its
\* last try or the reconcile job is open, or was given up with an alert.
Open(o, j) == job[o][j] \in {"READY", "LEASED", "DEAD_LETTER"}

PendingIsWorked ==
  \A o \in Operation :
    state[o] = "PENDING" => Open(o, Submit(retryCount[o])) \/ Open(o, Reconcile)

\* A refund is decided or given up with an alert.
RefundEnds ==
  \A o \in Operation :
    state[o] = "PENDING" ~>
      \/ state[o] # "PENDING"
      \/ \E j \in Job : job[o][j] = "DEAD_LETTER"

-------------------------------------------------------------------------------
\* What the requirements say of retries without exception.  The code breaks it;
\* RefundOperation_retried finds it broken.

\* No two refunds of one operation pay the customer.
MoneyBackOnce ==
  \A o \in Operation :
    \A m, n \in Try : Live(o, m) /\ Live(o, n) => m = n

-------------------------------------------------------------------------------
\* The operation implements the promise about what it reports.
Paid    == {o \in Operation : \E n \in Try : Succeeded(o, n)}
Refused == {o \in Operation : \E n \in Try : Failed(o, n)}

Promise == INSTANCE RefundPromise
  WITH reported <- state, paid <- Paid, refused <- Refused, retries <- retryCount

\* What is reported to operator and customer happened, and a refund that went
\* through stays so, whatever stale results still come.
KeepsPromise == Promise!Spec
================================================================================
