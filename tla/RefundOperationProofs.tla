------------------------- MODULE RefundOperationProofs -------------------------
(***************************************************************************)
(* Proofs about RefundOperation, for any operations, workers and bound on  *)
(* the retries.  The types and what ties rows, provider and workers        *)
(* together make an inductive invariant; that the money goes back once     *)
(* follows from it, and so do the steps of the promise.  That a pending    *)
(* refund is worked on needs handlers that do not outlive their leases.    *)
(***************************************************************************)
EXTENDS RefundOperation, TLAPS

USE RefundAssumption

-------------------------------------------------------------------------------
\* A run at a step has the fields of that step.
LEMMA RunFields ==
  ASSUME TypeOK, NEW w \in Worker
  PROVE  /\ At(w, "CALL") => worker[w] \in Calling
         /\ At(w, "RECORD") => worker[w] \in Recording
         /\ At(w, "COMPLETE") => worker[w] \in Ending
         /\ At(w, "CATCH") => worker[w] \in Ending
         /\ worker[w] # Idle =>
              /\ worker[w].op \in Operation
              /\ worker[w].job \in Job
              /\ worker[w].step # "IDLE"
BY DEF TypeOK, At, Run, Idle, Calling, Recording, Ending

\* Ends and Stops keep the types of the workers.
LEMMA StepTypes ==
  ASSUME TypeOK, NEW w \in Worker
  PROVE  /\ Stops(w) => worker' \in [Worker -> Run]
         /\ \A step \in {"COMPLETE", "CATCH"} :
              worker[w] # Idle /\ Ends(w, step) => worker' \in [Worker -> Run]
         /\ \A status \in RefundState :
              At(w, "CALL") /\ Answered(w, status) => worker' \in [Worker -> Run]
<1>1. Stops(w) => worker' \in [Worker -> Run]
  BY DEF TypeOK, Stops, Run
<1>2. ASSUME NEW step \in {"COMPLETE", "CATCH"}, worker[w] # Idle, Ends(w, step)
      PROVE  worker' \in [Worker -> Run]
  <2>1. worker[w].op \in Operation /\ worker[w].job \in Job
    BY <1>2, RunFields
  <2>2. [step |-> step, op |-> worker[w].op, job |-> worker[w].job] \in Ending
    BY <2>1 DEF Ending
  <2> QED  BY <1>2, <2>2 DEF TypeOK, Ends, Run
<1>3. ASSUME NEW status \in RefundState, At(w, "CALL"), Answered(w, status)
      PROVE  worker' \in [Worker -> Run]
  <2>1. worker[w] \in Calling
    BY <1>3, RunFields
  <2>2. [step |-> "RECORD", op |-> worker[w].op, job |-> worker[w].job,
         try |-> worker[w].try, status |-> status] \in Recording
    BY <2>1 DEF Calling, Recording
  <2> QED  BY <1>3, <2>2 DEF TypeOK, Answered, Run
<1> QED  BY <1>1, <1>2, <1>3

LEMMA SubmitIsJob == \A n \in Try : Submit(n) \in Job
BY DEF Submit, Job

\* A result that is recorded keeps the types of the rows.
LEMMA RecordTypes ==
  ASSUME TypeOK, NEW o \in Operation, NEW n \in Try, NEW status \in RefundState,
         RecordResult(o, n, status)
  PROVE  /\ state' \in [Operation -> RefundState]
         /\ refundId' \in [Operation -> Try \cup {None}]
         /\ job' \in [Operation -> [Job -> JobState]]
         /\ crossed' \subseteq Operation
<1>1. CASE Stale(o, status)
  BY <1>1 DEF TypeOK, RecordResult
<1>2. CASE ~Stale(o, status)
  <2>1. Reconcile \in Job /\ "READY" \in JobState
    BY DEF Job, JobState
  <2>2. ArmReconcile(o) \in [Operation -> [Job -> JobState]]
    BY <2>1 DEF TypeOK, ArmReconcile
  <2> QED  BY <1>2, <2>2 DEF TypeOK, RecordResult
<1> QED  BY <1>1, <1>2

\* So does a status the provider reports.
LEMMA ReportsTypes ==
  ASSUME TypeOK, NEW o \in Operation, NEW n \in Try, NEW status \in RefundState,
         Reports(o, n, status)
  PROVE  /\ provider' \in [Operation -> [Try -> SUBSET RefundState]]
         /\ posted' \in [Operation -> [Try -> SUBSET RefundState]]
BY DEF TypeOK, Reports

LEMMA TypeInit == Init => TypeOK
<1> SUFFICES ASSUME Init PROVE TypeOK
  OBVIOUS
<1>1. job \in [Operation -> [Job -> JobState]]
  BY DEF Init, JobState
<1>2. 0 \in Try
  BY DEF Try
<1> QED  BY <1>1, <1>2 DEF Init, TypeOK, RefundState, Run

LEMMA TypeNext == TypeOK /\ [Next]_vars => TypeOK'
<1> SUFFICES ASSUME TypeOK, [Next]_vars PROVE TypeOK'
  OBVIOUS
<1>1. ASSUME NEW w \in Worker, NEW o \in Operation, NEW j \in Job, Claim(w, o, j)
      PROVE  TypeOK'
  <2>1. TryRead(o) \in Try
    BY DEF TypeOK, TryRead
  <2>2. \A known \in BOOLEAN :
          [step |-> "CALL", op |-> o, job |-> j, known |-> known,
           try |-> TryRead(o)] \in Calling
    BY <2>1 DEF Calling
  <2>3. [step |-> "COMPLETE", op |-> o, job |-> j] \in Ending
    BY DEF Ending
  <2>4. worker' \in [Worker -> Run]
    BY <1>1, <2>2, <2>3 DEF TypeOK, Claim, Run
  <2>5. job' \in [Operation -> [Job -> JobState]]
    BY <1>1 DEF TypeOK, Claim, JobState
  <2> QED  BY <1>1, <2>4, <2>5 DEF TypeOK, Claim, rowVars, providerVars
<1>2. ASSUME NEW w \in Worker, Retrieve(w) PROVE TypeOK'
  <2>1. Current(worker[w].op, worker[w].try) \in RefundState
    BY DEF Current, RefundState
  <2>2. worker' \in [Worker -> Run]
    BY <1>2, <2>1, StepTypes DEF Retrieve, Calls
  <2> QED  BY <1>2, <2>2 DEF TypeOK, Retrieve, rowVars, providerVars
<1>3. ASSUME NEW w \in Worker, Create(w) PROVE TypeOK'
  <2>1. worker[w] \in Calling
    BY <1>3, RunFields DEF Create, Calls
  <2>2. Saved(worker[w].op, worker[w].try) \in RefundState
    BY DEF Saved, Current, RefundState
  <2>3. worker' \in [Worker -> Run]
    BY <1>3, <2>2, StepTypes DEF Create, Calls
  <2>4. /\ provider' \in [Operation -> [Try -> SUBSET RefundState]]
        /\ posted' \in [Operation -> [Try -> SUBSET RefundState]]
    <3>1. worker[w].op \in Operation /\ worker[w].try \in Try
      BY <2>1 DEF Calling
    <3>2. \/ UNCHANGED providerVars
          \/ \E status \in RefundState :
               Reports(worker[w].op, worker[w].try, status)
      BY <1>3 DEF Create
    <3> QED  BY <3>1, <3>2, ReportsTypes DEF TypeOK, providerVars
  <2> QED  BY <1>3, <2>3, <2>4 DEF TypeOK, Create, rowVars
<1>4. ASSUME NEW w \in Worker, Record(w) PROVE TypeOK'
  <2>1. worker[w] \in Recording /\ worker[w] # Idle
    BY <1>4, RunFields DEF Record, At, Idle
  <2>2. worker' \in [Worker -> Run]
    BY <1>4, <2>1, StepTypes DEF Record
  <2>3. /\ worker[w].op \in Operation
        /\ worker[w].try \in Try
        /\ worker[w].status \in RefundState
        /\ RecordResult(worker[w].op, worker[w].try, worker[w].status)
    BY <1>4, <2>1 DEF Record, Recording
  <2>4. /\ state' \in [Operation -> RefundState]
        /\ refundId' \in [Operation -> Try \cup {None}]
        /\ job' \in [Operation -> [Job -> JobState]]
        /\ crossed' \subseteq Operation
    BY <2>3, RecordTypes
  <2> QED  BY <1>4, <2>2, <2>3, <2>4
           DEF TypeOK, Record, RecordResult, providerVars
<1>5. ASSUME NEW w \in Worker, Complete(w) PROVE TypeOK'
  <2>1. worker[w] \in Ending
    BY <1>5, RunFields DEF Complete
  <2>2. worker' \in [Worker -> Run]
    BY <1>5, StepTypes DEF Complete
  <2>3. job' \in [Operation -> [Job -> JobState]]
    BY <1>5, <2>1 DEF TypeOK, Complete, Ending, JobState
  <2> QED  BY <1>5, <2>2, <2>3 DEF TypeOK, Complete, rowVars, providerVars
<1>6. ASSUME NEW w \in Worker, Raises(w) PROVE TypeOK'
  <2>1. worker' \in [Worker -> Run]
    BY <1>6, StepTypes DEF Raises, Handling
  <2> QED  BY <1>6, <2>1 DEF TypeOK, Raises, rowVars, providerVars
<1>7. ASSUME NEW w \in Worker, NEW next \in {"READY", "DEAD_LETTER"},
             RetryJob(w, next)
      PROVE  TypeOK'
  <2>1. worker[w] \in Ending
    BY <1>7, RunFields DEF RetryJob
  <2>2. worker' \in [Worker -> Run]
    BY <1>7, StepTypes DEF RetryJob
  <2>3. job' \in [Operation -> [Job -> JobState]]
    BY <1>7, <2>1 DEF TypeOK, RetryJob, Ending, JobState
  <2> QED  BY <1>7, <2>2, <2>3 DEF TypeOK, RetryJob, rowVars, providerVars
<1>8. ASSUME NEW w \in Worker, GivesUp(w) \/ Dies(w) PROVE TypeOK'
  <2>1. worker' \in [Worker -> Run]
    BY <1>8, StepTypes DEF GivesUp, Dies
  <2> QED  BY <1>8, <2>1 DEF TypeOK, GivesUp, Dies, rowVars, providerVars
<1>9. ASSUME NEW o \in Operation, Retry(o) PROVE TypeOK'
  <2>1. retryCount[o] + 1 \in Try
    BY <1>9 DEF TypeOK, Retry, Try
  <2>2. job' \in [Operation -> [Job -> JobState]]
    BY <1>9, <2>1, SubmitIsJob DEF TypeOK, Retry, JobState
  <2> QED  BY <1>9, <2>1, <2>2
           DEF TypeOK, Retry, ClearsId, RefundState, providerVars
<1>10. ASSUME NEW o \in Operation, NEW n \in Try, ProviderSettles(o, n)
       PROVE  TypeOK'
  <2>1. /\ provider' \in [Operation -> [Try -> SUBSET RefundState]]
        /\ posted' \in [Operation -> [Try -> SUBSET RefundState]]
    BY <1>10, ReportsTypes DEF ProviderSettles, RefundState
  <2> QED  BY <1>10, <2>1 DEF TypeOK, ProviderSettles, rowVars
<1>11. ASSUME NEW o \in Operation, NEW n \in Try, NEW status \in RefundState,
              Webhook(o, n, status)
       PROVE  TypeOK'
  <2>1. RecordResult(o, n, status)
    BY <1>11 DEF Webhook
  <2>2. /\ state' \in [Operation -> RefundState]
        /\ refundId' \in [Operation -> Try \cup {None}]
        /\ job' \in [Operation -> [Job -> JobState]]
        /\ crossed' \subseteq Operation
    BY <2>1, RecordTypes
  <2>3. posted' \in [Operation -> [Try -> SUBSET RefundState]]
    BY <1>11 DEF TypeOK, Webhook
  <2> QED  BY <1>11, <2>1, <2>2, <2>3 DEF TypeOK, Webhook, RecordResult
<1>12. CASE UNCHANGED vars
  BY <1>12 DEF TypeOK, vars, rowVars, providerVars
<1> QED
  BY <1>1, <1>2, <1>3, <1>4, <1>5, <1>6, <1>7, <1>8, <1>9, <1>10, <1>11, <1>12
  DEF Next, WorkerStep, HandlerStep, OperationStep, RetryLater, DeadLetter

\* Every state of the specification has the types of TypeOK.
THEOREM TypeCorrect == Spec => []TypeOK
BY TypeInit, TypeNext, PTL DEF Spec

-------------------------------------------------------------------------------
\* The inductive invariant.
Inv == TypeOK /\ RowsCohere

\* The provider's answers about a refund that exists are statuses it has had.
LEMMA AnswersAreTrue ==
  ASSUME TypeOK, NEW o \in Operation, NEW n \in Try, Created(o, n)
  PROVE  Current(o, n) \in provider[o][n] /\ Saved(o, n) \in provider[o][n]
<1>1. provider[o][n] \subseteq RefundState /\ provider[o][n] # {}
  BY DEF TypeOK, Created
<1> QED  BY <1>1 DEF Current, Saved, Succeeded, Failed, RefundState

\* A step of a run that changes nothing but runs and jobs.
LEMMA QuietCoheres ==
  ASSUME Inv, UNCHANGED <<rowVars, providerVars>>, NEW w \in Worker,
         \A v \in Worker \ {w} : worker'[v] = worker[v],
         RunCoheres(w)'
  PROVE  RowsCohere'
<1>1. \A o \in Operation, n \in Try : TryCoheres(o, n)'
  BY DEF Inv, RowsCohere, TryCoheres, Succeeded, Failed, Created, rowVars,
         providerVars
<1>2. \A o \in Operation : RowCoheres(o)'
  BY DEF Inv, RowsCohere, RowCoheres, Failed, Created, rowVars, providerVars
<1>3. \A v \in Worker : RunCoheres(v)'
  <2>1. ASSUME NEW v \in Worker \ {w} PROVE RunCoheres(v)'
    BY <2>1 DEF Inv, RowsCohere, RunCoheres, At, Created, rowVars, providerVars
  <2> QED  BY <2>1
<1> QED  BY <1>1, <1>2, <1>3 DEF RowsCohere

\* A run that has ended, or is about to, has nothing to agree with.
LEMMA EndedCoheres ==
  ASSUME TypeOK, NEW w \in Worker,
         \/ Stops(w)
         \/ \E step \in {"COMPLETE", "CATCH"} : Ends(w, step)
  PROVE  /\ RunCoheres(w)'
         /\ \A v \in Worker \ {w} : worker'[v] = worker[v]
BY DEF TypeOK, Stops, Ends, RunCoheres, At, Idle

\* A new status of a refund that may have it leaves the rows in agreement.
LEMMA ReportCoheres ==
  ASSUME Inv, NEW o \in Operation, NEW n \in Try, NEW status \in RefundState,
         Reports(o, n, status), UNCHANGED rowVars,
         n <= retryCount[o], ~Succeeded(o, n), ~Failed(o, n)
  PROVE  /\ \A q \in Operation, m \in Try : TryCoheres(q, m)'
         /\ \A q \in Operation : RowCoheres(q)'
         /\ \A q \in Operation, m \in Try : provider[q][m] \subseteq provider'[q][m]
         /\ status \in provider'[o][n]
<1>1. /\ \A q \in Operation, m \in Try : provider[q][m] \subseteq provider'[q][m]
      /\ provider'[o][n] = provider[o][n] \cup {status}
      /\ posted'[o][n] = posted[o][n] \cup {status}
      /\ \A q \in Operation, m \in Try :
           q # o \/ m # n => /\ provider'[q][m] = provider[q][m]
                            /\ posted'[q][m] = posted[q][m]
  BY DEF Inv, TypeOK, Reports
<1>2. ASSUME NEW q \in Operation, NEW m \in Try PROVE TryCoheres(q, m)'
  <2>1. CASE q = o /\ m = n
    BY <1>1, <2>1 DEF Inv, RowsCohere, TypeOK, Try, TryCoheres, Succeeded,
                      Failed, Created, rowVars
  <2>2. CASE q # o \/ m # n
    BY <1>1, <2>2 DEF Inv, RowsCohere, TryCoheres, Succeeded, Failed, Created,
                      rowVars
  <2> QED  BY <2>1, <2>2
<1>3. ASSUME NEW q \in Operation PROVE RowCoheres(q)'
  <2>1. refundId[q] \in Try \cup {None} /\ retryCount[q] \in Try
    BY DEF Inv, TypeOK
  <2> QED  BY <1>1, <2>1 DEF Inv, RowsCohere, RowCoheres, Failed, Created, rowVars
<1> QED  BY <1>1, <1>2, <1>3

\* Runs agree with a provider that has added a status.
LEMMA GrowthCoheres ==
  ASSUME Inv, NEW w \in Worker, worker'[w] = worker[w], UNCHANGED retryCount,
         \A q \in Operation, m \in Try : provider[q][m] \subseteq provider'[q][m]
  PROVE  RunCoheres(w)'
<1>1. CASE At(w, "CALL")
  <2>1. worker[w].op \in Operation /\ worker[w].try \in Try
    BY <1>1, RunFields DEF Inv, Calling
  <2> QED  BY <1>1, <2>1 DEF Inv, RowsCohere, RunCoheres, At, Created
<1>2. CASE At(w, "RECORD")
  <2>1. worker[w].op \in Operation /\ worker[w].try \in Try
    BY <1>2, RunFields DEF Inv, Recording
  <2> QED  BY <1>2, <2>1 DEF Inv, RowsCohere, RunCoheres, At
<1>3. CASE ~At(w, "CALL") /\ ~At(w, "RECORD")
  BY <1>3 DEF RunCoheres, At
<1> QED  BY <1>1, <1>2, <1>3

\* A result that a refund has had may be recorded.
LEMMA RecordCoheres ==
  ASSUME Inv, NEW o \in Operation, NEW n \in Try, NEW status \in RefundState,
         status \in provider[o][n], RecordResult(o, n, status),
         UNCHANGED provider, posted' \in [Operation -> [Try -> SUBSET RefundState]],
         \A q \in Operation, m \in Try : posted'[q][m] \subseteq posted[q][m]
  PROVE  /\ \A q \in Operation, m \in Try : TryCoheres(q, m)'
         /\ \A q \in Operation : RowCoheres(q)'
<1>1. \A q \in Operation, m \in Try : TryCoheres(q, m)'
  BY DEF Inv, RowsCohere, TryCoheres, Succeeded, Failed, Created, RecordResult
<1>2. ASSUME NEW q \in Operation PROVE RowCoheres(q)'
  <2>1. CASE Stale(o, status)
    BY <2>1 DEF Inv, RowsCohere, RowCoheres, Failed, Created, RecordResult
  <2>2. CASE ~Stale(o, status) /\ q = o
    <3>1. state'[o] = status /\ refundId'[o] = n /\ retryCount' = retryCount
      BY <2>2 DEF Inv, TypeOK, RecordResult
    <3>2. o \notin crossed' => n = retryCount[o] /\ o \notin crossed
      BY <2>2 DEF RecordResult
    <3>3. n # None
      BY DEF Try
    <3>4. Created(o, n)
      BY DEF Created
    <3> QED  BY <2>2, <3>1, <3>2, <3>3, <3>4
             DEF Inv, RowsCohere, RowCoheres, Failed, Created
  <2>3. CASE ~Stale(o, status) /\ q # o
    <3>1. /\ state'[q] = state[q] /\ refundId'[q] = refundId[q]
          /\ retryCount' = retryCount
          /\ q \notin crossed' => q \notin crossed
      BY <2>3 DEF Inv, TypeOK, RecordResult
    <3> QED  BY <3>1 DEF Inv, RowsCohere, RowCoheres, Failed, Created
  <2> QED  BY <2>1, <2>2, <2>3
<1> QED  BY <1>1, <1>2

LEMMA InvInit == Init => Inv
<1> SUFFICES ASSUME Init PROVE RowsCohere
  BY TypeInit DEF Inv
<1>1. \A o \in Operation, n \in Try : TryCoheres(o, n)
  BY DEF Init, TryCoheres, Succeeded, Failed, Created
<1>2. ASSUME NEW o \in Operation PROVE RowCoheres(o)
  <2>1. state[o] = "PENDING" /\ refundId[o] = None /\ retryCount[o] = 0
    BY DEF Init
  <2>2. \A n \in Try : ~(n < 0)
    BY DEF Try
  <2> QED  BY <2>1, <2>2 DEF RowCoheres
<1>3. \A w \in Worker : RunCoheres(w)
  BY DEF Init, RunCoheres, At, Idle
<1> QED  BY <1>1, <1>2, <1>3 DEF RowsCohere

LEMMA InvNext == Inv /\ [Next]_vars => Inv'
<1> SUFFICES ASSUME Inv, [Next]_vars PROVE RowsCohere'
  BY TypeNext DEF Inv
<1>t. TypeOK /\ TypeOK'
  BY TypeNext DEF Inv
<1>1. ASSUME NEW w \in Worker, NEW o \in Operation, NEW j \in Job, Claim(w, o, j)
      PROVE  RowsCohere'
  <2>1. TryRead(o) \in Try /\ TryRead(o) <= retryCount[o]
    <3>1. refundId[o] \in Try \cup {None} /\ retryCount[o] \in Try
      BY <1>t DEF TypeOK
    <3>2. refundId[o] # None => Created(o, refundId[o])
      BY DEF Inv, RowsCohere, RowCoheres
    <3>3. refundId[o] # None => ~(refundId[o] > retryCount[o])
      BY <3>1, <3>2 DEF Inv, RowsCohere, TryCoheres
    <3> QED  BY <3>1, <3>3 DEF TryRead, Try
  <2>2. refundId[o] # None => Created(o, TryRead(o))
    BY DEF Inv, RowsCohere, RowCoheres, TryRead
  <2>3. RunCoheres(w)'
    BY <1>t, <1>1, <2>1, <2>2
    DEF TypeOK, Claim, RunCoheres, At, Created, rowVars, providerVars
  <2>4. \A v \in Worker \ {w} : worker'[v] = worker[v]
    BY <1>t, <1>1 DEF TypeOK, Claim
  <2> QED  BY <1>1, <2>3, <2>4, QuietCoheres DEF Claim
<1>2. ASSUME NEW w \in Worker, Retrieve(w) PROVE RowsCohere'
  <2>1. worker[w] \in Calling
    BY <1>t, <1>2, RunFields DEF Retrieve, Calls
  <2>2. worker[w].op \in Operation /\ worker[w].try \in Try
    BY <2>1 DEF Calling
  <2>3. Created(worker[w].op, worker[w].try)
    BY <1>2 DEF Inv, RowsCohere, RunCoheres, Retrieve, Calls
  <2>4. Current(worker[w].op, worker[w].try) \in provider[worker[w].op][worker[w].try]
    BY <1>t, <2>2, <2>3, AnswersAreTrue
  <2>5. /\ worker'[w].step = "RECORD"
        /\ worker'[w].op = worker[w].op
        /\ worker'[w].try = worker[w].try
        /\ worker'[w].status = Current(worker[w].op, worker[w].try)
        /\ \A v \in Worker \ {w} : worker'[v] = worker[v]
    BY <1>t, <1>2 DEF TypeOK, Retrieve, Answered
  <2>6. RunCoheres(w)'
    BY <1>2, <2>4, <2>5 DEF Retrieve, RunCoheres, At, providerVars
  <2> QED  BY <1>2, <2>5, <2>6, QuietCoheres DEF Retrieve
<1>3. ASSUME NEW w \in Worker, Create(w) PROVE RowsCohere'
  <2> DEFINE o == worker[w].op
             n == worker[w].try
  <2>1. worker[w] \in Calling
    BY <1>t, <1>3, RunFields DEF Create, Calls
  <2>2. o \in Operation /\ n \in Try
    BY <2>1 DEF Calling
  <2>3. n <= retryCount[o]
    BY <1>3 DEF Inv, RowsCohere, RunCoheres, Create, Calls
  <2>4. ASSUME NEW status \in RefundState, Answered(w, status)
        PROVE  /\ worker'[w].step = "RECORD"
               /\ worker'[w].op = o
               /\ worker'[w].try = n
               /\ worker'[w].status = status
               /\ \A v \in Worker \ {w} : worker'[v] = worker[v]
    BY <1>t, <2>4 DEF TypeOK, Answered
  <2>5. CASE Created(o, n) /\ Answered(w, Saved(o, n)) /\ UNCHANGED providerVars
    <3>1. Saved(o, n) \in provider[o][n] /\ Saved(o, n) \in RefundState
      BY <1>t, <2>2, <2>5, AnswersAreTrue DEF TypeOK
    <3> HIDE DEF o, n
    <3>2. RunCoheres(w)'
      BY <2>4, <2>5, <3>1 DEF RunCoheres, At, providerVars
    <3> QED  BY <1>3, <2>4, <2>5, <3>1, <3>2, QuietCoheres DEF Create
  <2>6. ASSUME NEW status \in RefundState, ~Created(o, n),
               Reports(o, n, status), Answered(w, status)
        PROVE  RowsCohere'
    <3>1. ~Succeeded(o, n) /\ ~Failed(o, n) /\ UNCHANGED rowVars
      BY <1>3, <2>6 DEF Created, Succeeded, Failed, Create
    <3> HIDE DEF o, n
    <3>2. /\ \A q \in Operation, m \in Try : TryCoheres(q, m)'
          /\ \A q \in Operation : RowCoheres(q)'
          /\ \A q \in Operation, m \in Try : provider[q][m] \subseteq provider'[q][m]
          /\ status \in provider'[o][n]
      BY <2>2, <2>3, <2>6, <3>1, ReportCoheres
    <3>3. RunCoheres(w)'
      BY <2>4, <2>6, <3>2 DEF RunCoheres, At
    <3>4. ASSUME NEW v \in Worker \ {w} PROVE RunCoheres(v)'
      BY <2>4, <2>6, <3>1, <3>2, GrowthCoheres DEF rowVars
    <3> QED  BY <3>2, <3>3, <3>4 DEF RowsCohere
  <2> QED  BY <1>3, <2>5, <2>6 DEF Create
<1>4. ASSUME NEW w \in Worker, Record(w) PROVE RowsCohere'
  <2> DEFINE o == worker[w].op
             n == worker[w].try
             status == worker[w].status
  <2>1. worker[w] \in Recording
    BY <1>t, <1>4, RunFields DEF Record
  <2>2. o \in Operation /\ n \in Try /\ status \in RefundState
    BY <2>1 DEF Recording
  <2>3. status \in provider[o][n] /\ RecordResult(o, n, status)
    BY <1>4 DEF Inv, RowsCohere, RunCoheres, Record
  <2>4. /\ UNCHANGED provider
        /\ posted' \in [Operation -> [Try -> SUBSET RefundState]]
        /\ \A q \in Operation, m \in Try : posted'[q][m] \subseteq posted[q][m]
    BY <1>t, <1>4 DEF TypeOK, Record, providerVars
  <2>5. RunCoheres(w)' /\ \A v \in Worker \ {w} : worker'[v] = worker[v]
    BY <1>t, <1>4, EndedCoheres DEF Record
  <2> HIDE DEF o, n, status
  <2>6. /\ \A q \in Operation, m \in Try : TryCoheres(q, m)'
        /\ \A q \in Operation : RowCoheres(q)'
    BY <2>2, <2>3, <2>4, RecordCoheres
  <2>7. UNCHANGED retryCount
    BY <2>3 DEF RecordResult
  <2>8. ASSUME NEW v \in Worker \ {w} PROVE RunCoheres(v)'
    BY <2>4, <2>5, <2>7, GrowthCoheres
  <2> QED  BY <2>5, <2>6, <2>8 DEF RowsCohere
<1>5. ASSUME NEW w \in Worker, Complete(w) PROVE RowsCohere'
  BY <1>t, <1>5, EndedCoheres, QuietCoheres DEF Complete
<1>6. ASSUME NEW w \in Worker, Raises(w) PROVE RowsCohere'
  BY <1>t, <1>6, EndedCoheres, QuietCoheres DEF Raises
<1>7. ASSUME NEW w \in Worker, NEW next \in {"READY", "DEAD_LETTER"},
             RetryJob(w, next)
      PROVE  RowsCohere'
  BY <1>t, <1>7, EndedCoheres, QuietCoheres DEF RetryJob
<1>8. ASSUME NEW w \in Worker, GivesUp(w) \/ Dies(w) PROVE RowsCohere'
  BY <1>t, <1>8, EndedCoheres, QuietCoheres DEF GivesUp, Dies
<1>9. ASSUME NEW o \in Operation, Retry(o) PROVE RowsCohere'
  <2>1. /\ retryCount'[o] = retryCount[o] + 1
        /\ state'[o] = "PENDING" /\ refundId'[o] = None
        /\ \A q \in Operation \ {o} :
             /\ retryCount'[q] = retryCount[q]
             /\ state'[q] = state[q]
             /\ refundId'[q] = refundId[q]
        /\ UNCHANGED <<crossed, provider, posted, worker>>
    BY <1>t, <1>9 DEF TypeOK, Retry, ClearsId, providerVars
  <2>2. \A q \in Operation : retryCount[q] \in Nat /\ retryCount'[q] \in Nat
    BY <1>t DEF TypeOK, Try
  <2>3. \A q \in Operation : retryCount[q] <= retryCount'[q]
    BY <2>1, <2>2
  <2>4. \A q \in Operation, m \in Try : TryCoheres(q, m)'
    BY <2>1, <2>2, <2>3 DEF Inv, RowsCohere, TryCoheres, Succeeded, Failed,
                           Created, Try
  <2>5. RowCoheres(o)'
    <3>1. state[o] = "FAILED"
      BY <1>9 DEF Retry, Retriable
    <3>2. o \notin crossed => Failed(o, retryCount[o])
      BY <3>1 DEF Inv, RowsCohere, RowCoheres, Failed
    <3>3. ASSUME o \notin crossed', NEW m \in Try, m < retryCount'[o]
          PROVE  Failed(o, m)'
      <4>1. m < retryCount[o] \/ m = retryCount[o]
        BY <2>1, <2>2, <3>3 DEF Try
      <4> QED  BY <2>1, <3>2, <3>3, <4>1
               DEF Inv, RowsCohere, RowCoheres, Failed
    <3> QED  BY <2>1, <3>3 DEF RowCoheres
  <2>6. ASSUME NEW q \in Operation \ {o} PROVE RowCoheres(q)'
    BY <2>1 DEF Inv, RowsCohere, RowCoheres, Failed, Created
  <2>7. ASSUME NEW w \in Worker PROVE RunCoheres(w)'
    <3>1. CASE At(w, "CALL")
      <4>1. worker[w].op \in Operation /\ worker[w].try \in Nat
        BY <1>t, <3>1, RunFields DEF Calling, Try
      <4>2. worker[w].try <= retryCount'[worker[w].op]
        BY <2>2, <2>3, <3>1, <4>1 DEF Inv, RowsCohere, RunCoheres
      <4> QED  BY <2>1, <3>1, <4>2 DEF Inv, RowsCohere, RunCoheres, At, Created
    <3>2. CASE ~At(w, "CALL")
      BY <2>1, <3>2 DEF Inv, RowsCohere, RunCoheres, At
    <3> QED  BY <3>1, <3>2
  <2> QED  BY <2>4, <2>5, <2>6, <2>7 DEF RowsCohere
<1>10. ASSUME NEW o \in Operation, NEW n \in Try, ProviderSettles(o, n)
       PROVE  RowsCohere'
  <2>1. ~Succeeded(o, n) /\ ~Failed(o, n)
    BY <1>10 DEF ProviderSettles, Current
  <2>2. n <= retryCount[o]
    <3>1. ~(n > retryCount[o])
      BY <1>10 DEF ProviderSettles, Inv, RowsCohere, TryCoheres
    <3> QED  BY <1>t, <3>1 DEF TypeOK, Try
  <2>3. PICK status \in RefundState : Reports(o, n, status)
    BY <1>10 DEF ProviderSettles, RefundState
  <2>4. UNCHANGED rowVars /\ UNCHANGED worker
    BY <1>10 DEF ProviderSettles
  <2>5. /\ \A q \in Operation, m \in Try : TryCoheres(q, m)'
        /\ \A q \in Operation : RowCoheres(q)'
        /\ \A q \in Operation, m \in Try : provider[q][m] \subseteq provider'[q][m]
    BY <2>1, <2>2, <2>3, <2>4, ReportCoheres
  <2>6. ASSUME NEW w \in Worker PROVE RunCoheres(w)'
    BY <2>4, <2>5, GrowthCoheres DEF rowVars
  <2> QED  BY <2>5, <2>6 DEF RowsCohere
<1>11. ASSUME NEW o \in Operation, NEW n \in Try, NEW status \in RefundState,
              Webhook(o, n, status)
       PROVE  RowsCohere'
  <2>1. /\ RecordResult(o, n, status)
        /\ UNCHANGED <<provider, worker>>
    BY <1>11 DEF Webhook
  <2>2. status \in provider[o][n]
    BY <1>11 DEF Webhook, Inv, RowsCohere, TryCoheres
  <2>3. /\ posted' \in [Operation -> [Try -> SUBSET RefundState]]
        /\ \A q \in Operation, m \in Try : posted'[q][m] \subseteq posted[q][m]
    BY <1>t, <1>11 DEF TypeOK, Webhook
  <2>4. /\ \A q \in Operation, m \in Try : TryCoheres(q, m)'
        /\ \A q \in Operation : RowCoheres(q)'
    BY <2>1, <2>2, <2>3, RecordCoheres
  <2>5. UNCHANGED retryCount
    BY <2>1 DEF RecordResult
  <2>6. ASSUME NEW w \in Worker PROVE RunCoheres(w)'
    BY <2>1, <2>5, GrowthCoheres
  <2> QED  BY <2>4, <2>6 DEF RowsCohere
<1>12. CASE UNCHANGED vars
  BY <1>12 DEF Inv, RowsCohere, TryCoheres, RowCoheres, RunCoheres, At, Succeeded,
               Failed, Created, vars, rowVars, providerVars
<1> QED
  BY <1>1, <1>2, <1>3, <1>4, <1>5, <1>6, <1>7, <1>8, <1>9, <1>10, <1>11, <1>12
  DEF Next, WorkerStep, HandlerStep, OperationStep, RetryLater, DeadLetter

LEMMA Invariant == Spec => []Inv
BY InvInit, InvNext, PTL DEF Spec

\* Rows, provider and workers agree in every state.
THEOREM Consistent == Spec => []RowsCohere
BY Invariant, PTL DEF Inv

LEMMA InvPaysOnce == Inv => PaysOnceUncrossed
<1> SUFFICES ASSUME Inv, NEW o \in Operation \ crossed, NEW m \in Try, NEW n \in Try,
                    Live(o, m), Live(o, n)
             PROVE  m = n
  BY DEF PaysOnceUncrossed
<1>1. retryCount[o] \in Nat /\ m \in Nat /\ n \in Nat
  BY DEF Inv, TypeOK, Try
<1>2. ASSUME NEW k \in Try, Live(o, k) PROVE k = retryCount[o]
  <2>1. ~(k > retryCount[o]) /\ ~(k < retryCount[o])
    BY <1>2 DEF Inv, RowsCohere, TryCoheres, RowCoheres, Live
  <2> QED  BY <1>1, <2>1 DEF Try
<1> QED  BY <1>2

\* Of an operation whose row never took the result of another try, no two refunds
\* pay: for any number of workers and retries, outlived leases included.
THEOREM PaysOnce == Spec => []PaysOnceUncrossed
BY Invariant, InvPaysOnce, PTL

-------------------------------------------------------------------------------
\* The promise.

LEMMA PromiseInit == Init => Promise!Init
BY DEF Init, Promise!Init, Paid, Refused, Succeeded, Failed

\* A status the provider reports pays an operation back, refuses it, or is new
\* to nobody.
LEMMA ReportKeeps ==
  ASSUME TypeOK, NEW o \in Operation, NEW n \in Try, NEW status \in RefundState,
         Reports(o, n, status), UNCHANGED <<state, retryCount>>
  PROVE  [Promise!Next]_(Promise!promised)
<1>1. /\ provider'[o][n] = provider[o][n] \cup {status}
      /\ \A q \in Operation, m \in Try :
           q # o \/ m # n => provider'[q][m] = provider[q][m]
  BY DEF TypeOK, Reports
<1>2. CASE status = "SUCCEEDED"
  <2>1. Paid' = Paid \cup {o} /\ Refused' = Refused
    BY <1>1, <1>2 DEF Paid, Refused, Succeeded, Failed
  <2> QED  BY <2>1 DEF Promise!Next, Promise!PayBack
<1>3. CASE status = "FAILED"
  <2>1. Paid' = Paid /\ Refused' = Refused \cup {o}
    BY <1>1, <1>3 DEF Paid, Refused, Succeeded, Failed
  <2> QED  BY <2>1 DEF Promise!Next, Promise!Refuse
<1>4. CASE status = "PENDING"
  <2>1. Paid' = Paid /\ Refused' = Refused
    BY <1>1, <1>4 DEF Paid, Refused, Succeeded, Failed
  <2> QED  BY <2>1 DEF Promise!promised
<1> QED  BY <1>2, <1>3, <1>4 DEF RefundState

\* What is recorded of a pending operation happened; a decided one keeps its
\* state.
LEMMA RecordKeeps ==
  ASSUME TypeOK, NEW o \in Operation, NEW n \in Try, NEW status \in RefundState,
         status \in provider[o][n], RecordResult(o, n, status), UNCHANGED provider
  PROVE  [Promise!Next]_(Promise!promised)
<1>1. UNCHANGED <<Paid, Refused, retryCount>>
  BY DEF Paid, Refused, Succeeded, Failed, RecordResult
<1>2. CASE Stale(o, status) \/ status = "PENDING"
  <2>1. state' = state
    BY <1>2 DEF TypeOK, RecordResult, RecordRaises, Stale, RefundState
  <2> QED  BY <1>1, <2>1 DEF Promise!promised
<1>3. CASE ~Stale(o, status) /\ status # "PENDING"
  <2>1. state[o] = "PENDING" /\ state' = [state EXCEPT ![o] = status]
    BY <1>3 DEF TypeOK, RecordResult, RecordRaises, Stale, RefundState
  <2>2. \/ status = "SUCCEEDED" /\ o \in Paid
        \/ status = "FAILED" /\ o \in Refused
    BY <1>3 DEF Paid, Refused, Succeeded, Failed, RefundState
  <2>3. Promise!Report(o, status)
    BY <1>1, <2>1, <2>2 DEF Promise!Report
  <2> QED  BY <2>2, <2>3 DEF Promise!Next
<1> QED  BY <1>2, <1>3

LEMMA PromiseNext == Inv /\ [Next]_vars => [Promise!Next]_(Promise!promised)
<1> SUFFICES ASSUME Inv, [Next]_vars PROVE [Promise!Next]_(Promise!promised)
  OBVIOUS
<1>t. TypeOK
  BY DEF Inv
<1>1. ASSUME NEW w \in Worker, Create(w)
      PROVE  [Promise!Next]_(Promise!promised)
  <2>1. worker[w].op \in Operation /\ worker[w].try \in Try
    BY <1>t, <1>1, RunFields DEF Create, Calls, Calling
  <2>2. CASE UNCHANGED providerVars
    BY <1>1, <2>2 DEF Create, rowVars, providerVars, Promise!promised, Paid,
                      Refused, Succeeded, Failed
  <2>3. ASSUME NEW status \in RefundState,
               Reports(worker[w].op, worker[w].try, status)
        PROVE  [Promise!Next]_(Promise!promised)
    BY <1>t, <1>1, <2>1, <2>3, ReportKeeps DEF Create, rowVars
  <2> QED  BY <1>1, <2>2, <2>3 DEF Create
<1>2. ASSUME NEW o \in Operation, NEW n \in Try, ProviderSettles(o, n)
      PROVE  [Promise!Next]_(Promise!promised)
  BY <1>t, <1>2, ReportKeeps DEF ProviderSettles, rowVars, RefundState
<1>3. ASSUME NEW w \in Worker, Record(w)
      PROVE  [Promise!Next]_(Promise!promised)
  <2>1. worker[w] \in Recording
    BY <1>t, <1>3, RunFields DEF Record
  <2>2. /\ worker[w].op \in Operation
        /\ worker[w].try \in Try
        /\ worker[w].status \in RefundState
    BY <2>1 DEF Recording
  <2>3. worker[w].status \in provider[worker[w].op][worker[w].try]
    BY <1>3 DEF Inv, RowsCohere, RunCoheres, Record
  <2> QED  BY <1>t, <1>3, <2>2, <2>3, RecordKeeps DEF Record, providerVars
<1>4. ASSUME NEW o \in Operation, NEW n \in Try, NEW status \in RefundState,
             Webhook(o, n, status)
      PROVE  [Promise!Next]_(Promise!promised)
  <2>1. status \in provider[o][n]
    BY <1>4 DEF Webhook, Inv, RowsCohere, TryCoheres
  <2> QED  BY <1>t, <1>4, <2>1, RecordKeeps DEF Webhook
<1>5. ASSUME NEW o \in Operation, Retry(o)
      PROVE  [Promise!Next]_(Promise!promised)
  <2>1. UNCHANGED <<Paid, Refused>>
    BY <1>5 DEF Retry, providerVars, Paid, Refused, Succeeded, Failed
  <2>2. retryCount' = [retryCount EXCEPT ![o] = @ + 1]
    BY <1>5 DEF Retry
  <2>3. Promise!Retry(o)
    BY <1>5, <2>1, <2>2 DEF Retry, Retriable, Promise!Retry
  <2> QED  BY <2>3 DEF Promise!Next
<1>6. ASSUME UNCHANGED <<rowVars, providerVars>>
      PROVE  [Promise!Next]_(Promise!promised)
  BY <1>6 DEF rowVars, providerVars, Promise!promised, Paid, Refused, Succeeded,
              Failed
<1>7. CASE UNCHANGED vars
  BY <1>6, <1>7 DEF vars
<1> QED
  BY <1>1, <1>2, <1>3, <1>4, <1>5, <1>6, <1>7
  DEF Next, WorkerStep, HandlerStep, OperationStep, RetryLater, DeadLetter,
      RetryJob, Claim, Retrieve, Complete, Raises, GivesUp, Dies

\* What a refund operation reports happened, whatever its jobs, its retries and
\* the order of the events.
THEOREM ImplementsPromise == Spec => KeepsPromise
BY Invariant, PromiseInit, PromiseNext, PTL DEF Spec, KeepsPromise, Promise!Spec

-------------------------------------------------------------------------------
\* Pending refunds are worked on, while no handler outlives its lease.

Has(w, o, j)      == worker[w] # Idle /\ worker[w].op = o /\ worker[w].job = j
Finishes(w, o, j) == At(w, "COMPLETE") /\ Has(w, o, j)

\* No job of a try to come is there yet.
TriesCohere ==
  /\ \A o \in Operation, n \in Try :
       n > retryCount[o] => job[o][Submit(n)] = "ABSENT"
  /\ \A w \in Worker, o \in Operation, n \in Try :
       Has(w, o, Submit(n)) => n <= retryCount[o]

\* The run that is about to complete one of the two jobs of a pending refund
\* leaves the other open, and no two runs are about to complete both.
HandsOver(o) ==
  state[o] = "PENDING" =>
    /\ Open(o, Submit(retryCount[o])) \/ Open(o, Reconcile)
    /\ \A w \in Worker :
         Finishes(w, o, Submit(retryCount[o])) => Open(o, Reconcile)
    /\ \A w \in Worker : Finishes(w, o, Reconcile) /\ Leased(o, Reconcile) =>
         /\ Open(o, Submit(retryCount[o]))
         /\ \A v \in Worker : ~Finishes(v, o, Submit(retryCount[o]))

WorkInv == TypeOK /\ TriesCohere /\ \A o \in Operation : HandsOver(o)

LEMMA JobNames ==
  /\ \A m, n : Submit(m) = Submit(n) => m = n
  /\ \A n : Submit(n) # Reconcile
  /\ \A n \in Try : Submit(n) \in Job
  /\ Reconcile \in Job
  /\ \A j \in Job : j = Reconcile \/ \E n \in Try : j = Submit(n)
BY DEF Submit, Reconcile, Job

\* A step that leaves an operation's row and jobs alone, and takes no run to the
\* completion of its jobs.
LEMMA ElsewhereHandsOver ==
  ASSUME TypeOK, NEW o \in Operation, HandsOver(o),
         state'[o] = state[o], retryCount'[o] = retryCount[o], job'[o] = job[o],
         \A w \in Worker, j \in Job : Finishes(w, o, j)' => Finishes(w, o, j)
  PROVE  HandsOver(o)'
<1>1. Submit(retryCount[o]) \in Job /\ Reconcile \in Job
  BY JobNames DEF TypeOK
<1>2. \A w \in Worker :
        /\ Finishes(w, o, Reconcile)' => Finishes(w, o, Reconcile)
        /\ Finishes(w, o, Submit(retryCount[o]))' =>
             Finishes(w, o, Submit(retryCount[o]))
  BY <1>1 DEF Reconcile, Submit
<1>3. Submit(retryCount[o])' = Submit(retryCount[o]) /\ Reconcile' = Reconcile
  BY DEF Submit, Reconcile
<1> QED  BY <1>2, <1>3 DEF HandsOver, Open, Leased

LEMMA WorkInit == Init => WorkInv
<1> SUFFICES ASSUME Init PROVE TriesCohere /\ \A o \in Operation : HandsOver(o)
  BY TypeInit DEF WorkInv
<1>1. 0 \in Try
  BY DEF Try
<1>2. TriesCohere
  BY JobNames DEF Init, TriesCohere, Has
<1>3. ASSUME NEW o \in Operation PROVE HandsOver(o)
  BY <1>1, JobNames DEF Init, HandsOver, Open, Finishes, Has
<1> QED  BY <1>2, <1>3

\* A run that stops, ends or goes on keeps its operation and its job.
LEMMA RunsKeepJobs ==
  ASSUME TypeOK, NEW w \in Worker
  PROVE  /\ Stops(w) =>
              /\ \A v \in Worker : \A o, j : Has(v, o, j)' => Has(v, o, j)
              /\ \A v \in Worker : \A o, j :
                   Finishes(v, o, j)' => Finishes(v, o, j) /\ v # w
         /\ worker[w] # Idle /\ Ends(w, "CATCH") =>
              /\ \A v \in Worker : \A o, j : Has(v, o, j)' => Has(v, o, j)
              /\ \A v \in Worker : \A o, j : Finishes(v, o, j)' => Finishes(v, o, j)
         /\ worker[w] # Idle /\ Ends(w, "COMPLETE") =>
              /\ \A v \in Worker : \A o, j : Has(v, o, j)' => Has(v, o, j)
              /\ \A v \in Worker : \A o, j : Finishes(v, o, j)' =>
                   Finishes(v, o, j) \/ Has(w, o, j)
         /\ \A status : At(w, "CALL") /\ Answered(w, status) =>
              /\ \A v \in Worker : \A o, j : Has(v, o, j)' => Has(v, o, j)
              /\ \A v \in Worker : \A o, j : Finishes(v, o, j)' => Finishes(v, o, j)
<1> USE DEF TypeOK, Has, Finishes, At, Idle
<1>1. ASSUME Stops(w)
      PROVE  \A v \in Worker : \A o, j :
               /\ Has(v, o, j)' => Has(v, o, j)
               /\ Finishes(v, o, j)' => Finishes(v, o, j) /\ v # w
  BY <1>1 DEF Stops
<1>2. ASSUME worker[w] # Idle, NEW step, Ends(w, step)
      PROVE  \A v \in Worker : \A o, j :
               /\ Has(v, o, j)' => Has(v, o, j)
               /\ Finishes(v, o, j)' =>
                    Finishes(v, o, j) \/ (step = "COMPLETE" /\ Has(w, o, j))
  BY <1>2 DEF Ends
<1>3. ASSUME NEW status, At(w, "CALL"), Answered(w, status)
      PROVE  \A v \in Worker : \A o, j :
               /\ Has(v, o, j)' => Has(v, o, j)
               /\ Finishes(v, o, j)' => Finishes(v, o, j)
  BY <1>3 DEF Answered
<1> HIDE DEF TypeOK, Has, Finishes, At, Idle
<1>4. worker[w] # Idle /\ Ends(w, "CATCH") =>
        /\ \A v \in Worker : \A o, j : Has(v, o, j)' => Has(v, o, j)
        /\ \A v \in Worker : \A o, j : Finishes(v, o, j)' => Finishes(v, o, j)
  BY <1>2
<1> QED  BY <1>1, <1>2, <1>3, <1>4

\* Steps that leave rows and jobs alone.
LEMMA QuietHandsOver ==
  ASSUME WorkInv, TypeOK', UNCHANGED <<state, retryCount, job>>,
         \A v \in Worker : \A o, j : Has(v, o, j)' => Has(v, o, j),
         \A v \in Worker : \A o, j : Finishes(v, o, j)' => Finishes(v, o, j)
  PROVE  WorkInv'
<1>1. TriesCohere'
  BY DEF WorkInv, TriesCohere, Submit
<1>2. ASSUME NEW o \in Operation PROVE HandsOver(o)'
  BY ElsewhereHandsOver DEF WorkInv
<1> QED  BY <1>1, <1>2 DEF WorkInv

\* A pending result opens the reconcile job, and no run has its lease.
LEMMA RecordHandsOver ==
  ASSUME WorkInv, TypeOK', NEW o \in Operation, NEW n \in Try,
         NEW status \in RefundState, RecordResult(o, n, status),
         \A v \in Worker : \A q, j : Has(v, q, j)' => Has(v, q, j),
         \A v \in Worker, q \in Operation \ {o} : \A j :
           Finishes(v, q, j)' => Finishes(v, q, j)
  PROVE  WorkInv'
<1>1. /\ \A q \in Operation \ {o} : state'[q] = state[q] /\ job'[q] = job[q]
      /\ retryCount' = retryCount
      /\ \A q \in Operation, m \in Try : job'[q][Submit(m)] = job[q][Submit(m)]
  BY JobNames DEF WorkInv, TypeOK, RecordResult, ArmReconcile
<1>2. TriesCohere'
  BY <1>1 DEF WorkInv, TriesCohere, Submit
<1>3. \/ state'[o] # "PENDING"
      \/ job'[o][Reconcile] = "READY"
  BY JobNames DEF WorkInv, TypeOK, RecordResult, RecordRaises, Stale,
                  ArmReconcile, RefundState
<1>4. HandsOver(o)'
  BY <1>3 DEF HandsOver, Open, Leased, Reconcile
<1>5. ASSUME NEW q \in Operation \ {o} PROVE HandsOver(q)'
  BY <1>1, <1>5, ElsewhereHandsOver DEF WorkInv
<1> QED  BY <1>2, <1>4, <1>5 DEF WorkInv

\* A run that completes its job, or gives it back, leaves the work to the other.
LEMMA LeaveHandsOver ==
  ASSUME WorkInv, TypeOK', NEW w \in Worker, NEW o \in Operation, NEW j \in Job,
         NEW next \in {"COMPLETED", "READY", "DEAD_LETTER"},
         Has(w, o, j), next = "COMPLETED" => At(w, "COMPLETE"), Leased(o, j),
         job' = [job EXCEPT ![o][j] = next], Stops(w), UNCHANGED rowVars
  PROVE  WorkInv'
<1>1. next = "COMPLETED" => Finishes(w, o, j)
  BY DEF Finishes
<1>2. /\ Leased(o, j) /\ job'[o][j] = next
      /\ \A q \in Operation, k \in Job :
           q # o \/ k # j => job'[q][k] = job[q][k]
      /\ \A q \in Operation \ {o} : job'[q] = job[q]
      /\ UNCHANGED <<state, retryCount>>
  BY DEF WorkInv, TypeOK, rowVars
<1>3. /\ \A v \in Worker : \A q, k : Has(v, q, k)' => Has(v, q, k)
      /\ \A v \in Worker : \A q, k : Finishes(v, q, k)' => Finishes(v, q, k)
  BY RunsKeepJobs DEF WorkInv
<1>4. TriesCohere'
  <2>1. ASSUME NEW q \in Operation, NEW n \in Try, n > retryCount[q]
        PROVE  job'[q][Submit(n)] = "ABSENT"
    BY <1>2, <2>1, JobNames DEF WorkInv, TriesCohere, Leased
  <2> QED  BY <1>2, <1>3, <2>1 DEF WorkInv, TriesCohere, Submit
<1>5. HandsOver(o)'
  <2>1. Submit(retryCount[o]) \in Job /\ Reconcile \in Job
    BY JobNames DEF WorkInv, TypeOK
  <2>2. Submit(retryCount[o])' = Submit(retryCount[o]) /\ Reconcile' = Reconcile
    BY <1>2 DEF Submit, Reconcile
  <2>3. ~Leased(o, j)'
    BY <1>2 DEF Leased
  <2>4. \A k \in Job : k # j => /\ Leased(o, k)' <=> Leased(o, k)
                                /\ Open(o, k)' <=> Open(o, k)
    BY <1>2 DEF Leased, Open
  <2>5. next # "COMPLETED" => Open(o, j)'
    BY <1>2 DEF Open
  <2>6. HandsOver(o)
    BY DEF WorkInv
  <2>7. CASE j = Reconcile
    BY <1>1, <1>2, <1>3, <2>1, <2>2, <2>3, <2>4, <2>5, <2>6, <2>7,
       JobNames DEF HandsOver
  <2>8. CASE j = Submit(retryCount[o])
    BY <1>1, <1>2, <1>3, <2>1, <2>2, <2>3, <2>4, <2>5, <2>6, <2>8,
       JobNames DEF HandsOver
  <2>9. CASE j # Reconcile /\ j # Submit(retryCount[o])
    BY <1>2, <1>3, <2>1, <2>2, <2>4, <2>6, <2>9 DEF HandsOver
  <2> QED  BY <2>7, <2>8, <2>9
<1>6. ASSUME NEW q \in Operation \ {o} PROVE HandsOver(q)'
  BY <1>2, <1>3, ElsewhereHandsOver DEF WorkInv
<1> QED  BY <1>4, <1>5, <1>6 DEF WorkInv

LEMMA WorkNext == ~Overrun /\ WorkInv /\ [Next]_vars => WorkInv'
<1> SUFFICES ASSUME ~Overrun, WorkInv, [Next]_vars PROVE WorkInv'
  OBVIOUS
<1>t. TypeOK /\ TypeOK'
  BY TypeNext DEF WorkInv
<1>1. ASSUME NEW w \in Worker, NEW o \in Operation, NEW j \in Job, Claim(w, o, j)
      PROVE  WorkInv'
  <2>1. /\ worker[w] = Idle
        /\ UNCHANGED <<state, retryCount>>
        /\ job[o][j] \in {"READY", "LEASED"} /\ job'[o][j] = "LEASED"
        /\ \A q \in Operation, k \in Job :
             q # o \/ k # j => job'[q][k] = job[q][k]
        /\ \A v \in Worker : ~Has(v, o, j)
    BY <1>t, <1>1 DEF TypeOK, Claim, Claimable, InHand, Has, rowVars
  <2>2. /\ \A v \in Worker \ {w} : worker'[v] = worker[v]
        /\ worker'[w].op = o /\ worker'[w].job = j
        /\ worker'[w].step = "COMPLETE" => state[o] # "PENDING"
    BY <1>t, <1>1 DEF TypeOK, Claim
  <2>3. TriesCohere'
    <3>1. ASSUME NEW n \in Try, j = Submit(n) PROVE n <= retryCount[o]
      <4>1. ~(n > retryCount[o])
        BY <2>1, <3>1 DEF WorkInv, TriesCohere
      <4>2. n \in Nat /\ retryCount[o] \in Nat
        BY <1>t DEF TypeOK, Try
      <4> QED  BY <4>1, <4>2
    <3>2. ASSUME NEW q \in Operation, NEW n \in Try, n > retryCount'[q]
          PROVE  job'[q][Submit(n)] = "ABSENT"
      BY <1>t, <2>1, <3>1, <3>2, JobNames DEF WorkInv, TriesCohere, TypeOK, Try
    <3>3. ASSUME NEW v \in Worker, NEW q \in Operation, NEW n \in Try,
                 Has(v, q, Submit(n))'
          PROVE  n <= retryCount'[q]
      BY <2>1, <2>2, <3>1, <3>3 DEF WorkInv, TriesCohere, Has, Submit
    <3> QED  BY <3>2, <3>3 DEF TriesCohere, Submit
  <2>4. ASSUME NEW q \in Operation, state'[q] = "PENDING" PROVE HandsOver(q)'
    <3>1. \A v \in Worker : \A k : Finishes(v, q, k)' => Finishes(v, q, k)
      BY <2>1, <2>2, <2>4 DEF Finishes, Has, At
    <3>2. \A k \in Job : Open(q, k) => Open(q, k)'
      BY <2>1 DEF Open
    <3>3. \A v \in Worker, k \in Job :
            Finishes(v, q, k) /\ Leased(q, k)' => Leased(q, k)
      BY <2>1 DEF Finishes, Leased
    <3>4. Submit(retryCount[q]) \in Job /\ Reconcile \in Job
      BY <1>t, JobNames DEF TypeOK
    <3>5. Submit(retryCount[q])' = Submit(retryCount[q]) /\ Reconcile' = Reconcile
      BY <2>1 DEF Submit, Reconcile
    <3> QED  BY <2>1, <2>4, <3>1, <3>2, <3>3, <3>4, <3>5 DEF WorkInv, HandsOver
  <2>5. ASSUME NEW q \in Operation PROVE HandsOver(q)'
    BY <2>4 DEF HandsOver
  <2> QED  BY <1>t, <2>3, <2>5 DEF WorkInv
<1>2. ASSUME NEW w \in Worker, Retrieve(w) \/ Create(w) PROVE WorkInv'
  <2>1. At(w, "CALL") /\ \E status : Answered(w, status)
    BY <1>2 DEF Retrieve, Create, Calls
  <2> QED  BY <1>t, <1>2, <2>1, RunsKeepJobs, QuietHandsOver
           DEF Retrieve, Create, rowVars
<1>3. ASSUME NEW w \in Worker, Record(w) PROVE WorkInv'
  <2>1. worker[w] \in Recording /\ worker[w] # Idle
    BY <1>t, <1>3, RunFields DEF Record, At, Idle
  <2>2. /\ worker[w].op \in Operation
        /\ worker[w].try \in Try
        /\ worker[w].status \in RefundState
        /\ RecordResult(worker[w].op, worker[w].try, worker[w].status)
    BY <1>3, <2>1 DEF Record, Recording
  <2>3. Stops(w) \/ Ends(w, "COMPLETE")
    BY <1>3 DEF Record
  <2>4. /\ \A v \in Worker : \A q, j : Has(v, q, j)' => Has(v, q, j)
        /\ \A v \in Worker, q \in Operation \ {worker[w].op} : \A j :
             Finishes(v, q, j)' => Finishes(v, q, j)
    BY <1>t, <2>1, <2>3, RunsKeepJobs DEF Has
  <2> QED  BY <1>t, <2>2, <2>4, RecordHandsOver
<1>4. ASSUME NEW w \in Worker, NEW step \in {"COMPLETE", "CATCH"}, At(w, step)
      PROVE  /\ worker[w].op \in Operation
             /\ worker[w].job \in Job
             /\ Has(w, worker[w].op, worker[w].job)
  BY <1>t, <1>4, RunFields DEF Has, At, Idle
<1>5. ASSUME NEW w \in Worker, Complete(w) PROVE WorkInv'
  BY <1>t, <1>5, <1>4, LeaveHandsOver DEF Complete
<1>6. ASSUME NEW w \in Worker, NEW next \in {"READY", "DEAD_LETTER"},
             RetryJob(w, next)
      PROVE  WorkInv'
  <2>1. At(w, "CATCH") /\ ~At(w, "COMPLETE")
    BY <1>6 DEF RetryJob, At
  <2> QED  BY <1>t, <1>6, <1>4, <2>1, LeaveHandsOver DEF RetryJob
<1>7. ASSUME NEW w \in Worker, Raises(w) \/ GivesUp(w) \/ Dies(w) PROVE WorkInv'
  BY <1>t, <1>7, RunsKeepJobs, QuietHandsOver
  DEF Raises, GivesUp, Dies, Handling, rowVars
<1>8. ASSUME NEW o \in Operation, Retry(o) PROVE WorkInv'
  <2>0. PICK next \in Try : next = retryCount[o] + 1
    BY <1>t, <1>8 DEF TypeOK, Retry, Try
  <2>1. retryCount[o] \in Nat
    BY <1>t DEF TypeOK, Try
  <2>2. /\ retryCount'[o] = next
        /\ job'[o][Submit(next)] = "READY"
        /\ \A k \in Job : k # Submit(next) => job'[o][k] = job[o][k]
        /\ \A q \in Operation \ {o} : /\ retryCount'[q] = retryCount[q]
                                     /\ state'[q] = state[q]
                                     /\ job'[q] = job[q]
        /\ UNCHANGED worker
    BY <1>t, <1>8, <2>0, JobNames DEF TypeOK, Retry
  <2>3. TriesCohere'
    <3>1. ASSUME NEW n \in Try, n > next PROVE job'[o][Submit(n)] = "ABSENT"
      <4>1. n > retryCount[o] /\ n # next
        BY <2>0, <2>1, <3>1 DEF Try
      <4> QED  BY <2>2, <4>1, JobNames DEF WorkInv, TriesCohere
    <3>2. ASSUME NEW v \in Worker, NEW n \in Try, Has(v, o, Submit(n))
          PROVE  n <= next
      <4>1. n <= retryCount[o]
        BY <3>2 DEF WorkInv, TriesCohere
      <4> QED  BY <2>0, <2>1, <4>1 DEF Try
    <3> QED  BY <2>2, <3>1, <3>2 DEF WorkInv, TriesCohere, Has, Submit
  <2>4. HandsOver(o)'
    <3>1. \A v \in Worker : ~Finishes(v, o, Submit(next))
      <4>1. ~(next <= retryCount[o])
        BY <2>0, <2>1 DEF Try
      <4> QED  BY <2>1, <4>1 DEF WorkInv, TriesCohere, Finishes
    <3>2. Submit(retryCount[o])' = Submit(next) /\ Open(o, Submit(next))'
      BY <2>2 DEF Submit, Open
    <3>3. \A v \in Worker : ~Finishes(v, o, Submit(retryCount[o]))'
      BY <2>2, <3>1, <3>2 DEF Finishes, Has, At, Submit
    <3>4. Open(o, Submit(retryCount[o]))'
      BY <2>2 DEF Open, Submit
    <3> QED  BY <3>3, <3>4 DEF HandsOver
  <2>5. ASSUME NEW q \in Operation \ {o} PROVE HandsOver(q)'
    BY <1>t, <2>2, ElsewhereHandsOver DEF WorkInv, Finishes, Has, At
  <2> QED  BY <1>t, <2>3, <2>4, <2>5 DEF WorkInv
<1>9. ASSUME NEW o \in Operation, NEW n \in Try, ProviderSettles(o, n)
      PROVE  WorkInv'
  BY <1>t, <1>9, QuietHandsOver DEF ProviderSettles, rowVars, Has, Finishes, At
<1>10. ASSUME NEW o \in Operation, NEW n \in Try, NEW status \in RefundState,
              Webhook(o, n, status)
       PROVE  WorkInv'
  BY <1>t, <1>10, RecordHandsOver DEF Webhook, Has, Finishes, At
<1>11. CASE UNCHANGED vars
  BY <1>t, <1>11, QuietHandsOver DEF vars, rowVars, Has, Finishes, At
<1> QED
  BY <1>1, <1>2, <1>3, <1>5, <1>6, <1>7, <1>8, <1>9, <1>10, <1>11
  DEF Next, WorkerStep, HandlerStep, OperationStep, RetryLater, DeadLetter

\* While no handler outlives its lease, a refund that is not decided has an open
\* job, or one that was given up with an alert.
THEOREM StaysWorked == ~Overrun /\ Spec => []PendingIsWorked
<1> SUFFICES ASSUME ~Overrun PROVE Spec => []PendingIsWorked
  OBVIOUS
<1>1. WorkInv => PendingIsWorked
  BY DEF WorkInv, HandsOver, PendingIsWorked
<1>2. WorkInv /\ [Next]_vars => WorkInv'
  BY WorkNext
<1> QED  BY <1>1, <1>2, WorkInit, PTL DEF Spec
================================================================================
