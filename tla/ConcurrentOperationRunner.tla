---------------------- MODULE ConcurrentOperationRunner ----------------------
(***************************************************************************)
(* QInstaller::ConcurrentOperationRunner: run() hands every operation of   *)
(* a batch to a thread pool, watches each future, and spins an event loop  *)
(* until the last watcher has been handled; cancel() cancels the futures   *)
(* that are still watched.                                                 *)
(*                                                                         *)
(* The pool threads (StartTask, SkipTask, EndTask) interleave with the     *)
(* thread that called run() (HandleFinished) and with whoever emits the    *)
(* signal connected to cancel() (Cancel).                                  *)
(***************************************************************************)
EXTENDS Naturals, FiniteSets

CONSTANTS Operations,       \* every operation that may be given to the runner
          MaxThreadCount    \* setMaxThreadCount()

ASSUME MaxThreadCountAssumption == MaxThreadCount \in Nat \ {0}

VARIABLES
  watched,    \* the operations that still have a future watcher
  task,       \* what the pool has done with each operation of the batch
  value,      \* what the operation returned to its thread
  canceled,   \* the operations whose future was canceled
  results,    \* m_results; "none" where the hash has no entry yet
  looping     \* run() is inside its event loop

runnerVars == <<watched, task, value, canceled, results, looping>>

TaskState == {"none", "queued", "running", "ended"}

RunnerTypeOK ==
  /\ watched \in SUBSET Operations
  /\ task \in [Operations -> TaskState]
  /\ value \in [Operations -> BOOLEAN]
  /\ canceled \in SUBSET Operations
  /\ results \in [Operations -> {"none", "true", "false"}]
  /\ looping \in BOOLEAN

RunnerInit ==
  /\ watched = {}
  /\ task = [op \in Operations |-> "none"]
  /\ value = [op \in Operations |-> FALSE]
  /\ canceled = {}
  /\ results = [op \in Operations |-> "none"]
  /\ looping = FALSE

Running == {op \in Operations : task[op] = "running"}

\* run(): reset(), one watcher and one pooled task per operation, then the
\* event loop, which is not entered for an empty batch.
Run(batch) ==
  /\ ~looping
  /\ watched' = batch
  /\ task' = [op \in Operations |-> IF op \in batch THEN "queued" ELSE "none"]
  /\ value' = [op \in Operations |-> FALSE]
  /\ canceled' = {}
  /\ results' = [op \in Operations |-> "none"]
  /\ looping' = (batch # {})

\* A pool thread takes a queued operation and enters runOperation().
StartTask(op) ==
  /\ task[op] = "queued" /\ op \notin canceled
  /\ Cardinality(Running) < MaxThreadCount
  /\ task' = [task EXCEPT ![op] = "running"]
  /\ UNCHANGED <<watched, value, canceled, results, looping>>

\* A pool thread takes an operation whose future is already canceled: it
\* reports the future finished and never calls the function.
SkipTask(op) ==
  /\ task[op] = "queued" /\ op \in canceled
  /\ Cardinality(Running) < MaxThreadCount
  /\ task' = [task EXCEPT ![op] = "ended"]
  /\ UNCHANGED <<watched, value, canceled, results, looping>>

\* runOperation() returns ok (FALSE also stands for an exception).
EndTask(op, ok) ==
  /\ task[op] = "running"
  /\ task' = [task EXCEPT ![op] = "ended"]
  /\ value' = [value EXCEPT ![op] = ok]
  /\ UNCHANGED <<watched, canceled, results, looping>>

\* onOperationfinished(): a canceled future stores FALSE, whatever the
\* operation did; the last watcher to go ends the event loop.
HandleFinished(op) ==
  /\ looping /\ op \in watched /\ task[op] = "ended"
  /\ results' = [results EXCEPT ![op] =
                   IF op \notin canceled /\ value[op] THEN "true" ELSE "false"]
  /\ watched' = watched \ {op}
  /\ looping' = (watched' # {})
  /\ UNCHANGED <<task, value, canceled>>

\* Mutation: cancel() takes the watchers of what has not begun away.
CancelUnwatched ==
  /\ canceled' = canceled \cup watched
  /\ watched' = {op \in watched : task[op] # "queued"} /\ looping' = (watched' # {})
  /\ UNCHANGED <<task, value, results>>

\* cancel(): every watcher that is left, of running operations too.
Cancel ==
  /\ canceled' = canceled \cup watched
  /\ UNCHANGED <<watched, task, value, results, looping>>

-----------------------------------------------------------------------------
RunnerNext ==
  \/ \E batch \in SUBSET Operations : Run(batch)
  \/ \E op \in Operations : StartTask(op) \/ SkipTask(op) \/ HandleFinished(op)
  \/ \E op \in Operations, ok \in BOOLEAN : EndTask(op, ok)
  \/ looping /\ Cancel

\* The pool runs every task and the event loop delivers every finished().
RunnerFairness ==
  \A op \in Operations :
    /\ WF_runnerVars(StartTask(op) \/ SkipTask(op))
    /\ WF_runnerVars(\E ok \in BOOLEAN : EndTask(op, ok))
    /\ WF_runnerVars(HandleFinished(op))

RunnerSpec == RunnerInit /\ [][RunnerNext]_runnerVars /\ RunnerFairness

-----------------------------------------------------------------------------
\* How the event loop follows the watchers: it is left with the last of them, an
\* operation that is not watched any more is over and has its result, and one
\* that is watched has none yet. (The inductive part of ReturnsWhenAllOver.)
WatchedUntilOver ==
  /\ looping <=> watched # {}
  /\ \A op \in Operations :
       op \notin watched /\ task[op] # "none" => task[op] = "ended" /\ results[op] # "none"
  /\ \A op \in watched : task[op] # "none" /\ results[op] = "none"

\* When run() has returned, every operation of the batch is over: none is
\* queued or running in the pool behind the caller's back, and each of them
\* has an entry in the results.
ReturnsWhenAllOver ==
  ~looping => \A op \in Operations :
                /\ task[op] \in {"none", "ended"}
                /\ task[op] = "ended" => results[op] # "none"

\* A result of TRUE is only given for an operation that ran and succeeded, so
\* a caller may treat it as performed.
TrueMeansSucceeded ==
  \A op \in Operations : results[op] = "true" => task[op] = "ended" /\ value[op]

\* The result of an operation is final: a late cancel() cannot change what
\* the caller was told about an operation that was already handled.
ResultsAreFinal ==
  [][looping => \A op \in Operations :
                   results[op] # "none" => results'[op] = results[op]]_runnerVars

\* run() always returns, canceled or not.
RunReturns == looping ~> ~looping

\* How an operation of the batch came out, as its future tells.
Ended ==
  [op \in Operations |->
     IF task[op] # "ended" THEN "no" ELSE IF value[op] THEN "succeeded" ELSE "failed"]

Batch == INSTANCE OperationBatch
           WITH open <- watched, ended <- Ended, outcome <- results

\* To its caller run() is a batch whose operations end and are reported one by
\* one: what cancel(), the pool and late events do stays within that, and no
\* operation runs once its result is known.
ImplementsBatch == Batch!BatchSpec
=============================================================================
