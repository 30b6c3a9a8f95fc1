--------------------------- MODULE OperationBatch ---------------------------
(***************************************************************************)
(* What ConcurrentOperationRunner promises to whoever calls run(): every   *)
(* operation of a batch comes to an end once, before its result is         *)
(* reported, and nothing happens to it afterwards; success is reported     *)
(* only for what succeeded, while what succeeded may be reported as failed *)
(* (the caller canceled); the call returns when all is reported.  There    *)
(* are no threads, futures, events or watchers here.                       *)
(***************************************************************************)
CONSTANT Operations

VARIABLES
  open,    \* the operations whose result is not reported yet
  ended,   \* how each operation came out: "no" while it has not ended
  outcome  \* what the caller is told: "none", "true" or "false"

batchVars == <<open, ended, outcome>>

BatchInit ==
  /\ open = {}
  /\ ended = [op \in Operations |-> "no"]
  /\ outcome = [op \in Operations |-> "none"]

\* A new batch, once everything of the last one is reported.
Begin(batch) ==
  /\ open = {} /\ open' = batch
  /\ ended' = [op \in Operations |-> "no"]
  /\ outcome' = [op \in Operations |-> "none"]

\* An operation succeeds, or fails, or is given up before it began.
End(op) ==
  /\ op \in open /\ ended[op] = "no"
  /\ \E how \in {"succeeded", "failed"} : ended' = [ended EXCEPT ![op] = how]
  /\ UNCHANGED <<open, outcome>>

Report(op) ==
  /\ op \in open /\ ended[op] # "no"
  /\ open' = open \ {op}
  /\ \E told \in {"false"} \cup (IF ended[op] = "succeeded" THEN {"true"} ELSE {}) :
       outcome' = [outcome EXCEPT ![op] = told]
  /\ UNCHANGED ended

BatchNext ==
  \/ \E batch \in SUBSET Operations : Begin(batch)
  \/ \E op \in Operations : End(op) \/ Report(op)

BatchFairness ==
  \A op \in Operations : WF_batchVars(End(op)) /\ WF_batchVars(Report(op))

BatchSafety == BatchInit /\ [][BatchNext]_batchVars

BatchSpec == BatchSafety /\ BatchFairness
=============================================================================
