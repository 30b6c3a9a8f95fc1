------------------------ MODULE ExtractArchiveProofs ------------------------
(***************************************************************************)
(* Proofs about ConcurrentOperationRunner, for any set of operations, and  *)
(* about ExtractArchiveOperation, for any archives, any number of threads  *)
(* and any number of retries.                                              *)
(*                                                                         *)
(* The runner: the event loop of run() is entered and left together with   *)
(* the last watcher, an operation loses its watcher only once it is over,  *)
(* and an operation that is still watched has no result yet.               *)
(*                                                                         *)
(* The locking: a thread works for an operation only while the runner has  *)
(* it running or while the user's Retry does, so no thread begins while    *)
(* another still holds a path for the same operation; each step then       *)
(* either keeps what its thread holds, takes a free path, or gives its own *)
(* path back.                                                              *)
(*                                                                         *)
(* The files: backups are taken in the first batch only, when there are    *)
(* only files of the user, and a name that a thread has picked stays free  *)
(* as long as it holds the guard.  In the second batch a half written file *)
(* belongs to the thread that opened it last, and of the threads that may  *)
(* still write to it only that one is attached.  What a thread writes is   *)
(* told to the operation before, so the data file that undo reads has it.  *)
(***************************************************************************)
EXTENDS ExtractArchiveOperation, SequenceLemmas, FiniteSetTheorems, TLAPS

-----------------------------------------------------------------------------
(* The runner                                                              *)

\* Its inductive invariant.
RunnerInv == RunnerTypeOK /\ WatchedUntilOver /\ TrueMeansSucceeded

\* A runner that was never used satisfies the invariant.
LEMMA RunnerInvInit == RunnerInit => RunnerInv
  BY DEF RunnerInit, RunnerInv, RunnerTypeOK, TaskState, WatchedUntilOver,
         TrueMeansSucceeded

\* Type correctness is preserved by every step, whatever else holds.
LEMMA RunnerTypeStep == RunnerTypeOK /\ [RunnerNext]_runnerVars => RunnerTypeOK'
<1> SUFFICES ASSUME RunnerTypeOK, [RunnerNext]_runnerVars PROVE RunnerTypeOK'
  OBVIOUS
<1> USE DEF RunnerTypeOK, TaskState
<1>1. CASE \E batch \in SUBSET Operations : Run(batch)
  BY <1>1 DEF Run
<1>2. CASE \E op \in Operations : StartTask(op) \/ SkipTask(op)
  BY <1>2 DEF StartTask, SkipTask
<1>3. CASE \E op \in Operations : HandleFinished(op)
  BY <1>3 DEF HandleFinished
<1>4. CASE \E op \in Operations, ok \in BOOLEAN : EndTask(op, ok)
  BY <1>4 DEF EndTask
<1>5. CASE looping /\ Cancel
  BY <1>5 DEF Cancel
<1>6. CASE UNCHANGED runnerVars
  BY <1>6 DEF runnerVars
<1> QED
  BY <1>1, <1>2, <1>3, <1>4, <1>5, <1>6 DEF RunnerNext

\* Each step of the pool, of the event loop and of cancel() keeps the invariant.
LEMMA RunnerInvStep == RunnerInv /\ [RunnerNext]_runnerVars => RunnerInv'
<1> SUFFICES ASSUME RunnerInv, [RunnerNext]_runnerVars PROVE RunnerInv'
  OBVIOUS
<1>t. RunnerTypeOK'
  BY RunnerTypeStep DEF RunnerInv
<1> SUFFICES WatchedUntilOver' /\ TrueMeansSucceeded'
  BY <1>t DEF RunnerInv
<1> USE DEF RunnerInv, RunnerTypeOK, TaskState, WatchedUntilOver, TrueMeansSucceeded
<1>1. ASSUME NEW batch \in SUBSET Operations, Run(batch)
      PROVE  WatchedUntilOver' /\ TrueMeansSucceeded'
  BY <1>1 DEF Run
<1>2. ASSUME NEW op \in Operations, StartTask(op) \/ SkipTask(op)
      PROVE  WatchedUntilOver' /\ TrueMeansSucceeded'
  <2>1. op \in watched
    BY <1>2 DEF StartTask, SkipTask
  <2> QED
    BY <1>2, <2>1 DEF StartTask, SkipTask
<1>3. ASSUME NEW op \in Operations, HandleFinished(op)
      PROVE  WatchedUntilOver' /\ TrueMeansSucceeded'
  BY <1>3 DEF HandleFinished
<1>4. ASSUME NEW op \in Operations, NEW ok \in BOOLEAN, EndTask(op, ok)
      PROVE  WatchedUntilOver' /\ TrueMeansSucceeded'
  <2>1. op \in watched
    BY <1>4 DEF EndTask
  <2> QED
    BY <1>4, <2>1 DEF EndTask
<1>5. CASE looping /\ Cancel
  BY <1>5 DEF Cancel
<1>6. CASE UNCHANGED runnerVars
  BY <1>6 DEF runnerVars
<1> QED
  BY <1>1, <1>2, <1>3, <1>4, <1>5, <1>6 DEF RunnerNext

\* The inductive invariant of the runner, which the theorems are read off from.
LEMMA RunnerInvariant == RunnerSpec => []RunnerInv
  BY RunnerInvInit, RunnerInvStep, PTL DEF RunnerSpec

\* The state of the runner keeps its types.
THEOREM RunnerTypeCorrect == RunnerSpec => []RunnerTypeOK
  BY RunnerInvariant, PTL DEF RunnerInv

\* When run() has returned no operation of the batch is queued or running, and
\* each has a result, however many threads there are and whenever cancel() was
\* called.
THEOREM RunReturnsWhenAllOver == RunnerSpec => []ReturnsWhenAllOver
<1>1. RunnerInv => ReturnsWhenAllOver
  BY DEF RunnerInv, RunnerTypeOK, TaskState, WatchedUntilOver, ReturnsWhenAllOver
<1> QED
  BY <1>1, RunnerInvariant, PTL

\* A result of TRUE is given only for an operation that ran and succeeded.
THEOREM TrueResultsAreTrue == RunnerSpec => []TrueMeansSucceeded
  BY RunnerInvariant, PTL DEF RunnerInv

\* What the caller will read about an operation is fixed once the operation is
\* handled: no later cancel() changes it while run() has not returned.
THEOREM ResultsStay == RunnerSpec => ResultsAreFinal
<1> DEFINE Final == looping => \A op \in Operations :
                      results[op] # "none" => results'[op] = results[op]
<1>1. RunnerInv /\ [RunnerNext]_runnerVars => [Final]_runnerVars
  <2> SUFFICES ASSUME RunnerInv, RunnerNext, looping PROVE Final
    BY DEF runnerVars
  <2> USE DEF RunnerInv, RunnerTypeOK, WatchedUntilOver
  <2>1. CASE \E batch \in SUBSET Operations : Run(batch)
    BY <2>1 DEF Run
  <2>2. CASE \E op \in Operations : StartTask(op) \/ SkipTask(op)
    BY <2>2 DEF StartTask, SkipTask
  <2>3. CASE \E op \in Operations : HandleFinished(op)
    BY <2>3 DEF HandleFinished
  <2>4. CASE \E op \in Operations, ok \in BOOLEAN : EndTask(op, ok)
    BY <2>4 DEF EndTask
  <2>5. CASE looping /\ Cancel
    BY <2>5 DEF Cancel
  <2> QED
    BY <2>1, <2>2, <2>3, <2>4, <2>5 DEF RunnerNext
<1> QED
  BY <1>1, RunnerInvariant, PTL DEF RunnerSpec, ResultsAreFinal

\* A step of the pool or of the event loop is a step of the abstract batch, or
\* none of it: a started task and a cancel are not seen.
LEMMA RunnerStepIsBatchStep ==
  RunnerInv /\ [RunnerNext]_runnerVars => [Batch!BatchNext]_(Batch!batchVars)
<1> SUFFICES ASSUME RunnerInv, [RunnerNext]_runnerVars
             PROVE  [Batch!BatchNext]_(Batch!batchVars)
  OBVIOUS
<1> USE DEF RunnerInv, RunnerTypeOK, TaskState
<1>1. ASSUME NEW batch \in SUBSET Operations, Run(batch)
      PROVE  Batch!Begin(batch)
  <2>1. Ended' = [op \in Operations |-> "no"]
    BY <1>1 DEF Run, Ended
  <2> QED
    BY <1>1, <2>1 DEF Run, Batch!Begin, WatchedUntilOver
<1>2. ASSUME NEW op \in Operations, StartTask(op)
      PROVE  UNCHANGED <<watched, Ended, results>>
  <2>1. \A o \in Operations : (task'[o] = "ended") <=> (task[o] = "ended")
    BY <1>2 DEF StartTask
  <2> QED
    BY <1>2, <2>1 DEF StartTask, Ended
<1>3. ASSUME NEW op \in Operations, NEW ok \in BOOLEAN, SkipTask(op) \/ EndTask(op, ok)
      PROVE  Batch!End(op)
  <2> DEFINE how == IF value'[op] THEN "succeeded" ELSE "failed"
  <2>1. op \in watched /\ Ended[op] = "no"
    BY <1>3 DEF SkipTask, EndTask, Ended, WatchedUntilOver
  <2>2. Ended' = [Ended EXCEPT ![op] = how]
    <3>1. \A o \in Operations : o # op => task'[o] = task[o] /\ value'[o] = value[o]
      BY <1>3 DEF SkipTask, EndTask
    <3>2. task'[op] = "ended"
      BY <1>3 DEF SkipTask, EndTask
    <3> QED
      BY <3>1, <3>2 DEF Ended
  <2> QED
    BY <1>3, <2>1, <2>2 DEF SkipTask, EndTask, Batch!End
<1>4. ASSUME NEW op \in Operations, HandleFinished(op)
      PROVE  Batch!Report(op)
  <2>1. op \in watched /\ Ended[op] # "no" /\ Ended' = Ended
    BY <1>4 DEF HandleFinished, Ended
  <2>2. value[op] => Ended[op] = "succeeded"
    BY <1>4 DEF HandleFinished, Ended
  <2> QED
    BY <1>4, <2>1, <2>2 DEF HandleFinished, Batch!Report
<1>5. CASE Cancel
  BY <1>5 DEF Cancel, Ended, Batch!batchVars
<1>6. CASE UNCHANGED runnerVars
  BY <1>6 DEF runnerVars, Ended, Batch!batchVars
<1> QED
  BY <1>1, <1>2, <1>3, <1>4, <1>5, <1>6 DEF RunnerNext, Batch!BatchNext, Batch!batchVars

\* Seen by its caller, run() is an abstract batch: each operation ends once and
\* before its result is told, success is told only of what succeeded, and the
\* call returns with the last result. (That all are told in the end is liveness,
\* checked as part of ImplementsBatch.)
THEOREM RunnerIsBatch == RunnerSpec => Batch!BatchSafety
<1>1. RunnerInit => Batch!BatchInit
  BY DEF RunnerInit, Batch!BatchInit, Ended
<1> QED
  BY <1>1, RunnerStepIsBatchStep, RunnerInvariant, PTL DEF RunnerSpec, Batch!BatchSafety

-----------------------------------------------------------------------------
(* Who works, and who holds a path                                         *)

PlacesOK ==
  /\ at \in [Operations -> Backing \cup Writing \cup {"idle"}]
  /\ entry \in [Operations -> Nat]

\* A thread works for an operation only when the runner or a Retry runs it.
BusyAreRunning == \A op \in Operations : at[op] # "idle" => task[op] = "running" \/ stage = "retry"

\* Outside the two batches the runner is not in its event loop.
CallerWaits == stage \notin {"backup", "unpack"} => ~looping

\* Retry runs one operation at a time.
OneRetry ==
  stage = "retry" =>
    \A op1, op2 \in Operations : at[op1] # "idle" /\ at[op2] # "idle" => op1 = op2

ThreadsOK == PlacesOK /\ BusyAreRunning /\ CallerWaits /\ OneRetry

\* The inductive invariant of the guards.
GuardInv == RunnerInv /\ ThreadsOK /\ GuardsExclude

-----------------------------------------------------------------------------
(* What a step may do to the guards                                        *)

Holders == {o \in Operations : at[o] \in Holding}

\* A thread that holds nothing goes where it holds nothing.
LEMMA GuardIdle ==
  ASSUME PlacesOK, GuardsExclude, NEW op \in Operations,
         at[op] \notin Holding, at'[op] \notin Holding, paths' = paths,
         \A o \in Operations \ {op} : at'[o] = at[o] /\ entry'[o] = entry[o]
  PROVE  GuardsExclude'
<1>1. Holders' = Holders /\ op \notin Holders
  BY DEF Holders
<1>2. \A o \in Holders : FileOf(o)' = FileOf(o)
  BY <1>1 DEF Holders, FileOf
<1> QED
  BY <1>1, <1>2 DEF GuardsExclude, Holders

\* A thread that holds its path keeps it.
LEMMA GuardKept ==
  ASSUME PlacesOK, GuardsExclude, NEW op \in Operations,
         at[op] \in Holding, at'[op] \in Holding, paths' = paths, entry' = entry,
         \A o \in Operations \ {op} : at'[o] = at[o]
  PROVE  GuardsExclude'
<1>1. Holders' = Holders
  BY DEF Holders
<1>2. \A o \in Holders : FileOf(o)' = FileOf(o)
  BY <1>1 DEF Holders, FileOf
<1> QED
  BY <1>1, <1>2 DEF GuardsExclude, Holders

\* A thread takes its path when nobody holds it.
LEMMA GuardTaken ==
  ASSUME PlacesOK, GuardsExclude, NEW op \in Operations,
         at[op] \notin Holding, at'[op] \in Holding, TryLock(FileOf(op)), entry' = entry,
         \A o \in Operations \ {op} : at'[o] = at[o]
  PROVE  GuardsExclude'
<1>1. Holders' = Holders \cup {op}
  BY DEF Holders
<1>2. \A o \in Operations : FileOf(o)' = FileOf(o)
  BY DEF FileOf
<1>3. paths' = paths \cup {FileOf(op)} /\ \A o \in Holders : FileOf(o) # FileOf(op)
  BY DEF TryLock, GuardsExclude, Holders
<1> QED
  BY <1>1, <1>2, <1>3 DEF GuardsExclude, Holders

\* A thread gives back the path it holds, and may go on to its next entry.
LEMMA GuardReleased ==
  ASSUME PlacesOK, GuardsExclude, NEW op \in Operations,
         at[op] \in Holding, at'[op] \notin Holding, Release(FileOf(op)),
         \A o \in Operations \ {op} : at'[o] = at[o] /\ entry'[o] = entry[o]
  PROVE  GuardsExclude'
<1>1. Holders' = Holders \ {op}
  BY DEF Holders
<1>2. \A o \in Holders \ {op} : FileOf(o)' = FileOf(o)
  BY DEF FileOf, Holders
<1>3. paths' = paths \ {FileOf(op)} /\ \A o \in Holders \ {op} : FileOf(o) # FileOf(op)
  BY DEF Release, GuardsExclude, Holders
<1> QED
  BY <1>1, <1>2, <1>3 DEF GuardsExclude, Holders

-----------------------------------------------------------------------------
(* The runner below the operations                                         *)

\* Every step is a step of the runner or leaves it alone.
LEMMA StepIsRunnerStep == [ExtractionNext]_extractionVars => [RunnerNext]_runnerVars
<1> SUFFICES ASSUME [ExtractionNext]_extractionVars PROVE [RunnerNext]_runnerVars
  OBVIOUS
<1>1. CASE BackupAll \/ UnpackAll
  <2>1. Run(Operations) \/ UNCHANGED runnerVars
    BY <1>1 DEF BackupAll, UnpackAll
  <2> QED
    BY <2>1 DEF RunnerNext
<1>2. CASE CollectAll \/ Unpacked \/ RollBack \/ RolledBack
  BY <1>2 DEF CollectAll, Unpacked, RollBack, RolledBack
<1>3. CASE Interrupt
  BY <1>3 DEF Interrupt, RunnerNext
<1>4. ASSUME NEW op \in Operations, Collect(op) \/ Retry(op) \/ Undo(op)
      PROVE  UNCHANGED runnerVars
  BY <1>4 DEF Collect, Retry, Undo
<1>5. ASSUME NEW op \in Operations, Start(op) \/ Skip(op) \/ Handle(op) PROVE RunnerNext
  BY <1>5 DEF Start, Skip, Handle, RunnerNext
<1>6. ASSUME NEW op \in Operations, BackedUp(op) \/ CannotBackUp(op) \/ WorkerFinished(op)
      PROVE  [RunnerNext]_runnerVars
  <2>1. \/ EndTask(op, TRUE) \/ EndTask(op, Head(inbox[op]) = "finished")
        \/ UNCHANGED runnerVars
    BY <1>6 DEF BackedUp, CannotBackUp, WorkerFinished
  <2> QED
    BY <2>1 DEF RunnerNext
<1>7. ASSUME NEW op \in Operations,
             \/ Look(op) \/ LockBackup(op) \/ Pick(op) \/ Rename(op) \/ Proceed(op)
             \/ LockEntry(op) \/ CancelWaiting(op) \/ WriteHeader(op) \/ WriteData(op)
             \/ OpenStream(op) \/ WriteFirst(op) \/ WriteRest(op) \/ Complete(op)
             \/ BreakOff(op) \/ ReceiveEntry(op)
      PROVE  UNCHANGED runnerVars
  BY <1>7 DEF Look, LockBackup, Pick, Rename, Proceed, LockEntry, CancelWaiting, WriteHeader,
              WriteData, OpenStream, WriteFirst, WriteRest, Complete, BreakOff, ReceiveEntry
<1>8. CASE UNCHANGED extractionVars
  BY <1>8 DEF extractionVars
<1> QED
  BY <1>1, <1>2, <1>3, <1>4, <1>5, <1>6, <1>7, <1>8
     DEF ExtractionNext, ThreadStep, WorkerStep

\* No task of the pool is under way when the runner is not in its event loop.
LEMMA CallerAlone ==
  ASSUME RunnerInv, ~looping PROVE \A op \in Operations : task[op] \notin {"queued", "running"}
  BY DEF RunnerInv, RunnerTypeOK, WatchedUntilOver

-----------------------------------------------------------------------------
(* The steps                                                               *)

\* The main thread starts and leaves batches, and never in the middle of one.
LEMMA MainStep ==
  ASSUME GuardInv,
         \/ BackupAll \/ UnpackAll \/ CollectAll \/ Unpacked \/ RollBack \/ RolledBack
         \/ Interrupt \/ \E op \in Operations : Collect(op) \/ Undo(op)
  PROVE  ThreadsOK' /\ GuardsExclude'
<1> USE DEF GuardInv, ThreadsOK, PlacesOK, BusyAreRunning, CallerWaits, OneRetry
<1>g. at' = at /\ entry' = entry /\ paths' = paths
  BY DEF BackupAll, UnpackAll, CollectAll, Unpacked, RollBack, RolledBack, Interrupt, Collect,
         Undo, Idle, threadVars
<1>1. GuardsExclude'
  BY <1>g DEF GuardsExclude, FileOf
<1>2. CASE BackupAll \/ UnpackAll \/ CollectAll
  <2>1. \A op \in Operations : at[op] = "idle"
    BY <1>2, CallerAlone DEF BackupAll, UnpackAll, CollectAll
  <2> QED
    BY <1>1, <1>2, <1>g, <2>1 DEF BackupAll, UnpackAll, CollectAll, runnerVars
<1>3. CASE Unpacked \/ RollBack \/ RolledBack
  BY <1>1, <1>3, <1>g DEF Unpacked, RollBack, RolledBack, runnerVars
<1>4. CASE Interrupt
  <2>1. task' = task /\ looping' = looping /\ stage' = stage
    BY <1>4 DEF Interrupt, Cancel, runnerVars
  <2> QED
    BY <1>1, <1>g, <2>1
<1>5. ASSUME NEW op \in Operations, Collect(op) \/ Undo(op) PROVE ThreadsOK'
  <2>1. task' = task /\ looping' = looping /\ stage' = stage
    BY <1>5 DEF Collect, Undo, runnerVars
  <2> QED
    BY <1>g, <2>1
<1> QED
  BY <1>1, <1>2, <1>3, <1>4, <1>5

\* A thread begins for an operation nobody works for, and ends with what the
\* runner or the user waits for.
LEMMA BeginStep ==
  ASSUME GuardInv, NEW op \in Operations,
         Start(op) \/ Retry(op) \/ Skip(op) \/ Handle(op) \/ ReceiveEntry(op)
  PROVE  ThreadsOK' /\ GuardsExclude'
<1> USE DEF GuardInv, ThreadsOK, PlacesOK, BusyAreRunning, CallerWaits, OneRetry
<1>t. task \in [Operations -> TaskState]
  BY DEF RunnerInv, RunnerTypeOK
<1>1. CASE Start(op)
  <2>1. looping /\ stage \in {"backup", "unpack"}
    BY <1>1, CallerAlone DEF Start, StartTask
  <2>2. at[op] = "idle" /\ task' = [task EXCEPT ![op] = "running"]
    BY <1>1, <2>1 DEF Start, StartTask
  <2>3. /\ at' = [at EXCEPT ![op] = IF stage = "backup" THEN "look" ELSE "entry"]
        /\ entry' = entry /\ paths' = paths /\ stage' = stage /\ looping' = looping
    BY <1>1 DEF Start, StartTask, Enter, sessionVars
  <2>4. ThreadsOK'
    BY <1>t, <2>1, <2>2, <2>3 DEF Backing, Writing
  <2>5. GuardsExclude'
    BY <2>2, <2>3, GuardIdle DEF Holding
  <2> QED
    BY <2>4, <2>5
<1>2. CASE Retry(op)
  <2>1. \A o \in Operations : at[o] = "idle"
    BY <1>2, CallerAlone DEF Retry
  <2>2. /\ at' = [at EXCEPT ![op] = "entry"] /\ stage = "collect" /\ stage' = "retry"
        /\ entry' = entry /\ paths' = paths /\ looping' = looping
    BY <1>2 DEF Retry, Enter, runnerVars
  <2>3. ThreadsOK'
    BY <1>2, <2>1, <2>2 DEF Backing, Writing
  <2>4. GuardsExclude'
    BY <2>1, <2>2, GuardIdle DEF Holding
  <2> QED
    BY <2>3, <2>4
<1>3. CASE Skip(op) \/ Handle(op) \/ ReceiveEntry(op)
  <2>1. at' = at /\ entry' = entry /\ paths' = paths /\ stage' = stage
    BY <1>3 DEF Skip, Handle, ReceiveEntry, threadVars, sessionVars
  <2>2. GuardsExclude'
    BY <2>1 DEF GuardsExclude, FileOf
  <2>3. \A o \in Operations : task[o] = "running" => task'[o] = "running"
    BY <1>3, <1>t DEF Skip, SkipTask, Handle, HandleFinished, ReceiveEntry, runnerVars
  <2>4. looping' => looping
    BY <1>3 DEF Skip, SkipTask, Handle, HandleFinished, ReceiveEntry, runnerVars
  <2> QED
    BY <2>1, <2>2, <2>3, <2>4
<1> QED
  BY <1>1, <1>2, <1>3

\* A thread ends holding nothing.
LEMMA EndStep ==
  ASSUME GuardInv, NEW op \in Operations,
         BackedUp(op) \/ CannotBackUp(op) \/ WorkerFinished(op)
  PROVE  ThreadsOK' /\ GuardsExclude'
<1> USE DEF GuardInv, ThreadsOK, PlacesOK, BusyAreRunning, CallerWaits, OneRetry
<1>t. task \in [Operations -> TaskState]
  BY DEF RunnerInv, RunnerTypeOK
<1>1. /\ at[op] \in {"look", "done"} /\ at' = [at EXCEPT ![op] = "idle"]
      /\ entry' = [entry EXCEPT ![op] = 1] /\ paths' = paths
  BY DEF BackedUp, CannotBackUp, WorkerFinished, Leave
<1>2. GuardsExclude'
  BY <1>1, GuardIdle DEF Holding
<1>3. PlacesOK'
  BY <1>1
<1>4. CASE stage' = stage /\ \E ok \in BOOLEAN : EndTask(op, ok)
  BY <1>t, <1>1, <1>2, <1>3, <1>4 DEF EndTask
<1>5. CASE stage = "retry" /\ stage' = "collect" /\ UNCHANGED runnerVars
  BY <1>1, <1>2, <1>3, <1>5 DEF runnerVars
<1>6. \/ stage' = stage /\ \E ok \in BOOLEAN : EndTask(op, ok)
      \/ stage = "retry" /\ stage' = "collect" /\ UNCHANGED runnerVars
  BY DEF BackedUp, CannotBackUp, WorkerFinished, sessionVars
<1> QED
  BY <1>4, <1>5, <1>6

\* The other steps of a thread leave the runner and the main thread alone.
LEMMA WorkStep ==
  ASSUME GuardInv, NEW op \in Operations, UNCHANGED runnerVars, stage' = stage,
         at[op] # "idle", at' \in [Operations -> Backing \cup Writing \cup {"idle"}],
         entry' \in [Operations -> Nat], \A o \in Operations \ {op} : at'[o] = at[o]
  PROVE  ThreadsOK'
<1> USE DEF GuardInv, ThreadsOK, PlacesOK, BusyAreRunning, CallerWaits, OneRetry
<1>1. \A o \in Operations : at'[o] # "idle" => at[o] # "idle"
  OBVIOUS
<1> QED
  BY <1>1 DEF runnerVars

\* Where a thread is while it backs up or extracts: entries go by, and the guard
\* of the entry at hand is taken, kept or given back.
LEMMA GuardStep ==
  ASSUME GuardInv, NEW op \in Operations, WorkerStep(op),
         ~BackedUp(op), ~CannotBackUp(op)
  PROVE  ThreadsOK' /\ GuardsExclude'
<1> USE DEF GuardInv, ThreadsOK, PlacesOK
<1>r. UNCHANGED runnerVars /\ stage' = stage
  BY DEF WorkerStep, Look, LockBackup, Pick, Rename, Proceed, LockEntry, CancelWaiting,
         WriteHeader, WriteData, OpenStream, WriteFirst, WriteRest, Complete, BreakOff, sessionVars
<1>1. CASE Look(op)
  <2>1. /\ at[op] = "look" /\ paths' = paths
        /\ at' = at \/ at' = [at EXCEPT ![op] = "guard"]
        /\ entry' = entry \/ entry' = [entry EXCEPT ![op] = @ + 1]
    BY <1>1 DEF Look, At, NextEntry
  <2>2. at'[op] \in {"look", "guard"}
    BY <2>1
  <2>3. GuardsExclude'
    BY <2>1, <2>2, GuardIdle DEF Holding
  <2> QED
    BY <1>r, <2>1, <2>3, WorkStep DEF Backing
<1>2. CASE LockBackup(op) \/ LockEntry(op)
  <2>1. PICK place \in {"pick", "open", "header"} : at' = [at EXCEPT ![op] = place]
    BY <1>2 DEF LockBackup, LockEntry, At
  <2>2. at[op] \in {"guard", "wait"} /\ TryLock(FileOf(op)) /\ entry' = entry
    BY <1>2 DEF LockBackup, LockEntry
  <2>3. GuardsExclude'
    BY <2>1, <2>2, GuardTaken DEF Holding
  <2> QED
    BY <1>r, <2>1, <2>2, <2>3, WorkStep DEF Backing, Writing
<1>3. CASE Pick(op) \/ WriteHeader(op)
  <2>1. PICK place \in {"rename", "data"} : at' = [at EXCEPT ![op] = place]
    BY <1>3 DEF Pick, WriteHeader, At
  <2>2. at[op] \in {"pick", "header"} /\ entry' = entry /\ paths' = paths
    BY <1>3 DEF Pick, WriteHeader
  <2>3. GuardsExclude'
    BY <2>1, <2>2, GuardKept DEF Holding
  <2> QED
    BY <1>r, <2>1, <2>2, <2>3, WorkStep DEF Backing, Writing
<1>4. CASE Rename(op) \/ WriteData(op) \/ OpenStream(op)
  <2>1. PICK place \in {"look", "entry", "first"} : at' = [at EXCEPT ![op] = place]
    BY <1>4 DEF Rename, WriteData, OpenStream, At
  <2>2. at[op] \in {"rename", "data", "open"} /\ Release(FileOf(op))
    BY <1>4 DEF Rename, WriteData, OpenStream
  <2>3. entry' = entry \/ entry' = [entry EXCEPT ![op] = @ + 1]
    BY <1>4 DEF Rename, WriteData, OpenStream, NextEntry
  <2>4. GuardsExclude'
    BY <2>1, <2>2, <2>3, GuardReleased DEF Holding
  <2> QED
    BY <1>r, <2>1, <2>2, <2>3, <2>4, WorkStep DEF Backing, Writing
<1>5. CASE Proceed(op) \/ WriteFirst(op) \/ WriteRest(op) \/ Complete(op)
  <2>1. PICK place \in {"wait", "rest", "entry", "done"} : at' = [at EXCEPT ![op] = place]
    BY <1>5 DEF Proceed, WriteFirst, WriteRest, Complete, At
  <2>2. at[op] \in {"entry", "first", "rest"} /\ paths' = paths
    BY <1>5 DEF Proceed, WriteFirst, WriteRest, Complete
  <2>3. entry' = entry \/ entry' = [entry EXCEPT ![op] = @ + 1]
    BY <1>5 DEF Proceed, WriteFirst, WriteRest, Complete, NextEntry
  <2>4. GuardsExclude'
    BY <2>1, <2>2, <2>3, GuardIdle DEF Holding
  <2> QED
    BY <1>r, <2>1, <2>2, <2>3, <2>4, WorkStep DEF Backing, Writing
<1>6. CASE BreakOff(op)
  <2>1. at' = [at EXCEPT ![op] = "done"] /\ entry' = entry
    BY <1>6 DEF BreakOff, At
  <2>2. IF at[op] \in Holding THEN Release(FileOf(op)) ELSE paths' = paths
    BY <1>6 DEF BreakOff
  <2>3. at'[op] \notin Holding /\ \A o \in Operations \ {op} : at'[o] = at[o] /\ entry'[o] = entry[o]
    BY <2>1 DEF Holding
  <2>4. ASSUME at[op] \in Holding PROVE GuardsExclude'
    BY <2>2, <2>3, <2>4, GuardReleased
  <2>5. ASSUME at[op] \notin Holding PROVE GuardsExclude'
    BY <2>2, <2>3, <2>5, GuardIdle
  <2>6. at[op] # "idle"
    BY <1>6 DEF BreakOff
  <2> QED
    BY <1>r, <2>1, <2>4, <2>5, <2>6, WorkStep DEF Writing
<1>7. CASE CancelWaiting(op)
  <2>1. at' = at /\ entry' = entry /\ paths' = paths /\ at[op] # "idle"
    BY <1>7 DEF CancelWaiting
  <2>2. GuardsExclude'
    BY <2>1 DEF GuardsExclude, FileOf
  <2> QED
    BY <1>r, <2>1, <2>2, WorkStep
<1> QED
  BY <1>1, <1>2, <1>3, <1>4, <1>5, <1>6, <1>7 DEF WorkerStep

\* The invariant holds before anything is started.
LEMMA GuardInvInit == ExtractionInit => GuardInv
<1> SUFFICES ASSUME ExtractionInit PROVE GuardInv
  OBVIOUS
<1>1. RunnerInv
  BY RunnerInvInit DEF ExtractionInit
<1>2. ThreadsOK
  BY DEF ExtractionInit, ThreadsOK, PlacesOK, BusyAreRunning, CallerWaits, OneRetry, RunnerInit
<1>3. GuardsExclude
  BY DEF ExtractionInit, GuardsExclude, Holding
<1> QED
  BY <1>1, <1>2, <1>3 DEF GuardInv

\* The invariant is inductive.
LEMMA GuardInvStep == GuardInv /\ [ExtractionNext]_extractionVars => GuardInv'
<1> SUFFICES ASSUME GuardInv, [ExtractionNext]_extractionVars PROVE GuardInv'
  OBVIOUS
<1>1. RunnerInv'
  BY StepIsRunnerStep, RunnerInvStep DEF GuardInv
<1>2. CASE UNCHANGED extractionVars
  BY <1>1, <1>2 DEF GuardInv, ThreadsOK, PlacesOK, BusyAreRunning, CallerWaits, OneRetry,
                    GuardsExclude, FileOf, extractionVars, threadVars, sessionVars, runnerVars
<1>3. CASE ExtractionNext
  <2>1. ThreadsOK' /\ GuardsExclude'
    BY <1>3, MainStep, BeginStep, EndStep, GuardStep DEF ExtractionNext, ThreadStep, WorkerStep
  <2> QED
    BY <1>1, <2>1 DEF GuardInv
<1> QED
  BY <1>2, <1>3

\* FileGuard does its work for every number of archives and threads: two threads
\* never hold the same path, and no thread ends, fails or is canceled with one.
THEOREM GuardsAlwaysExclude == ExtractionSpec => []GuardsExclude
<1>1. GuardInv => GuardsExclude
  BY DEF GuardInv
<1> QED
  BY <1>1, GuardInvInit, GuardInvStep, PTL DEF ExtractionSpec

-----------------------------------------------------------------------------
(* The files: what backups, extraction and undo leave of them              *)

\* The name of the entry at hand was told to the pool thread.
Posted(op) == {inbox[op][k] : k \in 1..Len(inbox[op])}
Told(op) == extracted[op] \cup Posted(op)

\* Backups are taken in the first batch only, entries are written in the second
\* and by Retry, and never again for an archive that was extracted.
PlaceOf(op) ==
  /\ at[op] \in Backing => stage = "backup"
  /\ at[op] \in Writing => stage \in {"unpack", "retry"} /\ op \notin succeeded
  /\ at[op] \notin {"idle", "look", "entry", "done"} => More(op)
  /\ at[op] = "idle" => entry[op] = 1
  /\ at[op] \in {"header", "data"} => op \notin SevenZip
  /\ at[op] \in {"open", "first", "rest"} => op \in SevenZip

PlacesInStep == \A op \in Operations : PlaceOf(op)

\* A succeeded operation has a result of TRUE, unless the user canceled it
\* meanwhile; so none of them is retried.
ResultsInStep ==
  /\ stage \in {"ready", "backup"} => succeeded = {}
  /\ canceled # {} => interrupted
  /\ stage = "unpack" => \A op \in Operations :
       /\ task[op] # "none" /\ (op \in succeeded => task[op] = "ended" /\ value[op])
       /\ results[op] = "false" => op \in canceled \/ ~value[op]
  /\ stage \in {"collect", "retry"} =>
       \A op \in left \cap succeeded : results[op] = "true" \/ interrupted

\* The worker posts names of its archive, and last how it ended; "finished" only
\* when it went through all entries.  A file is told before it is written to.
MessagesOf(op) ==
  /\ extracted[op] \subseteq EntriesOf(op)
  /\ \A k \in 1..Len(inbox[op]) :
       IF at[op] = "done" /\ k = Len(inbox[op]) THEN inbox[op][k] \in {"finished", "failed"}
       ELSE inbox[op][k] \in EntriesOf(op)
  /\ at[op] = "done" => inbox[op] # <<>>
  /\ at[op] = "done" /\ inbox[op][Len(inbox[op])] = "finished" => ~More(op)
  /\ at[op] \notin Writing => inbox[op] = <<>>
  /\ \/ at[op] \in {"wait", "header", "data"} /\ op \notin SevenZip
     \/ at[op] \in {"first", "rest"}
     => FileOf(op) \in Told(op)

MessagesInStep == \A op \in Operations : MessagesOf(op)

\* What an operation has set aside is its own, under one name for each file, and
\* was one of the entries it has gone by.
BackupsOwned ==
  \A op \in Operations : \A b \in backups[op] :
    /\ b[1] \in EntriesOf(op) /\ (b[2] = 0 => b[1] \notin Leftovers)
    /\ \A c \in backups[op] : c[1] = b[1] => c = b
    /\ at[op] \in Backing => \E k \in 1..(entry[op] - 1) : Entries[op][k] = b[1]

\* A name that exists is a copy of an earlier session or the backup of one
\* operation, and the name a thread has picked does not exist.
NamesInStep ==
  /\ \A f \in Files, i \in BackupNumbers :
       /\ aside[f][i] = By(None) <=> i = 0 /\ f \in Leftovers
       /\ aside[f][i] \in {NoFile, By(User), By(None)}
       /\ aside[f][i] = By(User) => \E op \in Operations :
            {o \in Operations : <<f, i>> \in backups[o]} = {op}
  /\ \A op \in Operations : at[op] = "rename" => aside[FileOf(op)][picked[op]] = NoFile

\* Until something is extracted there are only files of the user, and a file that
\* was noted without being moved is gone.
BackupStage ==
  /\ stage = "ready" => \A op \in Operations : backups[op] = {}
  /\ stage = "backup" => \A op \in Operations : task[op] = "queued" => backups[op] = {}
  /\ stage \in {"ready", "backup"} =>
       /\ \A f \in Files : file[f] \in {NoFile, By(User)}
       /\ \A op \in Operations : \A b \in backups[op] :
            file[b[1]] = NoFile \/ aside[b[1]][b[2]] # NoFile

BackupInv == BackupsOwned /\ NamesInStep /\ BackupStage

\* Before a batch has extracted, nothing is listed; after, the data file of an
\* archive that has its own is what the last attempt was told of.
ListsInStep ==
  /\ stage \in {"ready", "backup"} => /\ \A op \in Operations : extracted[op] = {}
                                      /\ \A n \in Names : list[n] = {}
  /\ \A op \in Operations :
       OwnList(op) /\ at[op] \notin Writing /\ op \notin undone => list[ListOf[op]] = extracted[op]
  /\ \A n \in Names : \A f \in list[n] : \E op \in Sharing(f) : op \in succeeded \cup failed
  /\ undone # {} => stage \in {"undo", "over"}

\* What an operation wrote was told to the thread that undoes it, and a stream
\* writes to a file that is there.
TracesTold ==
  \A op \in Operations :
    /\ \A f \in Files : Leaves(op, f) => f \in earlier[op] \cup Told(op)
    /\ attached[op] => at[op] \in {"first", "rest"} /\ file[FileOf(op)] # NoFile

\* The operation has extracted the file, in this attempt or for good.
Past(op, f) ==
  /\ op \in Sharing(f)
  /\ \/ op \in succeeded
     \/ at[op] \in Writing /\ \E k \in 1..(entry[op] - 1) : Entries[op][k] = f

\* Half of it may be extracted.
Opened(op, f) ==
  \/ Past(op, f)
  \/ at[op] \in {"data", "first", "rest"} /\ FileOf(op) = f

\* A file that one archive has got to was written by one of those that share it,
\* and stays half written only by one that is not past it.
WholeAt(f) ==
  /\ \A x \in Operations : Opened(x, f) =>
       \E y \in Sharing(f) : file[f] = By(y) \/ file[f] = <<y, None>>
  /\ \A y \in Operations :
       /\ file[f] = <<y, None>> => ~Past(y, f)
       /\ at[y] = "data" /\ FileOf(y) = f => file[f] = <<y, None>>
       /\ at[y] \in {"first", "rest"} /\ FileOf(y) = f =>
            (attached[y] <=> file[f] = <<y, None>>)

WholeInStep ==
  stage \notin {"undo", "over"} =>
    \A f \in Files : Cardinality(Sharing(f) \cap SevenZip) <= 1 => WholeAt(f)

\* The inductive invariant.
ExtractInv ==
  /\ ExtractionTypeOK /\ GuardInv /\ PlacesInStep /\ ResultsInStep /\ MessagesInStep
  /\ BackupInv /\ ListsInStep /\ TracesTold /\ WholeInStep
  /\ UserFilesAccounted /\ UndoRemovesAll

-----------------------------------------------------------------------------
(* Names and types                                                         *)

\* The entry at hand is a file of the archive.
LEMMA EntryAtHand ==
  ASSUME ExtractionTypeOK, NEW op \in Operations, More(op)
  PROVE  /\ FileOf(op) \in Files /\ FileOf(op) \in EntriesOf(op)
         /\ entry[op] \in 1..Len(Entries[op]) /\ entry[op] + 1 \in 1..(Len(Entries[op]) + 1)
<1>1. Entries[op] \in Seq(Files) /\ entry[op] \in 1..(Len(Entries[op]) + 1)
  BY ExtractionAssumption DEF ExtractionTypeOK
<1>2. Len(Entries[op]) \in Nat /\ DOMAIN Entries[op] = 1..Len(Entries[op])
  BY <1>1, LenProperties
<1>3. entry[op] \in DOMAIN Entries[op]
  BY <1>1, <1>2 DEF More
<1> QED
  BY <1>1, <1>2, <1>3 DEF FileOf, EntriesOf

\* An archive has files, each once.
LEMMA EntriesFacts ==
  ASSUME NEW op \in Operations
  PROVE  /\ Len(Entries[op]) \in Nat /\ DOMAIN Entries[op] = 1..Len(Entries[op])
         /\ EntriesOf(op) \subseteq Files
         /\ \A i, j \in 1..Len(Entries[op]) : Entries[op][i] = Entries[op][j] => i = j
<1>1. Entries[op] \in Seq(Files)
  BY ExtractionAssumption
<1>2. Len(Entries[op]) \in Nat /\ DOMAIN Entries[op] = 1..Len(Entries[op])
  BY <1>1, LenProperties
<1>3. \A i \in DOMAIN Entries[op] : Entries[op][i] \in Files
  BY <1>1, <1>2, ElementOfSeq
<1> QED
  BY <1>2, <1>3, ExtractionAssumption DEF EntriesOf

\* The number of the backup names: zero and one for each operation.
LEMMA BackupNumbersFacts ==
  /\ Cardinality(Operations) \in Nat /\ BackupNumbers \subseteq Nat /\ 0 \in BackupNumbers
<1>1. Cardinality(Operations) \in Nat
  BY ExtractionAssumption, FS_CardinalityType
<1> QED
  BY <1>1 DEF BackupNumbers

\* generateBackupName() finds a name that does not exist: there are as many as
\* threads that may have taken one before, and one for an earlier session.
LEMMA FreeNameExists ==
  ASSUME ExtractionTypeOK, PlacesInStep, BackupInv, NEW op \in Operations, at[op] = "pick"
  PROVE  FreeName(FileOf(op)) \in BackupNumbers /\ aside[FileOf(op)][FreeName(FileOf(op))] = NoFile
<1> DEFINE f == FileOf(op)
           N == Cardinality(Operations)
           Free == {i \in BackupNumbers : aside[f][i] = NoFile}
           owner == [i \in 1..N |-> CHOOSE o \in Operations : <<f, i>> \in backups[o]]
<1>1. More(op)
  BY DEF PlacesInStep, PlaceOf
<1>2. f \in Files /\ entry[op] \in 1..Len(Entries[op])
  BY <1>1, EntryAtHand
<1>3. N \in Nat /\ BackupNumbers = 0..N
  BY BackupNumbersFacts DEF BackupNumbers
<1> HIDE DEF f
<1>4. \A b \in backups[op] : b[1] # f
  <2> SUFFICES ASSUME NEW b \in backups[op], b[1] = f PROVE FALSE
    OBVIOUS
  <2>1. PICK k \in 1..(entry[op] - 1) : Entries[op][k] = f
    BY DEF BackupInv, BackupsOwned, Backing
  <2>2. Entries[op][entry[op]] = f
    BY DEF f, FileOf
  <2> QED
    BY <1>2, <2>1, <2>2, EntriesFacts
<1>5. Free # {}
  <2> SUFFICES ASSUME Free = {} PROVE FALSE
    OBVIOUS
  <2>1. \A i \in 1..N : \E o \in Operations : <<f, i>> \in backups[o]
    <3> SUFFICES ASSUME NEW i \in 1..N PROVE \E o \in Operations : <<f, i>> \in backups[o]
      OBVIOUS
    <3>1. i \in BackupNumbers /\ i # 0 /\ aside[f][i] # NoFile
      BY <1>3
    <3>2. aside[f][i] = By(User)
      BY <1>2, <3>1 DEF BackupInv, NamesInStep
    <3> QED
      BY <1>2, <3>1, <3>2 DEF BackupInv, NamesInStep
  <2>2. \A i \in 1..N : owner[i] \in Operations \ {op} /\ <<f, i>> \in backups[owner[i]]
    <3> SUFFICES ASSUME NEW i \in 1..N
                 PROVE  owner[i] \in Operations \ {op} /\ <<f, i>> \in backups[owner[i]]
      OBVIOUS
    <3>1. owner[i] \in Operations /\ <<f, i>> \in backups[owner[i]]
      BY <2>1
    <3>2. <<f, i>>[1] = f
      OBVIOUS
    <3> QED
      BY <1>4, <3>1, <3>2
  <2>3. owner \in [1..N -> Operations \ {op}]
    BY <2>2
  <2>4. /\ IsFiniteSet(1..N) /\ Cardinality(1..N) = N
    BY <1>3, FS_Interval
  <2>5. IsFiniteSet(Operations \ {op}) /\ Cardinality(Operations \ {op}) = N - 1
    BY ExtractionAssumption, FS_RemoveElement
  <2> HIDE DEF owner
  <2>6. PICK x, y \in 1..N : x # y /\ owner[x] = owner[y]
    BY <1>3, <2>3, <2>4, <2>5, FS_PigeonHole
  <2>7. <<f, x>> \in backups[owner[x]] /\ <<f, y>> \in backups[owner[x]] /\ owner[x] \in Operations
    BY <2>2, <2>6
  <2>8. <<f, x>>[1] = <<f, y>>[1]
    OBVIOUS
  <2>9. <<f, x>> = <<f, y>>
    BY <2>7, <2>8 DEF BackupInv, BackupsOwned
  <2> QED
    BY <2>6, <2>9
<1>6. PICK m \in Free : \A k \in Free : m <= k
  <2>1. Free \subseteq Nat
    BY <1>3
  <2> HIDE DEF Free
  <2> QED
    BY <1>5, <2>1, LeastNatural
<1>7. m \in BackupNumbers /\ aside[f][m] = NoFile
  OBVIOUS
<1>8. \A j \in 0..(m - 1) : aside[f][j] # NoFile
  <2> SUFFICES ASSUME NEW j \in 0..(m - 1), aside[f][j] = NoFile PROVE FALSE
    OBVIOUS
  <2>1. j \in Free
    BY <1>3, <1>7
  <2> QED
    BY <1>3, <1>6, <1>7, <2>1
<1>9. \E i \in BackupNumbers : aside[f][i] = NoFile /\ \A j \in 0..(i - 1) : aside[f][j] # NoFile
  BY <1>7, <1>8
<1> QED
  BY <1>9 DEF FreeName, f

\* What an operation writes is a content.
LEMMA ContentsFacts ==
  /\ NoFile \in Contents /\ By(User) \in Contents /\ By(None) \in Contents
  /\ \A op \in Operations : By(op) \in Contents /\ <<op, None>> \in Contents
  /\ \A op \in Operations, c \in Contents :
       c # NoFile => [c EXCEPT ![1] = op] \in Contents /\ [c EXCEPT ![2] = op] \in Contents
  BY DEF NoFile, Contents, By

\* The main thread keeps the types.
LEMMA MainType ==
  ASSUME ExtractInv,
         \/ BackupAll \/ UnpackAll \/ CollectAll \/ Unpacked \/ RollBack \/ RolledBack \/ Interrupt
         \/ \E op \in Operations : Collect(op) \/ Retry(op) \/ Undo(op),
         RunnerTypeOK'
  PROVE  ExtractionTypeOK'
<1> USE DEF ExtractInv, ExtractionTypeOK
<1>1. CASE BackupAll \/ UnpackAll \/ CollectAll \/ Unpacked \/ RollBack \/ RolledBack
  BY <1>1 DEF BackupAll, UnpackAll, CollectAll, Unpacked, RollBack, RolledBack, Idle,
              threadVars, outcomeVars, diskVars
<1>2. CASE Interrupt
  BY <1>2 DEF Interrupt, outcomeVars, diskVars
<1>3. ASSUME NEW op \in Operations, Collect(op) PROVE ExtractionTypeOK'
  BY <1>3 DEF Collect, Idle, threadVars, outcomeVars, diskVars
<1>4. ASSUME NEW op \in Operations, Retry(op) PROVE ExtractionTypeOK'
  <2>1. retries' \in 0..MaxRetries
    BY <1>4, ExtractionAssumption DEF Retry
  <2> QED
    BY <1>4, <2>1 DEF Retry, Enter, diskVars, Writing
<1>5. ASSUME NEW op \in Operations, Undo(op) PROVE ExtractionTypeOK'
  <2>1. file' \in [Files -> Contents]
    BY <1>5, ContentsFacts DEF Undo
  <2>2. list' \in [Names -> SUBSET Files]
    BY <1>5 DEF Undo, Names
  <2> QED
    BY <1>5, <2>1, <2>2 DEF Undo, threadVars, outcomeVars
<1> QED
  BY <1>1, <1>2, <1>3, <1>4, <1>5

\* So do the steps that begin and end the work for an operation, and the events.
LEMMA BeginType ==
  ASSUME ExtractInv, NEW op \in Operations, RunnerTypeOK',
         \/ Start(op) \/ Skip(op) \/ Handle(op) \/ ReceiveEntry(op)
         \/ BackedUp(op) \/ CannotBackUp(op) \/ WorkerFinished(op)
  PROVE  ExtractionTypeOK'
<1> USE DEF ExtractInv, ExtractionTypeOK
<1>1. CASE Start(op)
  BY <1>1 DEF Start, Enter, sessionVars, diskVars, Backing, Writing
<1>2. CASE Skip(op) \/ Handle(op)
  BY <1>2 DEF Skip, Handle, sessionVars, threadVars, outcomeVars, diskVars
<1>3. CASE ReceiveEntry(op)
  <2>1. Tail(inbox[op]) \in Seq(Events)
    BY <1>3 DEF ReceiveEntry
  <2> QED
    BY <1>3, <2>1 DEF ReceiveEntry, sessionVars, outcomeVars, diskVars
<1>l. ASSUME Leave(op)
      PROVE  /\ at' \in [Operations -> Backing \cup Writing \cup {"idle"}]
             /\ entry' \in [Operations -> Nat]
             /\ \A o \in Operations : entry'[o] \in 1..(Len(Entries[o]) + 1)
             /\ stop' \in [Operations -> {"no", "posted", "seen"}]
             /\ inbox' \in [Operations -> Seq(Events)]
             /\ picked' \in [Operations -> BackupNumbers]
  <2>1. 1 \in 1..(Len(Entries[op]) + 1) /\ 0 \in BackupNumbers
    BY EntriesFacts, BackupNumbersFacts
  <2> QED
    BY <1>l, <2>1 DEF Leave
<1>4. CASE BackedUp(op) \/ CannotBackUp(op)
  BY <1>4, <1>l DEF BackedUp, CannotBackUp, sessionVars, outcomeVars, diskVars
<1>5. CASE WorkerFinished(op)
  <2>1. aside' \in [Files -> [BackupNumbers -> Contents]]
    BY <1>5, ContentsFacts DEF WorkerFinished
  <2>2. list' \in [Names -> SUBSET Files]
    BY <1>5 DEF WorkerFinished, Names
  <2>3. stage' \in {stage, "collect"} /\ left' \in SUBSET Operations /\ recorded' \in SUBSET Operations
    BY <1>5 DEF WorkerFinished
  <2>4. failed' \in SUBSET Operations /\ succeeded' \in SUBSET Operations
    BY <1>5 DEF WorkerFinished
  <2> QED
    BY <1>5, <1>l, <2>1, <2>2, <2>3, <2>4 DEF WorkerFinished
<1> QED
  BY <1>1, <1>2, <1>3, <1>4, <1>5

\* What rename() can have done with the file at hand: moved it to the name that
\* was picked, only noted the name because the file is gone, or left it.
NowBackup(op) == backups' = [backups EXCEPT ![op] = @ \cup {<<FileOf(op), picked[op]>>}]

Moved(op) ==
  /\ file[FileOf(op)] # NoFile /\ aside[FileOf(op)][picked[op]] = NoFile /\ NowBackup(op)
  /\ file' = [file EXCEPT ![FileOf(op)] = NoFile]
  /\ aside' = [f \in Files |-> [i \in BackupNumbers |->
       IF f = FileOf(op) /\ i = picked[op] THEN file[f] ELSE aside[f][i]]]

NotedOnly(op) == file[FileOf(op)] = NoFile /\ UNCHANGED <<file, aside>> /\ NowBackup(op)

Stayed(op) == UNCHANGED <<file, aside, backups>>

LEMMA RenameOutcome ==
  ASSUME ExtractionTypeOK, NEW op \in Operations, Rename(op), More(op)
  PROVE  Moved(op) \/ NotedOnly(op) \/ Stayed(op)
<1>1. FileOf(op) \in Files /\ picked[op] \in BackupNumbers
  BY EntryAtHand DEF ExtractionTypeOK
<1> DEFINE f == FileOf(op)
           i == picked[op]
<1>2. ASSUME aside' = [aside EXCEPT ![f][i] = file[f]]
      PROVE  aside' = [g \in Files |-> [j \in BackupNumbers |->
               IF g = f /\ j = i THEN file[g] ELSE aside[g][j]]]
  <2>1. aside \in [Files -> [BackupNumbers -> Contents]]
    BY DEF ExtractionTypeOK
  <2> QED
    BY <1>1, <1>2, <2>1
<1> QED
  BY <1>2 DEF Rename, Moved, NotedOnly, Stayed, NowBackup

\* And those that back up and extract the entries.
LEMMA WorkType ==
  ASSUME ExtractInv, NEW op \in Operations, RunnerTypeOK', WorkerStep(op),
         ~BackedUp(op), ~CannotBackUp(op)
  PROVE  ExtractionTypeOK'
<1> USE DEF ExtractInv, ExtractionTypeOK
<1>n. ASSUME More(op), NextEntry(op)
      PROVE  /\ entry' \in [Operations -> Nat]
             /\ \A o \in Operations : entry'[o] \in 1..(Len(Entries[o]) + 1)
  BY <1>n, EntryAtHand DEF NextEntry
<1>p. ASSUME NEW e \in Events, Post(op, e)
      PROVE  inbox' \in [Operations -> Seq(Events)]
  BY <1>p DEF Post
<1>g. ASSUME More(op) PROVE paths \cup {FileOf(op)} \in SUBSET Files /\ FileOf(op) \in Events
  BY <1>g, EntryAtHand DEF Events
<1>w. ASSUME NEW half \in {1, 2}, More(op), file[FileOf(op)] # NoFile
      PROVE  Write(op, half) \in [Files -> Contents]
  BY <1>w, ContentsFacts, EntryAtHand DEF Write
<1>m. at[op] \notin {"idle", "look", "entry", "done"} => More(op)
  BY DEF PlacesInStep, PlaceOf
<1>c. By(op) \in Contents /\ <<op, None>> \in Contents /\ NoFile \in Contents
  BY ContentsFacts
<1>1. CASE Look(op)
  BY <1>1, <1>n DEF Look, At, sessionVars, outcomeVars, diskVars, Backing
<1>2. CASE LockBackup(op) \/ LockEntry(op)
  <2>1. paths' \in SUBSET Files
    BY <1>2, <1>g, <1>m DEF LockBackup, LockEntry, TryLock
  <2>2. at' \in [Operations -> Backing \cup Writing \cup {"idle"}]
    BY <1>2 DEF LockBackup, LockEntry, At, Backing, Writing
  <2> QED
    BY <1>2, <2>1, <2>2 DEF LockBackup, LockEntry, sessionVars, outcomeVars, diskVars
<1>3. CASE Pick(op)
  BY <1>3, FreeNameExists DEF Pick, At, sessionVars, outcomeVars, diskVars, Backing
<1>4. CASE Rename(op)
  <2>1. More(op) /\ FileOf(op) \in Files /\ 0 \in BackupNumbers
    BY <1>4, <1>m, EntryAtHand, BackupNumbersFacts DEF Rename
  <2>2. file' \in [Files -> Contents]
    BY <1>4, <1>c DEF Rename
  <2>o. Moved(op) \/ NotedOnly(op) \/ Stayed(op)
    BY <1>4, <2>1, RenameOutcome
  <2>3. aside' \in [Files -> [BackupNumbers -> Contents]]
    BY <2>o, <1>c DEF Moved, NotedOnly, Stayed
  <2>4. backups' \in [Operations -> SUBSET (Files \X BackupNumbers)]
    <3>1. <<FileOf(op), picked[op]>> \in Files \X BackupNumbers
      BY <2>1
    <3> QED
      BY <2>o, <3>1 DEF Moved, NotedOnly, Stayed, NowBackup
  <2>5. /\ entry' \in [Operations -> Nat]
        /\ \A o \in Operations : entry'[o] \in 1..(Len(Entries[o]) + 1)
    BY <1>4, <1>n, <2>1 DEF Rename
  <2>6. paths' \in SUBSET Files /\ picked' \in [Operations -> BackupNumbers]
    BY <1>4, <2>1 DEF Rename, Release
  <2> QED
    BY <1>4, <2>2, <2>3, <2>4, <2>5, <2>6 DEF Rename, At, sessionVars, Backing
<1>5. CASE Proceed(op)
  BY <1>5, <1>g, <1>p DEF Proceed, At, sessionVars, outcomeVars, diskVars, Writing
<1>6. CASE CancelWaiting(op)
  BY <1>6 DEF CancelWaiting, sessionVars, outcomeVars, diskVars
<1>7. CASE WriteHeader(op)
  <2>1. file' \in [Files -> Contents]
    BY <1>7, <1>c DEF WriteHeader
  <2>2. attached' \in [Operations -> BOOLEAN]
    BY <1>7 DEF WriteHeader
  <2> QED
    BY <1>7, <2>1, <2>2 DEF WriteHeader, At, sessionVars, outcomeVars, Writing
<1>8. CASE WriteData(op)
  BY <1>8, <1>c, <1>m, <1>n DEF WriteData, At, Pumped, Release, sessionVars, outcomeVars, Writing
<1>9. CASE OpenStream(op)
  BY <1>9, <1>c, <1>g, <1>m, <1>p DEF OpenStream, At, Release, sessionVars, outcomeVars, Writing
<1>10. CASE WriteFirst(op)
  <2>1. file' \in [Files -> Contents]
    BY <1>10, <1>m, <1>w DEF WriteFirst, TracesTold
  <2> QED
    BY <1>10, <2>1 DEF WriteFirst, At, Pumped, sessionVars, outcomeVars, Writing
<1>11. CASE WriteRest(op)
  <2>1. file' \in [Files -> Contents]
    BY <1>11, <1>m, <1>w DEF WriteRest, TracesTold
  <2> QED
    BY <1>11, <2>1, <1>m, <1>n DEF WriteRest, At, Pumped, sessionVars, outcomeVars, Writing
<1>12. CASE Complete(op)
  BY <1>12, <1>p DEF Complete, Events, At, sessionVars, outcomeVars, diskVars, Writing
<1>13. CASE BreakOff(op)
  <2>1. paths' \in SUBSET Files
    BY <1>13 DEF BreakOff, Release
  <2>2. inbox[op] \in Seq(Events) /\ "failed" \in Events
    BY DEF Events
  <2>3. at[op] = "open" => FileOf(op) \in Events
    BY <1>g, <1>m
  <2>4. (IF at[op] = "open" THEN <<FileOf(op), "failed">> ELSE <<"failed">>) \in Seq(Events)
    BY <2>2, <2>3
  <2>5. inbox' \in [Operations -> Seq(Events)]
    BY <1>13, <2>2, <2>4 DEF BreakOff
  <2> QED
    BY <1>13, <2>1, <2>5 DEF BreakOff, At, sessionVars, outcomeVars, diskVars, Writing
<1> QED
  BY <1>1, <1>2, <1>3, <1>4, <1>5, <1>6, <1>7, <1>8, <1>9, <1>10, <1>11, <1>12, <1>13
     DEF WorkerStep

\* Every step keeps the types.
LEMMA ExtractionTypeStep ==
  ASSUME ExtractInv, [ExtractionNext]_extractionVars PROVE ExtractionTypeOK'
<1>r. RunnerTypeOK'
  BY StepIsRunnerStep, RunnerTypeStep DEF ExtractInv, ExtractionTypeOK
<1>1. CASE UNCHANGED extractionVars
  BY <1>1, <1>r DEF ExtractInv, ExtractionTypeOK, extractionVars, sessionVars, threadVars,
                    outcomeVars, diskVars
<1>2. CASE ExtractionNext
  BY <1>2, <1>r, MainType, BeginType, WorkType DEF ExtractionNext, ThreadStep, WorkerStep
<1> QED
  BY <1>1, <1>2

-----------------------------------------------------------------------------
(* Where threads are, and the results                                      *)

\* Nobody works for an operation when no batch and no Retry is under way.
LEMMA AllIdle ==
  ASSUME GuardInv, ~looping, stage # "retry" PROVE \A op \in Operations : at[op] = "idle"
  BY CallerAlone DEF GuardInv, ThreadsOK, PlacesOK, BusyAreRunning

\* A thread that starts is one of a batch, and is the first for its operation.
LEMMA StartFacts ==
  ASSUME GuardInv, NEW op \in Operations, Start(op)
  PROVE  /\ stage \in {"backup", "unpack"} /\ at[op] = "idle" /\ task[op] = "queued"
         /\ task' = [task EXCEPT ![op] = "running"] /\ UNCHANGED <<value, results, canceled>>
         /\ at' = [at EXCEPT ![op] = IF stage = "backup" THEN "look" ELSE "entry"]
         /\ UNCHANGED <<entry, stop, inbox, picked, attached, backups, failed, succeeded, stage,
                        interrupted, left, undone, recorded, paths, file, aside, list>>
<1>1. looping
  BY CallerAlone DEF GuardInv, Start, StartTask
<1>2. stage \in {"backup", "unpack"}
  BY <1>1 DEF GuardInv, ThreadsOK, CallerWaits
<1> QED
  BY <1>2 DEF GuardInv, ThreadsOK, PlacesOK, BusyAreRunning, Start, StartTask, Enter,
              sessionVars, diskVars

\* What Retry needs and does.
LEMMA RetryFacts ==
  ASSUME ExtractInv, NEW op \in Operations, Retry(op)
  PROVE  /\ stage = "collect" /\ stage' = "retry" /\ op \notin succeeded
         /\ \A o \in Operations : at[o] = "idle"
         /\ at' = [at EXCEPT ![op] = "entry"]
         /\ UNCHANGED <<entry, stop, inbox, picked, attached, backups, failed, succeeded,
                        interrupted, left, undone, recorded, paths, file, aside, list, runnerVars>>
<1>1. stage = "collect" /\ ~looping
  BY DEF ExtractInv, GuardInv, ThreadsOK, CallerWaits, Retry
<1>2. \A o \in Operations : at[o] = "idle"
  BY <1>1, AllIdle DEF ExtractInv
<1>3. op \notin succeeded
  BY <1>1 DEF ExtractInv, ResultsInStep, Retry
<1> QED
  BY <1>1, <1>2, <1>3 DEF Retry, Enter, diskVars

\* An operation can be looked at by itself when the others stay where they are.
LEMMA PlacesOthers ==
  ASSUME PlacesInStep, NEW op \in Operations, stage' = stage, PlaceOf(op)',
         \A o \in Operations \ {op} : /\ at'[o] = at[o] /\ entry'[o] = entry[o]
                                      /\ o \in succeeded' => o \in succeeded
  PROVE  PlacesInStep'
<1> SUFFICES ASSUME NEW o \in Operations, o # op PROVE PlaceOf(o)'
  BY DEF PlacesInStep
<1> QED
  BY DEF PlacesInStep, PlaceOf, More

\* Threads keep to the stages and to their kind of archive.
LEMMA PlacesStep ==
  ASSUME ExtractInv, [ExtractionNext]_extractionVars PROVE PlacesInStep'
<1> USE DEF ExtractInv
<1>t. /\ at \in [Operations -> Backing \cup Writing \cup {"idle"}]
      /\ \A op \in Operations : entry[op] \in 1..(Len(Entries[op]) + 1)
      /\ entry \in [Operations -> Nat] /\ succeeded \in SUBSET Operations
  BY DEF ExtractionTypeOK
<1>q. ASSUME at' = at, entry' = entry, succeeded' = succeeded,
             stage' = stage \/ \A op \in Operations : at[op] = "idle"
      PROVE  PlacesInStep'
  BY <1>q DEF PlacesInStep, PlaceOf, More, Backing, Writing
<1>1. CASE BackupAll \/ UnpackAll \/ CollectAll \/ Unpacked \/ RollBack \/ RolledBack
  <2>1. ~looping /\ stage # "retry"
    BY <1>1 DEF GuardInv, ThreadsOK, CallerWaits, BackupAll, UnpackAll, CollectAll, Unpacked,
                RollBack, RolledBack
  <2>2. at' = at /\ entry' = entry /\ succeeded' = succeeded
    BY <1>1 DEF BackupAll, UnpackAll, CollectAll, Unpacked, RollBack, RolledBack, Idle,
                threadVars, outcomeVars
  <2> QED
    BY <1>q, <2>1, <2>2, AllIdle
<1>2. CASE Interrupt \/ UNCHANGED extractionVars
  BY <1>2, <1>q DEF Interrupt, extractionVars, sessionVars, threadVars, outcomeVars
<1>3. ASSUME NEW op \in Operations,
             \/ Collect(op) \/ Undo(op) \/ Skip(op) \/ Handle(op) \/ ReceiveEntry(op)
             \/ CancelWaiting(op)
      PROVE  PlacesInStep'
  BY <1>3, <1>q DEF Collect, Undo, Skip, Handle, ReceiveEntry, CancelWaiting, Idle, sessionVars,
                    threadVars, outcomeVars
<1>4. ASSUME NEW op \in Operations, Retry(op) PROVE PlacesInStep'
  <2>1. \A o \in Operations : o # op => at'[o] = "idle"
    BY <1>4, <1>t, RetryFacts
  <2> QED
    BY <1>4, <1>t, <2>1, RetryFacts DEF PlacesInStep, PlaceOf, More, Backing, Writing
<1>5. ASSUME NEW op \in Operations, Start(op) PROVE PlacesInStep'
  <2>1. stage = "unpack" => op \notin succeeded
    BY <1>5, StartFacts DEF ResultsInStep
  <2>2. PlaceOf(op)'
    BY <1>5, <1>t, <2>1, StartFacts DEF PlacesInStep, PlaceOf, More, Backing, Writing
  <2> QED
    BY <1>5, <1>t, <2>2, StartFacts, PlacesOthers
<1>6. ASSUME NEW op \in Operations, BackedUp(op) \/ CannotBackUp(op) \/ WorkerFinished(op)
      PROVE  PlacesInStep'
  <2>1. /\ at' = [at EXCEPT ![op] = "idle"] /\ entry' = [entry EXCEPT ![op] = 1]
        /\ succeeded' \subseteq succeeded \cup {op}
    BY <1>6 DEF BackedUp, CannotBackUp, WorkerFinished, Leave, outcomeVars
  <2>2. PlaceOf(op)'
    BY <1>t, <2>1 DEF PlaceOf, Backing, Writing
  <2>3. CASE stage' = stage
    BY <2>1, <2>2, <2>3, PlacesOthers
  <2>4. CASE WorkerFinished(op) /\ stage = "retry"
    <3>1. \A o \in Operations \ {op} : at[o] = "idle" /\ entry[o] = 1
      BY <2>4 DEF GuardInv, ThreadsOK, OneRetry, PlacesInStep, PlaceOf, WorkerFinished
    <3>2. \A o \in Operations : at'[o] = "idle" /\ entry'[o] = 1
      BY <1>t, <2>1, <3>1
    <3> QED
      BY <3>2 DEF PlacesInStep, PlaceOf, Backing, Writing
  <2> QED
    BY <1>6, <2>3, <2>4 DEF BackedUp, CannotBackUp, WorkerFinished, sessionVars
<1>7. ASSUME NEW op \in Operations,
             \/ Look(op) \/ LockBackup(op) \/ Pick(op) \/ Rename(op) \/ Proceed(op)
             \/ LockEntry(op) \/ WriteHeader(op) \/ WriteData(op) \/ OpenStream(op)
             \/ WriteFirst(op) \/ WriteRest(op) \/ Complete(op) \/ BreakOff(op)
      PROVE  PlacesInStep'
  <2>p. PlaceOf(op)
    BY DEF PlacesInStep
  <2>1. PlaceOf(op)'
    <3>1. CASE Look(op) \/ LockBackup(op) \/ Pick(op) \/ Rename(op)
      BY <1>t, <2>p, <3>1 DEF PlaceOf, More, Backing, Writing, Look, LockBackup, Pick, Rename,
         At, NextEntry, sessionVars, outcomeVars
    <3>2. CASE Proceed(op) \/ LockEntry(op) \/ Complete(op) \/ BreakOff(op)
      BY <1>t, <2>p, <3>2 DEF PlaceOf, More, Backing, Writing, Proceed, LockEntry, Complete,
         BreakOff, At, sessionVars, outcomeVars
    <3>3. CASE WriteHeader(op) \/ WriteData(op) \/ OpenStream(op) \/ WriteFirst(op) \/ WriteRest(op)
      BY <1>t, <2>p, <3>3 DEF PlaceOf, More, Backing, Writing, WriteHeader, WriteData, OpenStream,
         WriteFirst, WriteRest, At, NextEntry, sessionVars, outcomeVars
    <3> QED
      BY <1>7, <3>1, <3>2, <3>3
  <2>2. /\ stage' = stage /\ succeeded' = succeeded
        /\ \A o \in Operations \ {op} : at'[o] = at[o] /\ entry'[o] = entry[o]
    BY <1>7, <1>t DEF Look, LockBackup, Pick, Rename,
       Proceed, LockEntry, WriteHeader, WriteData, OpenStream, WriteFirst, WriteRest, Complete,
       BreakOff, At, NextEntry, sessionVars, outcomeVars
  <2> QED
    BY <2>1, <2>2, PlacesOthers
<1> QED
  BY <1>1, <1>2, <1>3, <1>4, <1>5, <1>6, <1>7 DEF ExtractionNext, ThreadStep, WorkerStep

\* Results and what succeeded stay in step through both batches and Retry.
LEMMA ResultsStep ==
  ASSUME ExtractInv, [ExtractionNext]_extractionVars PROVE ResultsInStep'
<1> USE DEF ExtractInv, ResultsInStep
<1>t. /\ task \in [Operations -> TaskState] /\ value \in [Operations -> BOOLEAN]
      /\ results \in [Operations -> {"none", "true", "false"}]
      /\ succeeded \in SUBSET Operations /\ interrupted \in BOOLEAN
  BY DEF ExtractionTypeOK, RunnerTypeOK
<1>1. CASE BackupAll
  BY <1>1 DEF BackupAll, Run, Idle, outcomeVars
<1>2. CASE UnpackAll
  BY <1>2, <1>t DEF UnpackAll, Run, Idle, outcomeVars, runnerVars
<1>3. CASE CollectAll
  <2>1. watched = {}
    BY <1>3 DEF CollectAll, GuardInv, RunnerInv, WatchedUntilOver
  <2>2. \A op \in Operations : results[op] # "none"
    BY <1>3, <2>1 DEF CollectAll, GuardInv, RunnerInv, WatchedUntilOver
  <2> QED
    BY <1>3, <1>t, <2>2 DEF CollectAll, Idle, outcomeVars, runnerVars
<1>4. CASE Unpacked \/ RollBack \/ RolledBack
  BY <1>4 DEF Unpacked, RollBack, RolledBack, Idle, outcomeVars, runnerVars
<1>5. CASE Interrupt
  BY <1>5 DEF Interrupt, Cancel, outcomeVars, runnerVars
<1>6. CASE UNCHANGED extractionVars
  BY <1>6 DEF extractionVars, sessionVars, outcomeVars, runnerVars
<1>7. ASSUME NEW op \in Operations, Collect(op) \/ Undo(op) PROVE ResultsInStep'
  BY <1>7, <1>t DEF Collect, Undo, Idle, outcomeVars, runnerVars
<1>8. ASSUME NEW op \in Operations, Retry(op) PROVE ResultsInStep'
  BY <1>8, RetryFacts DEF runnerVars
<1>9. ASSUME NEW op \in Operations, Start(op) PROVE ResultsInStep'
  BY <1>9, <1>t, StartFacts
<1>10. ASSUME NEW op \in Operations, Skip(op) PROVE ResultsInStep'
  BY <1>10, <1>t DEF Skip, SkipTask, sessionVars, outcomeVars
<1>11. ASSUME NEW op \in Operations, Handle(op) PROVE ResultsInStep'
  <2>1. stage \notin {"collect", "retry"}
    BY <1>11 DEF Handle, HandleFinished, GuardInv, ThreadsOK, CallerWaits
  <2> QED
    BY <1>11, <1>t, <2>1 DEF Handle, HandleFinished, sessionVars, outcomeVars
<1>12. ASSUME NEW op \in Operations, BackedUp(op) \/ CannotBackUp(op) PROVE ResultsInStep'
  <2>1. stage = "backup"
    BY <1>12 DEF PlacesInStep, PlaceOf, Backing, BackedUp, CannotBackUp
  <2> QED
    BY <1>12, <2>1 DEF BackedUp, CannotBackUp, EndTask, sessionVars, outcomeVars
<1>13. ASSUME NEW op \in Operations, WorkerFinished(op) PROVE ResultsInStep'
  <2>1. stage \in {"unpack", "retry"} /\ op \notin succeeded
    BY <1>13 DEF PlacesInStep, PlaceOf, Writing, WorkerFinished
  <2>2. CASE stage = "retry"
    BY <1>13, <2>2 DEF WorkerFinished, runnerVars
  <2>3. CASE stage = "unpack"
    <3> DEFINE ok == Head(inbox[op]) = "finished"
    <3>1. /\ task[op] = "running" /\ task' = [task EXCEPT ![op] = "ended"]
          /\ value' = [value EXCEPT ![op] = ok] /\ UNCHANGED <<results, canceled, stage, interrupted>>
          /\ succeeded' = IF ok THEN succeeded \cup {op} ELSE succeeded
      BY <1>13, <2>3 DEF WorkerFinished, EndTask
    <3>2. results[op] = "none"
      BY <3>1 DEF GuardInv, RunnerInv, WatchedUntilOver
    <3> HIDE DEF ok
    <3>3. value'[op] = ok /\ task'[op] = "ended" /\ results'[op] # "false"
      BY <1>t, <3>1, <3>2
    <3>4. op \in succeeded' => ok
      BY <2>1, <3>1
    <3>5. \A o \in Operations \ {op} : task'[o] = task[o] /\ value'[o] = value[o]
                                       /\ (o \in succeeded' <=> o \in succeeded)
      BY <1>t, <3>1
    <3> QED
      BY <2>3, <3>1, <3>3, <3>4, <3>5
  <2> QED
    BY <2>1, <2>2, <2>3
<1>14. ASSUME NEW op \in Operations,
              \/ Look(op) \/ LockBackup(op) \/ Pick(op) \/ Rename(op) \/ Proceed(op)
              \/ LockEntry(op) \/ CancelWaiting(op) \/ WriteHeader(op) \/ WriteData(op)
              \/ OpenStream(op) \/ WriteFirst(op) \/ WriteRest(op) \/ Complete(op)
              \/ BreakOff(op) \/ ReceiveEntry(op)
       PROVE  ResultsInStep'
  <2>1. UNCHANGED <<stage, runnerVars, succeeded, interrupted, left>>
    BY <1>14 DEF Look, LockBackup, Pick, Rename, Proceed, LockEntry, CancelWaiting, WriteHeader,
                 WriteData, OpenStream, WriteFirst, WriteRest, Complete, BreakOff, ReceiveEntry,
                 sessionVars, outcomeVars
  <2> QED
    BY <2>1 DEF runnerVars
<1> QED
  BY <1>1, <1>2, <1>3, <1>4, <1>5, <1>6, <1>7, <1>8, <1>9, <1>10, <1>11, <1>12, <1>13, <1>14
     DEF ExtractionNext, ThreadStep, WorkerStep

-----------------------------------------------------------------------------
(* The events                                                              *)

\* One more event at the end of what is posted.
LEMMA PostFacts ==
  ASSUME ExtractionTypeOK, NEW op \in Operations, NEW e \in Events, Post(op, e)
  PROVE  /\ inbox'[op] = Append(inbox[op], e) /\ Len(inbox'[op]) = Len(inbox[op]) + 1
         /\ Len(inbox[op]) \in Nat
         /\ \A k \in 1..Len(inbox[op]) : inbox'[op][k] = inbox[op][k]
         /\ inbox'[op][Len(inbox[op]) + 1] = e /\ inbox'[op] # <<>>
         /\ Posted(op)' = Posted(op) \cup {e}
<1>1. inbox[op] \in Seq(Events) /\ inbox'[op] = Append(inbox[op], e)
  BY DEF ExtractionTypeOK, Post
<1>2. /\ Len(inbox'[op]) = Len(inbox[op]) + 1 /\ Len(inbox[op]) \in Nat
      /\ \A k \in 1..Len(inbox[op]) : inbox'[op][k] = inbox[op][k]
      /\ inbox'[op][Len(inbox[op]) + 1] = e /\ inbox'[op] # <<>>
  BY <1>1, AppendProperties, LenProperties
<1> QED
  BY <1>1, <1>2 DEF Posted

\* The oldest event is taken away.
LEMMA ReceiveFacts ==
  ASSUME ExtractionTypeOK, MessagesInStep, NEW op \in Operations, ReceiveEntry(op)
  PROVE  /\ Len(inbox'[op]) = Len(inbox[op]) - 1 /\ Len(inbox[op]) \in Nat \ {0}
         /\ \A k \in 1..Len(inbox'[op]) : inbox'[op][k] = inbox[op][k + 1]
         /\ inbox[op][1] \in EntriesOf(op) /\ Told(op)' = Told(op)
         /\ extracted'[op] = extracted[op] \cup {inbox[op][1]}
         /\ at[op] = "done" => Len(inbox[op]) > 1
<1>1. /\ inbox[op] \in Seq(Events) /\ inbox[op] # <<>> /\ inbox'[op] = Tail(inbox[op])
      /\ inbox[op][1] \in Files /\ extracted'[op] = extracted[op] \cup {inbox[op][1]}
  BY DEF ExtractionTypeOK, ReceiveEntry
<1>2. /\ Len(inbox'[op]) = Len(inbox[op]) - 1 /\ Len(inbox[op]) \in Nat \ {0}
      /\ \A k \in 1..Len(inbox'[op]) : inbox'[op][k] = inbox[op][k + 1]
  BY <1>1
<1>3. 1 \in 1..Len(inbox[op]) /\ inbox[op][1] \notin {"finished", "failed"}
  BY <1>1, <1>2, ExtractionAssumption
<1>4. inbox[op][1] \in EntriesOf(op) /\ (at[op] = "done" => Len(inbox[op]) > 1)
  BY <1>2, <1>3 DEF MessagesInStep, MessagesOf
<1>5. Posted(op)' \cup {inbox[op][1]} = Posted(op)
  <2>1. \A k \in 1..Len(inbox'[op]) : k + 1 \in 1..Len(inbox[op])
    BY <1>2
  <2>2. \A k \in 1..Len(inbox[op]) : k = 1 \/ k - 1 \in 1..Len(inbox'[op])
    BY <1>2
  <2>3. \A k \in 1..Len(inbox[op]) : k = 1 \/ inbox[op][k] = inbox'[op][k - 1]
    BY <1>2, <2>2
  <2>4. Posted(op)' \subseteq Posted(op)
    BY <1>2, <2>1 DEF Posted
  <2>5. Posted(op) \subseteq Posted(op)' \cup {inbox[op][1]}
    BY <2>2, <2>3 DEF Posted
  <2>6. inbox[op][1] \in Posted(op)
    BY <1>3 DEF Posted
  <2> QED
    BY <2>4, <2>5, <2>6
<1> QED
  BY <1>1, <1>2, <1>4, <1>5 DEF Told

\* The last event is all that is left when it is delivered.
LEMMA FinishedFacts ==
  ASSUME ExtractionTypeOK, MessagesInStep, NEW op \in Operations, WorkerFinished(op)
  PROVE  /\ Len(inbox[op]) = 1 /\ Told(op) \cap Files = extracted[op]
         /\ Head(inbox[op]) = "finished" => ~More(op)
<1>1. at[op] = "done" /\ inbox[op] \in Seq(Events) /\ inbox[op] # <<>> /\ inbox[op][1] \notin Files
  BY DEF ExtractionTypeOK, MessagesInStep, MessagesOf, WorkerFinished
<1>2. Len(inbox[op]) \in Nat \ {0} /\ 1 \in 1..Len(inbox[op]) /\ Head(inbox[op]) = inbox[op][1]
  BY <1>1
<1>3. Len(inbox[op]) = 1
  BY <1>1, <1>2, EntriesFacts DEF MessagesInStep, MessagesOf
<1>4. Posted(op) = {inbox[op][1]} /\ extracted[op] \subseteq Files
  BY <1>3 DEF Posted, ExtractionTypeOK
<1> QED
  BY <1>1, <1>2, <1>3, <1>4 DEF Told, MessagesInStep, MessagesOf

\* What BreakOff posts: the name when a stream was asked for, and "failed".
LEMMA BreakOffFacts ==
  ASSUME ExtractInv, NEW op \in Operations, BreakOff(op)
  PROVE  \E n \in {1, 2} :
           /\ Len(inbox'[op]) = Len(inbox[op]) + n /\ Len(inbox[op]) \in Nat
           /\ \A k \in 1..Len(inbox[op]) : inbox'[op][k] = inbox[op][k]
           /\ n = 2 => inbox'[op][Len(inbox[op]) + 1] \in EntriesOf(op)
           /\ inbox'[op][Len(inbox[op]) + n] = "failed" /\ inbox'[op] # <<>>
           /\ Posted(op) \subseteq Posted(op)'
           /\ at[op] = "open" => FileOf(op) \in Posted(op)'
<1> DEFINE s == inbox[op]
           open == at[op] = "open"
           n == IF open THEN 2 ELSE 1
<1>1. s \in Seq(Events) /\ "failed" \in Events
  BY DEF ExtractInv, ExtractionTypeOK, Events
<1>2. open => FileOf(op) \in Events /\ FileOf(op) \in EntriesOf(op)
  <2>1. open => More(op)
    BY DEF ExtractInv, PlacesInStep, PlaceOf
  <2> QED
    BY <2>1, EntryAtHand DEF ExtractInv, Events
<1>3. inbox'[op] = s \o (IF open THEN <<FileOf(op), "failed">> ELSE <<"failed">>)
  BY DEF ExtractInv, ExtractionTypeOK, BreakOff
<1> HIDE DEF s, open
<1>4. CASE open
  <2>1. inbox'[op] = s \o <<FileOf(op), "failed">> /\ n = 2
    BY <1>3, <1>4
  <2>2. /\ Len(inbox'[op]) = Len(s) + 2 /\ Len(s) \in Nat /\ inbox'[op] # <<>>
        /\ \A k \in 1..Len(s) : inbox'[op][k] = s[k]
        /\ inbox'[op][Len(s) + 1] = FileOf(op) /\ inbox'[op][Len(s) + 2] = "failed"
    <3>1. Len(inbox'[op]) = Len(s) + 2 /\ Len(s) \in Nat /\ inbox'[op] # <<>>
      BY <1>1, <1>2, <1>4, <2>1
    <3>2. \A k \in 1..Len(s) : inbox'[op][k] = s[k]
      BY <1>1, <1>2, <1>4, <2>1
    <3>3. inbox'[op][Len(s) + 1] = FileOf(op) /\ inbox'[op][Len(s) + 2] = "failed"
      BY <1>1, <1>2, <1>4, <2>1
    <3> QED
      BY <3>1, <3>2, <3>3
  <2>3. Posted(op) \subseteq Posted(op)' /\ FileOf(op) \in Posted(op)'
    BY <2>2 DEF Posted, s
  <2> QED
    BY <1>2, <1>4, <2>2, <2>3 DEF s
<1>5. CASE ~open
  <2>1. inbox'[op] = s \o <<"failed">> /\ n = 1
    BY <1>3, <1>5
  <2>2. /\ Len(inbox'[op]) = Len(s) + 1 /\ Len(s) \in Nat /\ inbox'[op] # <<>>
        /\ \A k \in 1..Len(s) : inbox'[op][k] = s[k]
        /\ inbox'[op][Len(s) + 1] = "failed"
    BY <1>1, <2>1
  <2>3. Posted(op) \subseteq Posted(op)'
    BY <2>2 DEF Posted, s
  <2> QED
    BY <1>5, <2>2, <2>3 DEF s, open
<1> QED
  BY <1>4, <1>5

\* An operation can be looked at by itself when the others' events stay.
LEMMA MessagesOthers ==
  ASSUME MessagesInStep, NEW op \in Operations, MessagesOf(op)',
         \A o \in Operations \ {op} :
           at'[o] = at[o] /\ entry'[o] = entry[o] /\ extracted'[o] = extracted[o] /\ inbox'[o] = inbox[o]
  PROVE  MessagesInStep'
<1> SUFFICES ASSUME NEW o \in Operations, o # op PROVE MessagesOf(o)'
  BY DEF MessagesInStep
<1> QED
  BY DEF MessagesInStep, MessagesOf, More, FileOf, Told, Posted

\* Events come in the order in which they were posted, the last one last.
LEMMA MessagesStep ==
  ASSUME ExtractInv, [ExtractionNext]_extractionVars PROVE MessagesInStep'
<1> USE DEF ExtractInv
<1>t. /\ at \in [Operations -> Backing \cup Writing \cup {"idle"}]
      /\ entry \in [Operations -> Nat] /\ inbox \in [Operations -> Seq(Events)]
      /\ extracted \in [Operations -> SUBSET Files]
  BY DEF ExtractionTypeOK
<1>q. ASSUME UNCHANGED <<at, entry, extracted, inbox>> PROVE MessagesInStep'
  BY <1>q DEF MessagesInStep, MessagesOf, More, FileOf, Told, Posted
<1>1. CASE \/ BackupAll \/ UnpackAll \/ CollectAll \/ Unpacked \/ RollBack \/ RolledBack
           \/ Interrupt \/ UNCHANGED extractionVars
  BY <1>1, <1>q DEF BackupAll, UnpackAll, CollectAll, Unpacked, RollBack, RolledBack, Interrupt,
                    Idle, threadVars, extractionVars
<1>2. ASSUME NEW op \in Operations,
             Collect(op) \/ Undo(op) \/ Skip(op) \/ Handle(op) \/ CancelWaiting(op)
      PROVE  MessagesInStep'
  BY <1>2, <1>q DEF Collect, Undo, Skip, Handle, CancelWaiting, Idle, threadVars
<1>3. ASSUME NEW op \in Operations, Start(op) \/ Retry(op) PROVE MessagesInStep'
  <2>1. at[op] = "idle" /\ inbox' = inbox /\ entry' = entry
    BY <1>3, StartFacts, RetryFacts
  <2>2. \E place \in {"look", "entry"} : at' = [at EXCEPT ![op] = place]
    BY <1>3, StartFacts, RetryFacts
  <2>3. extracted' = [extracted EXCEPT ![op] = {}]
    BY <1>3 DEF Start, Retry, Enter
  <2>4. inbox[op] = <<>>
    BY <2>1 DEF MessagesInStep, MessagesOf, Writing
  <2>5. MessagesOf(op)'
    BY <1>t, <2>1, <2>2, <2>3, <2>4 DEF MessagesOf
  <2> QED
    BY <1>t, <2>1, <2>2, <2>3, <2>5, MessagesOthers
<1>4. ASSUME NEW op \in Operations, BackedUp(op) \/ CannotBackUp(op) \/ WorkerFinished(op)
      PROVE  MessagesInStep'
  <2>1. /\ at' = [at EXCEPT ![op] = "idle"] /\ entry' = [entry EXCEPT ![op] = 1]
        /\ inbox' = [inbox EXCEPT ![op] = <<>>] /\ extracted' = extracted
    BY <1>4 DEF BackedUp, CannotBackUp, WorkerFinished, Leave
  <2>2. MessagesOf(op)'
    BY <1>t, <2>1 DEF MessagesInStep, MessagesOf
  <2> QED
    BY <1>t, <2>1, <2>2, MessagesOthers
<1>5. ASSUME NEW op \in Operations, ReceiveEntry(op) PROVE MessagesInStep'
  <2>1. UNCHANGED <<at, entry>>
    BY <1>5 DEF ReceiveEntry
  <2>2. /\ Len(inbox'[op]) = Len(inbox[op]) - 1 /\ Len(inbox[op]) \in Nat \ {0}
        /\ \A k \in 1..Len(inbox'[op]) : inbox'[op][k] = inbox[op][k + 1]
        /\ extracted'[op] \subseteq EntriesOf(op) /\ Told(op)' = Told(op)
        /\ at[op] = "done" => Len(inbox'[op]) > 0
    BY <1>5, ReceiveFacts DEF MessagesInStep, MessagesOf
  <2>3. MessagesOf(op)
    BY DEF MessagesInStep
  <2>4. at[op] \in Writing
    BY <2>2, <2>3 DEF MessagesOf
  <2>5. at[op] = "done" => inbox'[op] # <<>> /\ inbox'[op][Len(inbox'[op])] = inbox[op][Len(inbox[op])]
    BY <2>2
  <2>6. \A k \in 1..Len(inbox'[op]) :
          IF at[op] = "done" /\ k = Len(inbox'[op]) THEN inbox'[op][k] \in {"finished", "failed"}
          ELSE inbox'[op][k] \in EntriesOf(op)
    <3> SUFFICES ASSUME NEW k \in 1..Len(inbox'[op])
                 PROVE  IF at[op] = "done" /\ k = Len(inbox'[op])
                        THEN inbox'[op][k] \in {"finished", "failed"}
                        ELSE inbox'[op][k] \in EntriesOf(op)
      OBVIOUS
    <3>1. k + 1 \in 1..Len(inbox[op]) /\ (k + 1 = Len(inbox[op]) <=> k = Len(inbox'[op]))
      BY <2>2
    <3> QED
      BY <2>2, <2>3, <3>1 DEF MessagesOf
  <2>7. FileOf(op)' = FileOf(op) /\ (More(op)' <=> More(op))
    BY <2>1 DEF FileOf, More
  <2>8. MessagesOf(op)'
    BY <2>1, <2>2, <2>3, <2>4, <2>5, <2>6, <2>7 DEF MessagesOf
  <2> QED
    BY <1>5, <1>t, <2>1, <2>8, MessagesOthers DEF ReceiveEntry
<1>6. ASSUME NEW op \in Operations,
             \/ Look(op) \/ LockBackup(op) \/ Pick(op) \/ Rename(op) \/ LockEntry(op)
             \/ WriteHeader(op) \/ WriteData(op) \/ WriteFirst(op) \/ WriteRest(op)
             \/ (Proceed(op) /\ op \in SevenZip)
      PROVE  MessagesInStep'
  <2>1. /\ inbox' = inbox /\ extracted' = extracted /\ at'[op] # "done" /\ at[op] # "done"
        /\ at[op] \in Writing <=> at'[op] \in Writing
        /\ \A o \in Operations \ {op} : at'[o] = at[o] /\ entry'[o] = entry[o]
    BY <1>6, <1>t DEF Look, LockBackup, Pick, Rename, LockEntry, WriteHeader, WriteData, WriteFirst,
       WriteRest, Proceed, At, NextEntry, Backing, Writing
  <2>2. \/ at'[op] \in {"wait", "header", "data"} /\ op \notin SevenZip
        \/ at'[op] \in {"first", "rest"}
        => /\ entry' = entry
           /\ \/ at[op] \in {"wait", "header", "data"} /\ op \notin SevenZip
              \/ at[op] \in {"first", "rest"}
    BY <1>6, <1>t DEF Look, LockBackup, Pick, Rename, LockEntry, WriteHeader, WriteData, WriteFirst,
       WriteRest, Proceed, At, NextEntry, Backing, Writing
  <2>3. MessagesOf(op)'
    BY <2>1, <2>2 DEF MessagesInStep, MessagesOf, FileOf, Told, Posted
  <2> QED
    BY <2>1, <2>3, MessagesOthers
<1>7. ASSUME NEW op \in Operations, OpenStream(op) \/ (Proceed(op) /\ op \notin SevenZip)
      PROVE  MessagesInStep'
  <2>1. /\ at' = [at EXCEPT ![op] = IF op \in SevenZip THEN "first" ELSE "wait"]
        /\ extracted' = extracted /\ entry' = entry /\ Post(op, FileOf(op)) /\ More(op)
        /\ at[op] \in {"open", "entry"}
    BY <1>7 DEF OpenStream, Proceed, At, PlacesInStep, PlaceOf
  <2>2. FileOf(op) \in Events /\ FileOf(op) \in EntriesOf(op)
    BY <2>1, EntryAtHand DEF Events
  <2>3. /\ Len(inbox'[op]) = Len(inbox[op]) + 1 /\ Len(inbox[op]) \in Nat
        /\ \A k \in 1..Len(inbox[op]) : inbox'[op][k] = inbox[op][k]
        /\ inbox'[op][Len(inbox[op]) + 1] = FileOf(op)
        /\ Posted(op)' = Posted(op) \cup {FileOf(op)}
    BY <2>1, <2>2, PostFacts
  <2>4. \A k \in 1..Len(inbox'[op]) : inbox'[op][k] \in EntriesOf(op)
    <3>1. \A k \in 1..Len(inbox[op]) : inbox[op][k] \in EntriesOf(op)
      BY <2>1 DEF MessagesInStep, MessagesOf
    <3> QED
      BY <2>2, <2>3, <3>1
  <2>5. at'[op] \in {"first", "wait"} /\ FileOf(op)' = FileOf(op)
    BY <1>t, <2>1 DEF FileOf
  <2>6. MessagesOf(op)'
    BY <2>1, <2>3, <2>4, <2>5 DEF MessagesInStep, MessagesOf, Told, Writing
  <2> QED
    BY <1>t, <2>1, <2>6, MessagesOthers DEF Post
<1>8. ASSUME NEW op \in Operations, Complete(op) PROVE MessagesInStep'
  <2>1. /\ at' = [at EXCEPT ![op] = "done"] /\ extracted' = extracted /\ entry' = entry
        /\ Post(op, "finished") /\ at[op] = "entry" /\ "finished" \in Events /\ ~More(op)
    BY <1>8 DEF Complete, At, Events
  <2>2. /\ Len(inbox'[op]) = Len(inbox[op]) + 1 /\ Len(inbox[op]) \in Nat
        /\ \A k \in 1..Len(inbox[op]) : inbox'[op][k] = inbox[op][k]
        /\ inbox'[op][Len(inbox[op]) + 1] = "finished" /\ inbox'[op] # <<>>
    BY <2>1, PostFacts
  <2>3. \A k \in 1..Len(inbox[op]) : inbox[op][k] \in EntriesOf(op)
    BY <2>1 DEF MessagesInStep, MessagesOf
  <2>4. at'[op] = "done" /\ ~More(op)'
    BY <1>t, <2>1 DEF More
  <2>5. MessagesOf(op)'
    BY <2>1, <2>2, <2>3, <2>4 DEF MessagesInStep, MessagesOf, Writing
  <2> QED
    BY <1>t, <2>1, <2>5, MessagesOthers DEF Post
<1>9. ASSUME NEW op \in Operations, BreakOff(op) PROVE MessagesInStep'
  <2>1. /\ at' = [at EXCEPT ![op] = "done"] /\ extracted' = extracted /\ entry' = entry
        /\ at[op] # "done"
    BY <1>9 DEF BreakOff, At
  <2>2. PICK n \in {1, 2} :
           /\ Len(inbox'[op]) = Len(inbox[op]) + n /\ Len(inbox[op]) \in Nat
           /\ \A k \in 1..Len(inbox[op]) : inbox'[op][k] = inbox[op][k]
           /\ n = 2 => inbox'[op][Len(inbox[op]) + 1] \in EntriesOf(op)
           /\ inbox'[op][Len(inbox[op]) + n] = "failed" /\ inbox'[op] # <<>>
    BY <1>9, BreakOffFacts
  <2>3. \A k \in 1..Len(inbox[op]) : inbox[op][k] \in EntriesOf(op)
    BY <2>1 DEF MessagesInStep, MessagesOf
  <2>4. at'[op] = "done"
    BY <1>t, <2>1
  <2>5. \A k \in 1..Len(inbox'[op]) :
          IF k = Len(inbox'[op]) THEN inbox'[op][k] = "failed" ELSE inbox'[op][k] \in EntriesOf(op)
    <3>1. ASSUME NEW k \in 1..Len(inbox'[op]), k # Len(inbox'[op])
          PROVE  k \in 1..Len(inbox[op]) \/ (n = 2 /\ k = Len(inbox[op]) + 1)
      BY <2>2, <3>1
    <3> QED
      BY <2>2, <2>3, <3>1
  <2>6. inbox'[op][Len(inbox'[op])] = "failed"
    BY <2>2
  <2>7. MessagesOf(op)'
    BY <2>1, <2>2, <2>4, <2>5, <2>6 DEF MessagesInStep, MessagesOf, Writing
  <2> QED
    BY <1>9, <1>t, <2>1, <2>7, MessagesOthers DEF BreakOff
<1> QED
  BY <1>1, <1>2, <1>3, <1>4, <1>5, <1>6, <1>7, <1>8, <1>9 DEF ExtractionNext, ThreadStep, WorkerStep

-----------------------------------------------------------------------------
(* The backups                                                             *)

\* No file, a file of the user and one of another session are not the same, and
\* neither is what an operation wrote.
LEMMA ContentsDiffer ==
  /\ NoFile # By(User) /\ NoFile # By(None) /\ By(User) # By(None)
  /\ \A op \in Operations :
       /\ NoFile # By(op) /\ NoFile # <<op, None>> /\ By(User) # By(op) /\ By(User) # <<op, None>>
       /\ \A o \in Operations : By(op) # <<o, None>> /\ (By(op) = By(o) => op = o)
                                /\ (<<op, None>> = <<o, None>> => op = o)
<1>1. {User, None} \cap Operations = {} /\ User # None
  BY ExtractionAssumption
<1>2. \A x, y : <<x, y>> # <<>>
  OBVIOUS
<1>3. \A x, y, v, w : <<x, y>> = <<v, w>> => x = v /\ y = w
  OBVIOUS
<1> QED
  BY <1>1, <1>2, <1>3 DEF NoFile, By

\* A thread that moves a file to a name has it for itself, under one name.
LEMMA RenameStep ==
  ASSUME ExtractInv, NEW op \in Operations, Rename(op) PROVE BackupInv'
<1> USE DEF ExtractInv
<1> DEFINE f == FileOf(op)
           i == picked[op]
<1>1. /\ at[op] = "rename" /\ More(op) /\ stage = "backup"
  BY DEF Rename, PlacesInStep, PlaceOf, Backing
<1>2. /\ f \in Files /\ f \in EntriesOf(op) /\ i \in BackupNumbers
      /\ entry[op] \in 1..Len(Entries[op]) /\ Len(Entries[op]) \in Nat
  BY <1>1, EntryAtHand, EntriesFacts DEF ExtractionTypeOK
<1>3. aside[f][i] = NoFile
  BY <1>1 DEF BackupInv, NamesInStep
<1>4. i = 0 => f \notin Leftovers
  BY <1>2, <1>3, ContentsDiffer DEF BackupInv, NamesInStep
<1>5. \A b \in backups[op] : b[1] # f
  <2> SUFFICES ASSUME NEW b \in backups[op], b[1] = f PROVE FALSE
    OBVIOUS
  <2>1. PICK k \in 1..(entry[op] - 1) : Entries[op][k] = f
    BY <1>1 DEF BackupInv, BackupsOwned, Backing
  <2> QED
    BY <1>2, <2>1, EntriesFacts DEF FileOf
<1>6. \A o \in Operations \ {op} : at[o] = "rename" => FileOf(o) # f
  BY <1>1 DEF GuardInv, GuardsExclude, Holding
<1>7. /\ at' = [at EXCEPT ![op] = "look"] /\ entry' = [entry EXCEPT ![op] = @ + 1]
      /\ picked' = [picked EXCEPT ![op] = 0] /\ stage' = stage /\ task' = task
      /\ at \in [Operations -> Backing \cup Writing \cup {"idle"}]
      /\ entry \in [Operations -> Nat] /\ picked \in [Operations -> BackupNumbers]
      /\ backups \in [Operations -> SUBSET (Files \X BackupNumbers)]
  BY DEF Rename, At, NextEntry, sessionVars, runnerVars, ExtractionTypeOK
<1>8. \A o \in Operations \ {op} : at'[o] = at[o] /\ entry'[o] = entry[o] /\ picked'[o] = picked[o]
  BY <1>7
<1>9. task[op] # "queued"
  BY <1>1 DEF GuardInv, ThreadsOK, BusyAreRunning
<1>10. Moved(op) \/ NotedOnly(op) \/ Stayed(op)
  BY <1>1, RenameOutcome
<1>11. CASE Moved(op) \/ NotedOnly(op)
  <2>1. backups' = [backups EXCEPT ![op] = @ \cup {<<f, i>>}]
    BY <1>11 DEF Moved, NotedOnly, NowBackup
  <2>2. /\ backups'[op] = backups[op] \cup {<<f, i>>}
        /\ \A o \in Operations \ {op} : backups'[o] = backups[o]
    BY <1>7, <2>1
  <2>3. <<f, i>>[1] = f /\ <<f, i>>[2] = i
    OBVIOUS
  <2>4. Entries[op][entry[op]] = f /\ entry'[op] = entry[op] + 1 /\ at'[op] = "look"
    BY <1>7 DEF FileOf
  <2> HIDE DEF f, i
  <2>5. BackupsOwned'
    <3>1. \A b \in backups'[op] :
            /\ b[1] \in EntriesOf(op) /\ (b[2] = 0 => b[1] \notin Leftovers)
            /\ \A c \in backups'[op] : c[1] = b[1] => c = b
      BY <1>2, <1>4, <1>5, <2>2, <2>3 DEF BackupInv, BackupsOwned
    <3>2. \A b \in backups'[op] : \E k \in 1..(entry'[op] - 1) : Entries[op][k] = b[1]
      <4> SUFFICES ASSUME NEW b \in backups'[op]
                   PROVE  \E k \in 1..(entry'[op] - 1) : Entries[op][k] = b[1]
        OBVIOUS
      <4>1. CASE b \in backups[op]
        <5>1. PICK k \in 1..(entry[op] - 1) : Entries[op][k] = b[1]
          BY <1>1, <4>1 DEF BackupInv, BackupsOwned, Backing
        <5> QED
          BY <1>2, <2>4, <5>1
      <4>2. CASE b = <<f, i>>
        BY <1>2, <2>3, <2>4, <4>2
      <4> QED
        BY <2>2, <4>1, <4>2
    <3> QED
      BY <1>8, <2>2, <3>1, <3>2 DEF BackupInv, BackupsOwned
  <2>6. \A g \in Files, j \in BackupNumbers : ~(g = f /\ j = i) =>
          {o \in Operations : <<g, j>> \in backups'[o]} = {o \in Operations : <<g, j>> \in backups[o]}
    BY <2>2
  <2>7. \A o \in Operations, g \in Files, j \in BackupNumbers :
          <<g, j>> \in backups[o] => file[g] = NoFile \/ aside[g][j] # NoFile
    <3> SUFFICES ASSUME NEW o \in Operations, NEW g \in Files, NEW j \in BackupNumbers,
                        <<g, j>> \in backups[o]
                 PROVE  file[g] = NoFile \/ aside[g][j] # NoFile
      OBVIOUS
    <3>1. <<g, j>>[1] = g /\ <<g, j>>[2] = j
      OBVIOUS
    <3> QED
      BY <1>1, <3>1 DEF BackupInv, BackupStage
  <2>8. CASE Moved(op)
    <3>1. /\ file[f] # NoFile /\ file' = [file EXCEPT ![f] = NoFile]
          /\ aside' = [g \in Files |-> [j \in BackupNumbers |->
               IF g = f /\ j = i THEN file[g] ELSE aside[g][j]]]
      BY <2>8 DEF Moved, f, i
    <3>2. file[f] = By(User)
      BY <1>1, <1>2, <3>1 DEF BackupInv, BackupStage
    <3>3. {o \in Operations : <<f, i>> \in backups'[o]} = {op}
      BY <1>2, <1>3, <2>2, <2>7, <3>1
    <3>4. \A g \in Files, j \in BackupNumbers :
            aside'[g][j] = IF g = f /\ j = i THEN By(User) ELSE aside[g][j]
      BY <3>1, <3>2
    <3>5. NamesInStep'
      <4>1. \A g \in Files, j \in BackupNumbers :
              /\ aside'[g][j] = By(None) <=> j = 0 /\ g \in Leftovers
              /\ aside'[g][j] \in {NoFile, By(User), By(None)}
              /\ aside'[g][j] = By(User) => \E o \in Operations :
                   {oo \in Operations : <<g, j>> \in backups'[oo]} = {o}
        <5> SUFFICES ASSUME NEW g \in Files, NEW j \in BackupNumbers
                     PROVE  /\ aside'[g][j] = By(None) <=> j = 0 /\ g \in Leftovers
                            /\ aside'[g][j] \in {NoFile, By(User), By(None)}
                            /\ aside'[g][j] = By(User) => \E o \in Operations :
                                 {oo \in Operations : <<g, j>> \in backups'[oo]} = {o}
          OBVIOUS
        <5>1. CASE g = f /\ j = i
          BY <1>4, <3>3, <3>4, <5>1, ContentsDiffer
        <5>2. CASE ~(g = f /\ j = i)
          BY <2>6, <3>4, <5>2 DEF BackupInv, NamesInStep
        <5> QED
          BY <5>1, <5>2
      <4>2. \A o \in Operations : at'[o] = "rename" => aside'[FileOf(o)'][picked'[o]] = NoFile
        <5> SUFFICES ASSUME NEW o \in Operations, at'[o] = "rename"
                     PROVE  aside'[FileOf(o)'][picked'[o]] = NoFile
          OBVIOUS
        <5>1. o # op /\ at[o] = "rename" /\ FileOf(o)' = FileOf(o) /\ picked'[o] = picked[o]
          BY <1>8, <2>4 DEF FileOf
        <5>2. FileOf(o) # f /\ aside[FileOf(o)][picked[o]] = NoFile
          BY <1>6, <5>1 DEF BackupInv, NamesInStep, f
        <5>3. More(o)
          BY <5>1 DEF PlacesInStep, PlaceOf
        <5>4. FileOf(o) \in Files /\ picked[o] \in BackupNumbers
          BY <1>7, <5>3, EntryAtHand
        <5> QED
          BY <3>4, <5>1, <5>2, <5>4
      <4> QED
        BY <4>1, <4>2 DEF NamesInStep
    <3>6. BackupStage'
      <4>1. \A g \in Files : file'[g] = IF g = f THEN NoFile ELSE file[g]
        BY <3>1 DEF ExtractionTypeOK
      <4>2. \A o \in Operations : \A b \in backups'[o] : file'[b[1]] = NoFile \/ aside'[b[1]][b[2]] # NoFile
        <5> SUFFICES ASSUME NEW o \in Operations, NEW b \in backups'[o]
                     PROVE  file'[b[1]] = NoFile \/ aside'[b[1]][b[2]] # NoFile
          OBVIOUS
        <5>1. CASE b = <<f, i>>
          BY <1>2, <2>3, <4>1, <5>1
        <5>2. CASE b \in backups[o]
          <6>1. b[1] \in Files /\ b[2] \in BackupNumbers
            BY <1>7, <5>2
          <6>2. file[b[1]] = NoFile \/ aside[b[1]][b[2]] # NoFile
            BY <1>1, <5>2 DEF BackupInv, BackupStage
          <6> QED
            BY <3>4, <4>1, <6>1, <6>2, ContentsDiffer
        <5> QED
          BY <2>2, <5>1, <5>2
      <4> QED
        BY <1>1, <1>7, <1>9, <2>2, <4>1, <4>2 DEF BackupInv, BackupStage
    <3> QED
      BY <2>5, <3>5, <3>6 DEF BackupInv
  <2>9. CASE NotedOnly(op)
    <3>1. file[f] = NoFile /\ UNCHANGED <<file, aside>>
      BY <2>9 DEF NotedOnly, f
    <3>2. \A g \in Files, j \in BackupNumbers : aside[g][j] = By(User) =>
            {o \in Operations : <<g, j>> \in backups'[o]} = {o \in Operations : <<g, j>> \in backups[o]}
      BY <1>3, <2>6, ContentsDiffer
    <3>3. \A o \in Operations : at'[o] = "rename" =>
            at[o] = "rename" /\ FileOf(o)' = FileOf(o) /\ picked'[o] = picked[o]
      BY <1>8, <2>4 DEF FileOf
    <3>4. NamesInStep'
      BY <3>1, <3>2, <3>3 DEF BackupInv, NamesInStep
    <3>5. BackupStage'
      BY <1>1, <1>7, <1>9, <2>2, <2>3, <3>1 DEF BackupInv, BackupStage
    <3> QED
      BY <2>5, <3>4, <3>5 DEF BackupInv
  <2> QED
    BY <1>11, <2>8, <2>9
<1>12. CASE Stayed(op)
  <2>1. UNCHANGED <<file, aside, backups>>
    BY <1>12 DEF Stayed
  <2>2. at'[op] = "look" /\ entry'[op] = entry[op] + 1
    BY <1>7
  <2>3. BackupsOwned'
    <3>1. \A b \in backups[op] : \E k \in 1..(entry'[op] - 1) : Entries[op][k] = b[1]
      <4> SUFFICES ASSUME NEW b \in backups[op]
                   PROVE  \E k \in 1..(entry'[op] - 1) : Entries[op][k] = b[1]
        OBVIOUS
      <4>1. PICK k \in 1..(entry[op] - 1) : Entries[op][k] = b[1]
        BY <1>1 DEF BackupInv, BackupsOwned, Backing
      <4> QED
        BY <1>2, <2>2, <4>1
    <3> QED
      BY <1>8, <2>1, <3>1 DEF BackupInv, BackupsOwned
  <2>4. NamesInStep'
    <3>1. \A o \in Operations : at'[o] = "rename" =>
            at[o] = "rename" /\ FileOf(o)' = FileOf(o) /\ picked'[o] = picked[o]
      BY <1>8, <2>2 DEF FileOf
    <3> QED
      BY <2>1, <3>1 DEF BackupInv, NamesInStep
  <2>5. BackupStage'
    BY <1>7, <2>1 DEF BackupInv, BackupStage
  <2> QED
    BY <2>3, <2>4, <2>5 DEF BackupInv
<1> QED
  BY <1>10, <1>11, <1>12

\* The other steps of the first batch leave the disk as it is, and the second one
\* only takes away what its operations have set aside.
LEMMA BackupStep ==
  ASSUME ExtractInv, [ExtractionNext]_extractionVars PROVE BackupInv'
<1> USE DEF ExtractInv
<1>t. /\ at \in [Operations -> Backing \cup Writing \cup {"idle"}]
      /\ entry \in [Operations -> Nat] /\ picked \in [Operations -> BackupNumbers]
      /\ backups \in [Operations -> SUBSET (Files \X BackupNumbers)]
      /\ task \in [Operations -> TaskState]
  BY DEF ExtractionTypeOK, RunnerTypeOK
\* Nothing is moved, and the threads of the batch go on.
<1>q. ASSUME UNCHANGED <<backups, aside, stage>>, stage = "backup" => file' = file,
             stage # "ready",
             \A o \in Operations : task'[o] = "queued" /\ stage = "backup" => task[o] = "queued",
             \A o \in Operations :
               /\ at'[o] \in Backing => (at[o] \in Backing /\ entry'[o] \in {entry[o], entry[o] + 1})
               /\ at'[o] = "rename" =>
                    FileOf(o)' = FileOf(o) /\ aside[FileOf(o)][picked'[o]] = NoFile
      PROVE  BackupInv'
  <2>1. BackupsOwned'
    <3> SUFFICES ASSUME NEW o \in Operations, NEW b \in backups[o], at'[o] \in Backing
                 PROVE  \E k \in 1..(entry'[o] - 1) : Entries[o][k] = b[1]
      BY <1>q DEF BackupInv, BackupsOwned
    <3>1. PICK k \in 1..(entry[o] - 1) : Entries[o][k] = b[1]
      BY <1>q DEF BackupInv, BackupsOwned
    <3>2. k \in 1..(entry'[o] - 1)
      BY <1>q, <1>t
    <3> QED
      BY <3>1, <3>2
  <2>2. NamesInStep'
    BY <1>q DEF BackupInv, NamesInStep
  <2>3. BackupStage'
    BY <1>q DEF BackupInv, BackupStage
  <2> QED
    BY <2>1, <2>2, <2>3 DEF BackupInv
<1>i. ASSUME UNCHANGED <<backups, aside>>, stage' \notin {"ready", "backup"},
             \A o \in Operations : at'[o] \notin Backing
      PROVE  BackupInv'
  BY <1>i DEF BackupInv, BackupsOwned, NamesInStep, BackupStage, Backing
<1>w. \A o \in Operations : stage # "backup" => at[o] \notin Backing
  BY DEF PlacesInStep, PlaceOf
<1>1. CASE BackupAll
  <2>1. UNCHANGED <<backups, aside, file, at, entry, picked>> /\ stage = "ready" /\ ~looping
    BY <1>1 DEF BackupAll, Run, Idle, threadVars, outcomeVars, diskVars
  <2>2. \A o \in Operations : backups[o] = {} /\ at[o] = "idle"
    BY <2>1, AllIdle DEF BackupInv, BackupStage
  <2>3. stage' = "backup"
    BY <1>1 DEF BackupAll
  <2> QED
    BY <2>1, <2>2, <2>3 DEF BackupInv, BackupsOwned, NamesInStep, BackupStage, Backing
<1>2. CASE UnpackAll \/ CollectAll \/ Unpacked \/ RollBack \/ RolledBack
  <2>1. ~looping /\ stage # "retry"
    BY <1>2 DEF GuardInv, ThreadsOK, CallerWaits, UnpackAll, CollectAll, Unpacked,
                RollBack, RolledBack
  <2>2. UNCHANGED <<backups, aside, at>> /\ stage' \notin {"ready", "backup"}
    BY <1>2 DEF UnpackAll, CollectAll, Unpacked, RollBack, RolledBack, Idle, threadVars,
                outcomeVars, diskVars
  <2>3. \A o \in Operations : at'[o] \notin Backing
    BY <2>1, <2>2, AllIdle DEF Backing
  <2> QED
    BY <1>i, <2>2, <2>3
<1>3. CASE Interrupt
  <2>1. UNCHANGED <<backups, aside, file, stage, at, entry, picked, task>> /\ stage # "ready"
    BY <1>3 DEF Interrupt, outcomeVars, diskVars, runnerVars, Cancel
  <2> QED
    BY <1>q, <2>1 DEF FileOf, BackupInv, NamesInStep
<1>4. CASE UNCHANGED extractionVars
  BY <1>4 DEF extractionVars, runnerVars, sessionVars, threadVars, outcomeVars, diskVars,
              BackupInv, BackupsOwned, NamesInStep, BackupStage, FileOf
<1>5. ASSUME NEW op \in Operations, Collect(op) \/ Undo(op) PROVE BackupInv'
  <2>1. UNCHANGED <<backups, aside, at, stage>> /\ stage \notin {"ready", "backup"}
    BY <1>5 DEF Collect, Undo, Idle, threadVars, outcomeVars, diskVars
  <2> QED
    BY <1>i, <1>w, <2>1
<1>6. ASSUME NEW op \in Operations, Retry(op) PROVE BackupInv'
  <2>1. UNCHANGED <<backups, aside>> /\ stage = "collect" /\ stage' = "retry"
        /\ at' = [at EXCEPT ![op] = "entry"]
    BY <1>6, RetryFacts
  <2> QED
    BY <1>i, <1>t, <1>w, <2>1 DEF Backing
<1>7. ASSUME NEW op \in Operations, Start(op) PROVE BackupInv'
  <2>1. /\ stage \in {"backup", "unpack"} /\ task[op] = "queued"
        /\ task' = [task EXCEPT ![op] = "running"]
        /\ at' = [at EXCEPT ![op] = IF stage = "backup" THEN "look" ELSE "entry"]
        /\ UNCHANGED <<entry, picked, backups, stage, file, aside>>
    BY <1>7, StartFacts
  <2>2. CASE stage = "unpack"
    BY <1>i, <1>t, <1>w, <2>1, <2>2 DEF Backing
  <2>3. CASE stage = "backup"
    <3>1. backups[op] = {}
      BY <2>1, <2>3 DEF BackupInv, BackupStage
    <3>2. \A o \in Operations : at'[o] # at[o] => o = op /\ at'[o] = "look"
      BY <1>t, <2>1, <2>3
    <3>3. \A o \in Operations : task'[o] = "queued" => task[o] = "queued"
      BY <1>t, <2>1
    <3> QED
      BY <2>1, <2>3, <3>1, <3>2, <3>3
         DEF BackupInv, BackupsOwned, NamesInStep, BackupStage, FileOf
  <2> QED
    BY <2>1, <2>2, <2>3
<1>8. ASSUME NEW op \in Operations, Skip(op) \/ Handle(op) PROVE BackupInv'
  <2>1. UNCHANGED <<backups, aside, file, stage, at, entry, picked>>
    BY <1>8 DEF Skip, Handle, sessionVars, threadVars, outcomeVars, diskVars
  <2>2. \A o \in Operations : task'[o] = "queued" => task[o] = "queued"
    BY <1>8, <1>t DEF Skip, SkipTask, Handle, HandleFinished
  <2> QED
    BY <2>1, <2>2 DEF BackupInv, BackupsOwned, NamesInStep, BackupStage, FileOf
<1>9. ASSUME NEW op \in Operations, BackedUp(op) \/ CannotBackUp(op) PROVE BackupInv'
  <2>1. UNCHANGED <<backups, aside, file, stage>> /\ stage = "backup"
    BY <1>9 DEF BackedUp, CannotBackUp, sessionVars, outcomeVars, diskVars, PlacesInStep, PlaceOf,
                Backing
  <2>2. /\ at' = [at EXCEPT ![op] = "idle"] /\ entry' = [entry EXCEPT ![op] = 1]
        /\ picked' = [picked EXCEPT ![op] = 0] /\ task' = [task EXCEPT ![op] = "ended"]
    BY <1>9 DEF BackedUp, CannotBackUp, Leave, EndTask
  <2>3. \A o \in Operations : task'[o] = "queued" => task[o] = "queued"
    BY <1>t, <2>2
  <2>4. \A o \in Operations :
          at'[o] \in Backing => at[o] \in Backing /\ entry'[o] = entry[o] /\ picked'[o] = picked[o]
                                /\ at'[o] = at[o]
    BY <1>t, <2>2 DEF Backing
  <2>5. \A o \in Operations : at'[o] = "rename" =>
          FileOf(o)' = FileOf(o) /\ aside[FileOf(o)][picked'[o]] = NoFile
    BY <2>4 DEF BackupInv, NamesInStep, FileOf, Backing
  <2> QED
    BY <1>q, <2>1, <2>3, <2>4, <2>5
<1>10. ASSUME NEW op \in Operations, WorkerFinished(op) PROVE BackupInv'
  <2>1. /\ stage \in {"unpack", "retry"} /\ stage' \in {"unpack", "retry", "collect"}
        /\ at' = [at EXCEPT ![op] = "idle"] /\ backups' = backups
        /\ aside' = [f \in Files |-> [i \in BackupNumbers |->
             IF <<f, i>> \in backups[op] THEN NoFile ELSE aside[f][i]]]
    BY <1>10 DEF WorkerFinished, Leave, PlacesInStep, PlaceOf, Writing
  <2>2. \A o \in Operations : at'[o] \notin Backing
    BY <1>t, <1>w, <2>1 DEF Backing
  <2>3. \A f \in Files, i \in BackupNumbers :
          /\ aside'[f][i] = IF <<f, i>> \in backups[op] THEN NoFile ELSE aside[f][i]
          /\ <<f, i>> \in backups[op] => ~(i = 0 /\ f \in Leftovers)
    <3> SUFFICES ASSUME NEW f \in Files, NEW i \in BackupNumbers
                 PROVE  /\ aside'[f][i] = IF <<f, i>> \in backups[op] THEN NoFile ELSE aside[f][i]
                        /\ <<f, i>> \in backups[op] => ~(i = 0 /\ f \in Leftovers)
      OBVIOUS
    <3>1. <<f, i>>[1] = f /\ <<f, i>>[2] = i
      OBVIOUS
    <3> QED
      BY <2>1, <3>1 DEF BackupInv, BackupsOwned
  <2>4. NamesInStep'
    BY <2>1, <2>2, <2>3, ContentsDiffer DEF BackupInv, NamesInStep, Backing
  <2> QED
    BY <2>1, <2>2, <2>4 DEF BackupInv, BackupsOwned, BackupStage
<1>11. ASSUME NEW op \in Operations, Look(op) \/ LockBackup(op) PROVE BackupInv'
  <2>1. /\ UNCHANGED <<backups, aside, file, stage, picked, task>> /\ at[op] \in Backing
        /\ at'[op] \in {"look", "guard", "pick"} /\ entry'[op] \in {entry[op], entry[op] + 1}
        /\ \A o \in Operations \ {op} : at'[o] = at[o] /\ entry'[o] = entry[o]
    BY <1>11, <1>t DEF Look, LockBackup, At, NextEntry, sessionVars, outcomeVars, diskVars,
                       runnerVars, Backing
  <2>2. stage = "backup"
    BY <1>w, <2>1
  <2>3. \A o \in Operations : at'[o] = "rename" =>
          FileOf(o)' = FileOf(o) /\ aside[FileOf(o)][picked'[o]] = NoFile
    BY <2>1 DEF BackupInv, NamesInStep, FileOf
  <2> QED
    BY <1>q, <2>1, <2>2, <2>3
<1>12. ASSUME NEW op \in Operations, Pick(op) PROVE BackupInv'
  <2>1. /\ UNCHANGED <<backups, aside, file, stage, entry, task>> /\ at[op] = "pick"
        /\ at' = [at EXCEPT ![op] = "rename"]
        /\ picked' = [picked EXCEPT ![op] = FreeName(FileOf(op))]
    BY <1>12 DEF Pick, At, sessionVars, outcomeVars, diskVars, runnerVars
  <2>2. stage = "backup"
    BY <1>w, <2>1 DEF Backing
  <2>3. aside[FileOf(op)][FreeName(FileOf(op))] = NoFile
    BY <2>1, FreeNameExists
  <2>4. \A o \in Operations : at'[o] = "rename" =>
          FileOf(o)' = FileOf(o) /\ aside[FileOf(o)][picked'[o]] = NoFile
    BY <1>t, <2>1, <2>3 DEF BackupInv, NamesInStep, FileOf
  <2>5. \A o \in Operations : at'[o] \in Backing => at[o] \in Backing /\ entry'[o] = entry[o]
    BY <1>t, <2>1 DEF Backing
  <2> QED
    BY <1>q, <2>1, <2>2, <2>4, <2>5
<1>13. ASSUME NEW op \in Operations,
              \/ Proceed(op) \/ LockEntry(op) \/ CancelWaiting(op) \/ WriteHeader(op)
              \/ WriteData(op) \/ OpenStream(op) \/ WriteFirst(op) \/ WriteRest(op)
              \/ Complete(op) \/ BreakOff(op) \/ ReceiveEntry(op)
       PROVE  BackupInv'
  <2>1. UNCHANGED <<backups, aside, stage>>
    BY <1>13 DEF Proceed, LockEntry, CancelWaiting, WriteHeader, WriteData, OpenStream, WriteFirst,
       WriteRest, Complete, BreakOff, ReceiveEntry, sessionVars, outcomeVars, diskVars
  <2>2. at[op] \in Writing
    BY <1>13 DEF Proceed, LockEntry, CancelWaiting, WriteHeader, WriteData, OpenStream, WriteFirst,
       WriteRest, Complete, BreakOff, ReceiveEntry, MessagesInStep, MessagesOf, Writing
  <2>3. stage \in {"unpack", "retry"}
    BY <2>2 DEF PlacesInStep, PlaceOf
  <2>4. \A o \in Operations : at'[o] \notin Backing
    <3>1. at'[op] \notin Backing /\ \A o \in Operations \ {op} : at'[o] = at[o]
      BY <1>13, <1>t, <2>2 DEF Proceed, LockEntry, CancelWaiting, WriteHeader, WriteData, OpenStream,
         WriteFirst, WriteRest, Complete, BreakOff, ReceiveEntry, At, Backing, Writing
    <3> QED
      BY <1>w, <2>3, <3>1
  <2> QED
    BY <1>i, <2>1, <2>3, <2>4
<1> QED
  BY <1>1, <1>2, <1>3, <1>4, <1>5, <1>6, <1>7, <1>8, <1>9, <1>10, <1>11, <1>12, <1>13, RenameStep
     DEF ExtractionNext, ThreadStep, WorkerStep

-----------------------------------------------------------------------------
(* The data files                                                          *)

\* The steps between the beginning and the end of the work for an operation
\* leave its stage of work, the outcomes and the lists alone.
LEMMA MiddleFacts ==
  ASSUME ExtractInv, NEW op \in Operations,
         \/ Look(op) \/ LockBackup(op) \/ Pick(op) \/ Rename(op) \/ Proceed(op)
         \/ LockEntry(op) \/ CancelWaiting(op) \/ WriteHeader(op) \/ WriteData(op)
         \/ OpenStream(op) \/ WriteFirst(op) \/ WriteRest(op) \/ Complete(op) \/ BreakOff(op)
  PROVE  /\ UNCHANGED <<stage, undone, left, recorded, failed, succeeded, earlier, list, extracted>>
         /\ at[op] # "idle" /\ (at'[op] \in Writing <=> at[op] \in Writing)
         /\ \A o \in Operations \ {op} : at'[o] = at[o] /\ entry'[o] = entry[o] /\ inbox'[o] = inbox[o]
<1>t. /\ at \in [Operations -> Backing \cup Writing \cup {"idle"}]
      /\ entry \in [Operations -> Nat] /\ inbox \in [Operations -> Seq(Events)]
  BY DEF ExtractInv, ExtractionTypeOK
<1>1. UNCHANGED <<stage, undone, left, recorded, failed, succeeded, earlier, list, extracted>>
  BY DEF Look, LockBackup, Pick, Rename, Proceed, LockEntry, CancelWaiting, WriteHeader, WriteData,
         OpenStream, WriteFirst, WriteRest, Complete, BreakOff, sessionVars, outcomeVars, diskVars
<1>2. at[op] # "idle" /\ (at'[op] \in Writing <=> at[op] \in Writing)
  BY <1>t DEF Look, LockBackup, Pick, Rename, Proceed, LockEntry, CancelWaiting, WriteHeader,
     WriteData, OpenStream, WriteFirst, WriteRest, Complete, BreakOff, At, Backing, Writing
<1>3. \A o \in Operations \ {op} : at'[o] = at[o] /\ entry'[o] = entry[o] /\ inbox'[o] = inbox[o]
  BY <1>t DEF Look, LockBackup, Pick, Rename, Proceed, LockEntry, CancelWaiting, WriteHeader,
     WriteData, OpenStream, WriteFirst, WriteRest, Complete, BreakOff, At, NextEntry, Post
<1> QED
  BY <1>1, <1>2, <1>3

\* The data files follow what the operations were told.
LEMMA ListsStep ==
  ASSUME ExtractInv, [ExtractionNext]_extractionVars PROVE ListsInStep'
<1> USE DEF ExtractInv
<1>t. /\ at \in [Operations -> Backing \cup Writing \cup {"idle"}]
      /\ list \in [Names -> SUBSET Files] /\ extracted \in [Operations -> SUBSET Files]
      /\ \A o \in Operations : ListOf[o] \in Names
  BY DEF ExtractionTypeOK, Names
<1>q. ASSUME UNCHANGED <<list, undone, extracted, failed, succeeded>>,
             stage' \in {"ready", "backup"} => stage \in {"ready", "backup"},
             stage \in {"undo", "over"} => stage' \in {"undo", "over"},
             \A o \in Operations : at'[o] \notin Writing => at[o] \notin Writing
      PROVE  ListsInStep'
  BY <1>q DEF ListsInStep, Sharing
<1>1. CASE \/ BackupAll \/ UnpackAll \/ CollectAll \/ Unpacked \/ RollBack \/ RolledBack
           \/ Interrupt \/ UNCHANGED extractionVars
  BY <1>1, <1>q DEF BackupAll, UnpackAll, CollectAll, Unpacked, RollBack, RolledBack, Interrupt,
     Idle, threadVars, outcomeVars, diskVars, extractionVars, sessionVars
<1>2. ASSUME NEW op \in Operations, Collect(op) \/ Skip(op) \/ Handle(op) PROVE ListsInStep'
  BY <1>2, <1>q DEF Collect, Skip, Handle, Idle, threadVars, outcomeVars, diskVars, sessionVars
<1>3. ASSUME NEW op \in Operations, Undo(op) PROVE ListsInStep'
  <2>1. /\ stage = "undo" /\ stage' = stage /\ UNCHANGED <<at, extracted, failed, succeeded>>
        /\ undone' = undone \cup {op} /\ list' = [list EXCEPT ![ListOf[op]] = {}]
    BY <1>3 DEF Undo, threadVars, outcomeVars
  <2>2. \A n \in Names : list'[n] \subseteq list[n]
    BY <1>t, <2>1
  <2>3. \A o \in Operations : OwnList(o) /\ o \notin undone' => list'[ListOf[o]] = list[ListOf[o]]
    BY <1>t, <2>1 DEF OwnList
  <2> QED
    BY <2>1, <2>2, <2>3 DEF ListsInStep, Sharing
<1>4. ASSUME NEW op \in Operations, Start(op) \/ Retry(op) PROVE ListsInStep'
  <2>1. /\ UNCHANGED <<list, undone, failed, succeeded>> /\ at[op] = "idle"
        /\ stage' \in {"ready", "backup"} => stage \in {"ready", "backup"}
        /\ stage \notin {"undo", "over"}
    BY <1>4, StartFacts, RetryFacts
  <2>2. extracted' = [extracted EXCEPT ![op] = {}]
    BY <1>4 DEF Start, Retry, Enter
  <2>3. stage # "backup" => at' = [at EXCEPT ![op] = "entry"]
    BY <1>4, StartFacts, RetryFacts
  <2>5. CASE stage = "backup"
    <3>1. extracted' = extracted
      BY <1>t, <2>2, <2>5 DEF ListsInStep
    <3>2. \A o \in Operations : at[o] \notin Writing
      BY <2>5 DEF PlacesInStep, PlaceOf
    <3> QED
      BY <1>q, <2>1, <3>1, <3>2
  <2>6. CASE stage # "backup"
    <3>1. at'[op] \in Writing /\ \A o \in Operations \ {op} : at'[o] = at[o] /\ extracted'[o] = extracted[o]
      BY <1>t, <2>2, <2>3, <2>6 DEF Writing
    <3>2. stage' \notin {"ready", "backup"}
      BY <1>4, <2>6, StartFacts, RetryFacts
    <3> QED
      BY <2>1, <3>1, <3>2 DEF ListsInStep, Sharing
  <2> QED
    BY <2>5, <2>6
<1>5. ASSUME NEW op \in Operations, BackedUp(op) \/ CannotBackUp(op) PROVE ListsInStep'
  <2>1. /\ UNCHANGED <<list, undone, extracted, succeeded, stage>> /\ failed \subseteq failed'
        /\ at[op] = "look" /\ at' = [at EXCEPT ![op] = "idle"]
    BY <1>5 DEF BackedUp, CannotBackUp, Leave, sessionVars, outcomeVars, diskVars
  <2>2. \A o \in Operations : at'[o] \notin Writing => at[o] \notin Writing
    BY <1>t, <2>1 DEF Writing
  <2> QED
    BY <2>1, <2>2 DEF ListsInStep, Sharing
<1>6. ASSUME NEW op \in Operations, WorkerFinished(op) PROVE ListsInStep'
  <2>1. /\ stage \in {"unpack", "retry"} /\ stage' \in {"unpack", "collect"}
        /\ at' = [at EXCEPT ![op] = "idle"] /\ UNCHANGED <<undone, extracted>>
        /\ list' = [list EXCEPT ![ListOf[op]] = extracted[op]]
        /\ failed \subseteq failed' /\ succeeded \subseteq succeeded' /\ op \in succeeded' \cup failed'
    BY <1>6 DEF WorkerFinished, Leave, PlacesInStep, PlaceOf, Writing
  <2>2. \A f \in extracted[op] : op \in Sharing(f)
    BY DEF MessagesInStep, MessagesOf, Sharing
  <2>3. \A n \in Names : list'[n] = IF n = ListOf[op] THEN extracted[op] ELSE list[n]
    BY <1>t, <2>1
  <2>4. \A n \in Names : \A f \in list'[n] : \E o \in Sharing(f) : o \in succeeded' \cup failed'
    BY <2>1, <2>2, <2>3 DEF ListsInStep
  <2>5. \A o \in Operations : OwnList(o) /\ at'[o] \notin Writing /\ o \notin undone =>
          list'[ListOf[o]] = extracted[o]
    <3> SUFFICES ASSUME NEW o \in Operations, OwnList(o), at'[o] \notin Writing, o \notin undone
                 PROVE  list'[ListOf[o]] = extracted[o]
      OBVIOUS
    <3>1. CASE o = op
      BY <1>t, <2>3, <3>1
    <3>2. CASE o # op
      <4>1. ListOf[op] # ListOf[o] /\ at[o] \notin Writing
        BY <1>t, <2>1, <3>2 DEF OwnList
      <4> QED
        BY <1>t, <2>3, <4>1 DEF ListsInStep
    <3> QED
      BY <3>1, <3>2
  <2> QED
    BY <2>1, <2>4, <2>5 DEF ListsInStep, Sharing
<1>7. ASSUME NEW op \in Operations, ReceiveEntry(op) PROVE ListsInStep'
  <2>1. at[op] \in Writing
    BY <1>7 DEF ReceiveEntry, MessagesInStep, MessagesOf
  <2>2. stage \in {"unpack", "retry"}
    BY <2>1 DEF PlacesInStep, PlaceOf
  <2>3. /\ UNCHANGED <<list, undone, failed, succeeded, stage, at>>
        /\ \A o \in Operations \ {op} : extracted'[o] = extracted[o]
    BY <1>7, <1>t DEF ReceiveEntry, sessionVars, outcomeVars, diskVars
  <2> QED
    BY <2>1, <2>2, <2>3 DEF ListsInStep, Sharing
<1>8. ASSUME NEW op \in Operations,
             \/ Look(op) \/ LockBackup(op) \/ Pick(op) \/ Rename(op) \/ Proceed(op)
             \/ LockEntry(op) \/ CancelWaiting(op) \/ WriteHeader(op) \/ WriteData(op)
             \/ OpenStream(op) \/ WriteFirst(op) \/ WriteRest(op) \/ Complete(op) \/ BreakOff(op)
      PROVE  ListsInStep'
  <2>1. \A o \in Operations : at'[o] \notin Writing => at[o] \notin Writing
    BY <1>8, MiddleFacts
  <2> QED
    BY <1>8, <1>q, <2>1, MiddleFacts
<1> QED
  BY <1>1, <1>2, <1>3, <1>4, <1>5, <1>6, <1>7, <1>8 DEF ExtractionNext, ThreadStep, WorkerStep

\* What an operation is told stays known.
LEMMA TellStep ==
  ASSUME ExtractInv, [ExtractionNext]_extractionVars
  PROVE  \A o \in Operations : (earlier[o] \cup Told(o)) \cap Files \subseteq (earlier[o] \cup Told(o))'
<1> USE DEF ExtractInv
<1>t. /\ inbox \in [Operations -> Seq(Events)] /\ extracted \in [Operations -> SUBSET Files]
      /\ earlier \in [Operations -> SUBSET Files]
  BY DEF ExtractionTypeOK
<1>q. ASSUME UNCHANGED <<inbox, extracted, earlier>>
      PROVE  \A o \in Operations : (earlier[o] \cup Told(o)) \cap Files \subseteq (earlier[o] \cup Told(o))'
  BY <1>q DEF Told, Posted
<1>o. ASSUME NEW op \in Operations, earlier'[op] = earlier[op],
             Told(op) \cap Files \subseteq Told(op)',
             \A o \in Operations \ {op} : inbox'[o] = inbox[o] /\ extracted'[o] = extracted[o]
                                          /\ earlier'[o] = earlier[o]
      PROVE  \A o \in Operations : (earlier[o] \cup Told(o)) \cap Files \subseteq (earlier[o] \cup Told(o))'
  BY <1>o DEF Told, Posted
<1>1. CASE \/ BackupAll \/ UnpackAll \/ CollectAll \/ Unpacked \/ RollBack \/ RolledBack
           \/ Interrupt \/ UNCHANGED extractionVars
  BY <1>1, <1>q DEF BackupAll, UnpackAll, CollectAll, Unpacked, RollBack, RolledBack, Interrupt,
     Idle, threadVars, outcomeVars, extractionVars
<1>2. ASSUME NEW op \in Operations,
             \/ Collect(op) \/ Undo(op) \/ Skip(op) \/ Handle(op) \/ Look(op) \/ LockBackup(op)
             \/ Pick(op) \/ Rename(op) \/ LockEntry(op) \/ CancelWaiting(op) \/ WriteHeader(op)
             \/ WriteData(op) \/ WriteFirst(op) \/ WriteRest(op)
             \/ (Proceed(op) /\ op \in SevenZip)
      PROVE  UNCHANGED <<inbox, extracted, earlier>>
  BY <1>2 DEF Collect, Undo, Skip, Handle, Look, LockBackup, Pick, Rename, LockEntry, CancelWaiting,
     WriteHeader, WriteData, WriteFirst, WriteRest, Proceed, Idle, threadVars, outcomeVars
<1>3. ASSUME NEW op \in Operations, Start(op) \/ Retry(op)
      PROVE  \A o \in Operations : (earlier[o] \cup Told(o)) \cap Files \subseteq (earlier[o] \cup Told(o))'
  <2>1. /\ earlier' = [earlier EXCEPT ![op] = @ \cup extracted[op]]
        /\ extracted' = [extracted EXCEPT ![op] = {}] /\ inbox' = inbox
    BY <1>3 DEF Start, Retry, Enter
  <2>2. \A o \in Operations : (earlier[o] \cup extracted[o]) = earlier'[o] \cup extracted'[o]
    BY <1>t, <2>1
  <2>3. \A o \in Operations : Posted(o)' = Posted(o)
    BY <2>1 DEF Posted
  <2> QED
    BY <2>2, <2>3 DEF Told
<1>4. ASSUME NEW op \in Operations, BackedUp(op) \/ CannotBackUp(op) \/ WorkerFinished(op)
      PROVE  \A o \in Operations : (earlier[o] \cup Told(o)) \cap Files \subseteq (earlier[o] \cup Told(o))'
  <2>1. UNCHANGED <<extracted, earlier>> /\ inbox' = [inbox EXCEPT ![op] = <<>>]
    BY <1>4 DEF BackedUp, CannotBackUp, WorkerFinished, Leave, outcomeVars
  <2>2. CASE WorkerFinished(op)
    <3>1. Told(op) \cap Files \subseteq Told(op)'
      BY <2>1, <2>2, FinishedFacts DEF Told
    <3> QED
      BY <1>o, <1>t, <2>1, <3>1
  <2>3. CASE at[op] = "look"
    <3>1. inbox[op] = <<>>
      BY <2>3 DEF MessagesInStep, MessagesOf, Writing
    <3>2. inbox' = inbox
      BY <1>t, <2>1, <3>1
    <3> QED
      BY <1>q, <2>1, <3>2
  <2> QED
    BY <1>4, <2>2, <2>3 DEF BackedUp, CannotBackUp
<1>5. ASSUME NEW op \in Operations, ReceiveEntry(op)
      PROVE  \A o \in Operations : (earlier[o] \cup Told(o)) \cap Files \subseteq (earlier[o] \cup Told(o))'
  <2>1. Told(op)' = Told(op)
    BY <1>5, ReceiveFacts
  <2> QED
    BY <1>5, <1>o, <1>t, <2>1 DEF ReceiveEntry, outcomeVars
<1>6. ASSUME NEW op \in Operations, NEW e \in Events, Post(op, e), UNCHANGED <<extracted, earlier>>
      PROVE  \A o \in Operations : (earlier[o] \cup Told(o)) \cap Files \subseteq (earlier[o] \cup Told(o))'
  <2>1. Told(op) \subseteq Told(op)'
    BY <1>6, PostFacts DEF Told
  <2> QED
    BY <1>6, <1>o, <1>t, <2>1 DEF Post
<1>7. ASSUME NEW op \in Operations, OpenStream(op) \/ Complete(op) \/ (Proceed(op) /\ op \notin SevenZip)
      PROVE  \E e \in Events : Post(op, e) /\ UNCHANGED <<extracted, earlier>>
  <2>1. OpenStream(op) \/ Proceed(op) => More(op)
    BY DEF OpenStream, Proceed, PlacesInStep, PlaceOf
  <2>2. OpenStream(op) \/ Proceed(op) => FileOf(op) \in Events
    BY <2>1, EntryAtHand DEF Events
  <2> QED
    BY <1>7, <2>2 DEF OpenStream, Proceed, Complete, outcomeVars, Events
<1>8. ASSUME NEW op \in Operations, BreakOff(op)
      PROVE  \A o \in Operations : (earlier[o] \cup Told(o)) \cap Files \subseteq (earlier[o] \cup Told(o))'
  <2>1. UNCHANGED <<extracted, earlier>>
    BY <1>8 DEF BreakOff, outcomeVars
  <2>2. Told(op) \subseteq Told(op)'
    BY <1>8, <2>1, BreakOffFacts DEF Told
  <2> QED
    BY <1>8, <1>o, <1>t, <2>1, <2>2 DEF BreakOff
<1> QED
  BY <1>1, <1>2, <1>3, <1>4, <1>5, <1>6, <1>7, <1>8, <1>q DEF ExtractionNext, ThreadStep, WorkerStep

\* Writing to the file at hand leaves a trace of the operation, which was told.
LEMMA TraceWritten ==
  ASSUME ExtractInv, NEW op \in Operations, FileOf(op) \in Told(op)',
         \A f \in Files : f # FileOf(op) => file'[f] = file[f],
         \A o \in Operations : o \in {file'[FileOf(op)][1], file'[FileOf(op)][2]} =>
           o = op \/ Leaves(o, FileOf(op)),
         [ExtractionNext]_extractionVars
  PROVE  \A o \in Operations, f \in Files : Leaves(o, f)' => f \in (earlier[o] \cup Told(o))'
<1> SUFFICES ASSUME NEW o \in Operations, NEW f \in Files, Leaves(o, f)'
             PROVE  f \in (earlier[o] \cup Told(o))'
  OBVIOUS
<1>1. Leaves(o, f) => f \in (earlier[o] \cup Told(o))'
  BY TellStep DEF ExtractInv, TracesTold
<1>2. CASE f = FileOf(op)
  BY <1>1, <1>2 DEF Leaves
<1>3. CASE f # FileOf(op)
  BY <1>1, <1>3 DEF Leaves
<1> QED
  BY <1>2, <1>3

\* Files that go or stay leave no new trace.
LEMMA TracesFade ==
  ASSUME ExtractInv, [ExtractionNext]_extractionVars,
         \A f \in Files : file'[f] = file[f] \/ file'[f] = NoFile
  PROVE  \A o \in Operations, f \in Files : Leaves(o, f)' => f \in (earlier[o] \cup Told(o))'
<1> SUFFICES ASSUME NEW o \in Operations, NEW f \in Files, Leaves(o, f)'
             PROVE  f \in (earlier[o] \cup Told(o))'
  OBVIOUS
<1>1. Leaves(o, f)
  BY DEF Leaves
<1> QED
  BY <1>1, TellStep DEF ExtractInv, TracesTold

\* A stream is attached only while its thread writes a file.
LEMMA AttachedFacts ==
  ASSUME ExtractInv, NEW op \in Operations, attached[op]
  PROVE  /\ at[op] \in {"first", "rest"} /\ FileOf(op) \in Files /\ FileOf(op) \in EntriesOf(op)
         /\ op \in SevenZip /\ file[FileOf(op)] # NoFile /\ FileOf(op) \in Told(op)
<1>1. at[op] \in {"first", "rest"} /\ file[FileOf(op)] # NoFile
  BY DEF ExtractInv, TracesTold
<1>2. More(op) /\ op \in SevenZip /\ FileOf(op) \in Told(op)
  BY <1>1 DEF ExtractInv, PlacesInStep, PlaceOf, MessagesInStep, MessagesOf
<1> QED
  BY <1>1, <1>2, EntryAtHand DEF ExtractInv

\* Whatever an operation leaves on the disk, its pool thread is told of it.
LEMMA TracesStep ==
  ASSUME ExtractInv, [ExtractionNext]_extractionVars PROVE TracesTold'
<1> USE DEF ExtractInv
<1>t. /\ at \in [Operations -> Backing \cup Writing \cup {"idle"}]
      /\ entry \in [Operations -> Nat] /\ attached \in [Operations -> BOOLEAN]
      /\ file \in [Files -> Contents]
  BY DEF ExtractionTypeOK
<1>a. \A o \in Operations : attached[o] => at[o] \in {"first", "rest"} /\ file[FileOf(o)] # NoFile
  BY DEF TracesTold
<1>q. ASSUME UNCHANGED file,
             \A o \in Operations : attached'[o] => attached[o] /\ at'[o] = at[o] /\ entry'[o] = entry[o]
      PROVE  TracesTold'
  BY <1>a, <1>q, TracesFade DEF TracesTold, FileOf
<1>1. CASE \/ BackupAll \/ UnpackAll \/ CollectAll \/ Unpacked \/ RollBack \/ RolledBack
           \/ Interrupt \/ UNCHANGED extractionVars
  BY <1>1, <1>q DEF BackupAll, UnpackAll, CollectAll, Unpacked, RollBack, RolledBack, Interrupt,
     Idle, threadVars, diskVars, extractionVars
<1>2. ASSUME NEW op \in Operations,
             \/ Collect(op) \/ Skip(op) \/ Handle(op) \/ CancelWaiting(op) \/ ReceiveEntry(op)
      PROVE  TracesTold'
  BY <1>2, <1>q DEF Collect, Skip, Handle, CancelWaiting, ReceiveEntry, Idle, threadVars, diskVars
<1>3. ASSUME NEW op \in Operations, Undo(op) PROVE TracesTold'
  <2>1. stage = "undo" /\ attached' = attached
    BY <1>3 DEF Undo, threadVars
  <2>2. \A o \in Operations : at[o] \notin Writing
    BY <2>1 DEF PlacesInStep, PlaceOf
  <2>3. \A o \in Operations : ~attached'[o]
    BY <1>a, <2>1, <2>2 DEF Writing
  <2>4. \A f \in Files : file'[f] = file[f] \/ file'[f] = NoFile
    BY <1>3 DEF Undo
  <2> QED
    BY <2>3, <2>4, TracesFade DEF TracesTold
<1>4. ASSUME NEW op \in Operations,
             \/ Start(op) \/ Retry(op) \/ BackedUp(op) \/ CannotBackUp(op) \/ WorkerFinished(op)
             \/ Look(op) \/ LockBackup(op) \/ Pick(op) \/ Proceed(op) \/ LockEntry(op) \/ Complete(op)
      PROVE  TracesTold'
  <2>1. UNCHANGED <<file, attached>>
    BY <1>4, StartFacts, RetryFacts DEF BackedUp, CannotBackUp, WorkerFinished, Leave, Look, LockBackup,
       Pick, Proceed, LockEntry, Complete, diskVars
  <2>2. /\ at[op] \notin {"first", "rest"}
        /\ \A o \in Operations \ {op} : at'[o] = at[o] /\ entry'[o] = entry[o]
    BY <1>4, <1>t, StartFacts, RetryFacts DEF BackedUp, CannotBackUp, WorkerFinished, Leave, Look,
       LockBackup, Pick, Proceed, LockEntry, Complete, At, NextEntry
  <2>3. ~attached[op]
    BY <1>a, <2>2
  <2> QED
    BY <1>q, <2>1, <2>2, <2>3
<1>5. ASSUME NEW op \in Operations, BreakOff(op) PROVE TracesTold'
  BY <1>5, <1>q, <1>t DEF BreakOff, At, diskVars
<1>6. ASSUME NEW op \in Operations, Rename(op) PROVE TracesTold'
  <2>1. stage = "backup" /\ attached' = attached
    BY <1>6 DEF Rename, PlacesInStep, PlaceOf, Backing
  <2>2. \A o \in Operations : at[o] \notin Writing
    BY <2>1 DEF PlacesInStep, PlaceOf
  <2>3. \A o \in Operations : ~attached'[o]
    BY <1>a, <2>1, <2>2 DEF Writing
  <2>4. \A f \in Files : file'[f] = file[f] \/ file'[f] = NoFile
    BY <1>6, <1>t DEF Rename
  <2> QED
    BY <2>3, <2>4, TracesFade DEF TracesTold
<1>7. ASSUME NEW op \in Operations, WriteHeader(op) \/ WriteData(op) \/ OpenStream(op)
      PROVE  TracesTold'
  <2>1. More(op) /\ at[op] \in {"header", "data", "open"}
    BY <1>7 DEF WriteHeader, WriteData, OpenStream, PlacesInStep, PlaceOf
  <2>2. FileOf(op) \in Files /\ FileOf(op) \in Events
    BY <2>1, EntryAtHand DEF Events
  <2>3. FileOf(op) \in Told(op)'
    <3>1. CASE OpenStream(op)
      BY <2>2, <3>1, PostFacts DEF OpenStream, Told
    <3>2. CASE WriteHeader(op) \/ WriteData(op)
      <4>1. FileOf(op) \in Told(op)
        BY <3>2 DEF WriteHeader, WriteData, PlacesInStep, PlaceOf, MessagesInStep, MessagesOf
      <4>2. UNCHANGED <<inbox, extracted>>
        BY <3>2 DEF WriteHeader, WriteData
      <4> QED
        BY <4>1, <4>2 DEF Told, Posted
    <3> QED
      BY <1>7, <3>1, <3>2
  <2>4. PICK c \in {By(op), <<op, None>>} : file' = [file EXCEPT ![FileOf(op)] = c]
    BY <1>7 DEF WriteHeader, WriteData, OpenStream
  <2>5. \A f \in Files : file'[f] = IF f = FileOf(op) THEN c ELSE file[f]
    BY <1>t, <2>4
  <2>6. c # NoFile /\ \A o \in Operations : o \in {c[1], c[2]} => o = op
    BY ExtractionAssumption, ContentsDiffer DEF By
  <2>7. \A o \in Operations, f \in Files : Leaves(o, f)' => f \in (earlier[o] \cup Told(o))'
    BY <2>2, <2>3, <2>5, <2>6, TraceWritten
  <2>8. \A o \in Operations : attached'[o] => at'[o] \in {"first", "rest"} /\ file'[FileOf(o)'] # NoFile
    <3>1. \A o \in Operations \ {op} : attached'[o] => attached[o] /\ at'[o] = at[o] /\ FileOf(o)' = FileOf(o)
      BY <1>7, <1>t DEF WriteHeader, WriteData, OpenStream, At, NextEntry, FileOf
    <3>2. \A o \in Operations \ {op} : attached'[o] => at'[o] \in {"first", "rest"} /\ file'[FileOf(o)'] # NoFile
      BY <2>5, <2>6, <3>1, AttachedFacts
    <3>3. attached'[op] => at'[op] = "first" /\ FileOf(op)' = FileOf(op)
      BY <1>7, <1>a, <1>t, <2>1 DEF WriteHeader, WriteData, OpenStream, At, FileOf
    <3> QED
      BY <2>2, <2>5, <2>6, <3>2, <3>3
  <2> QED
    BY <2>7, <2>8 DEF TracesTold
<1>8. ASSUME NEW op \in Operations, WriteFirst(op) \/ WriteRest(op) PROVE TracesTold'
  <2>1. /\ at[op] \in {"first", "rest"} /\ UNCHANGED <<inbox, extracted>>
        /\ \A o \in Operations \ {op} : attached'[o] = attached[o] /\ at'[o] = at[o] /\ entry'[o] = entry[o]
        /\ attached'[op] => attached[op] /\ at'[op] = "rest" /\ entry'[op] = entry[op]
    BY <1>8, <1>t DEF WriteFirst, WriteRest, At, NextEntry
  <2>2. CASE file' = file
    <3>1. \A o \in Operations : attached'[o] => at'[o] \in {"first", "rest"} /\ file'[FileOf(o)'] # NoFile
      BY <1>a, <2>1, <2>2 DEF FileOf
    <3> QED
      BY <2>2, <3>1, TracesFade DEF TracesTold
  <2>3. ASSUME attached[op], NEW half \in {1, 2}, file' = Write(op, half) PROVE TracesTold'
    <3>1. /\ FileOf(op) \in Files /\ file[FileOf(op)] # NoFile /\ FileOf(op) \in Told(op)
      BY <2>3, AttachedFacts
    <3>2. \A f \in Files : file'[f] = IF f = FileOf(op) THEN [file[f] EXCEPT ![half] = op] ELSE file[f]
      BY <1>t, <2>3 DEF Write
    <3>3. PICK x, y : file[FileOf(op)] = <<x, y>>
      BY <1>t, <3>1 DEF Contents
    <3>4. file'[FileOf(op)] \in {<<op, y>>, <<x, op>>}
      <4>1. file'[FileOf(op)] = [<<x, y>> EXCEPT ![half] = op]
        BY <3>1, <3>2, <3>3
      <4>2. [<<x, y>> EXCEPT ![1] = op] = <<op, y>>
        OBVIOUS
      <4>3. [<<x, y>> EXCEPT ![2] = op] = <<x, op>>
        OBVIOUS
      <4> QED
        BY <4>1, <4>2, <4>3
    <3>5. \A o \in Operations : o \in {file'[FileOf(op)][1], file'[FileOf(op)][2]} =>
            o = op \/ Leaves(o, FileOf(op))
      BY <3>1, <3>3, <3>4 DEF Leaves
    <3>6. FileOf(op) \in Told(op)'
      BY <2>1, <3>1 DEF Told, Posted
    <3>7. \A o \in Operations, f \in Files : Leaves(o, f)' => f \in (earlier[o] \cup Told(o))'
      BY <3>2, <3>5, <3>6, TraceWritten
    <3>8. \A o \in Operations : attached'[o] => at'[o] \in {"first", "rest"} /\ file'[FileOf(o)'] # NoFile
      <4>1. file'[FileOf(op)] # NoFile
        BY <3>4 DEF NoFile
      <4>2. \A o \in Operations : attached'[o] => attached[o] /\ FileOf(o)' = FileOf(o) /\ at'[o] \in {"first", "rest"}
        BY <1>a, <2>1 DEF FileOf
      <4>3. \A o \in Operations : attached[o] => FileOf(o) \in Files /\ file[FileOf(o)] # NoFile
        BY AttachedFacts
      <4>4. \A f \in Files : file[f] # NoFile => file'[f] # NoFile
        BY <3>2, <4>1
      <4> QED
        BY <4>2, <4>3, <4>4
    <3> QED
      BY <3>7, <3>8 DEF TracesTold
  <2> QED
    BY <1>8, <2>2, <2>3 DEF WriteFirst, WriteRest
<1> QED
  BY <1>1, <1>2, <1>3, <1>4, <1>5, <1>6, <1>7, <1>8 DEF ExtractionNext, ThreadStep, WorkerStep

-----------------------------------------------------------------------------
(* The extracted files                                                     *)

\* What "at most one 7z" means.
LEMMA OneSevenZip ==
  ASSUME NEW f, Cardinality(Sharing(f) \cap SevenZip) <= 1,
         NEW x \in Sharing(f) \cap SevenZip, NEW y \in Sharing(f) \cap SevenZip
  PROVE  x = y
<1> DEFINE S == Sharing(f) \cap SevenZip
<1>1. IsFiniteSet(S)
  BY ExtractionAssumption, FS_Subset DEF Sharing
<1>2. IsFiniteSet(S \ {x}) /\ Cardinality(S \ {x}) = Cardinality(S) - 1 /\ Cardinality(S) \in Nat
  BY <1>1, FS_RemoveElement, FS_CardinalityType
<1>3. Cardinality(S \ {x}) = 0
  BY <1>2, FS_CardinalityType
<1>4. S \ {x} = {}
  BY <1>2, <1>3, FS_EmptySet
<1> QED
  BY <1>4

\* A step that writes nothing to a file and brings no thread to it.
LEMMA WholeKept ==
  ASSUME NEW f, WholeAt(f), file'[f] = file[f],
         \A x \in Operations : Opened(x, f)' => Opened(x, f),
         \A y \in Operations : Past(y, f)' => Past(y, f) \/ file[f] # <<y, None>>,
         \A y \in Operations : at'[y] = "data" /\ FileOf(y)' = f => at[y] = "data" /\ FileOf(y) = f,
         \A y \in Operations : at'[y] \in {"first", "rest"} /\ FileOf(y)' = f =>
           at[y] \in {"first", "rest"} /\ FileOf(y) = f /\ (attached'[y] <=> attached[y])
  PROVE  WholeAt(f)'
<1>1. Sharing(f)' = Sharing(f)
  BY DEF Sharing
<1> QED
  BY <1>1 DEF WholeAt

\* Nothing is open or past when nothing is extracted yet.
LEMMA WholeUntouched ==
  ASSUME NEW f, \A o \in Operations : at'[o] \notin Writing, succeeded' = {}
  PROVE  WholeAt(f)'
<1>1. \A o \in Operations : ~Past(o, f)' /\ ~Opened(o, f)' /\ at'[o] \notin {"data", "first", "rest"}
  BY DEF Past, Opened, Writing
<1> QED
  BY <1>1 DEF WholeAt

\* The same for all files, when the other operations stay where they are.
LEMMA WholeQuiet ==
  ASSUME ExtractInv, NEW op \in Operations, UNCHANGED file,
         stage' \notin {"undo", "over"} => stage \notin {"undo", "over"},
         \A o \in Operations \ {op} :
           at'[o] = at[o] /\ entry'[o] = entry[o] /\ (o \in succeeded' <=> o \in succeeded)
           /\ attached'[o] = attached[o],
         \A f \in Files : Past(op, f)' => Past(op, f),
         at'[op] \notin {"data", "first", "rest"}
  PROVE  WholeInStep'
<1> SUFFICES ASSUME stage' \notin {"undo", "over"}, NEW f \in Files,
                    Cardinality(Sharing(f) \cap SevenZip) <= 1
             PROVE  WholeAt(f)'
  BY DEF WholeInStep, Sharing
<1>1. WholeAt(f)
  BY DEF ExtractInv, WholeInStep
<1>2. \A o \in Operations \ {op} : FileOf(o)' = FileOf(o) /\ (Past(o, f)' <=> Past(o, f))
  BY DEF FileOf, Past, Sharing
<1>3. \A o \in Operations : Past(o, f)' => Past(o, f)
  BY <1>2
<1>4. \A o \in Operations : Opened(o, f)' => Opened(o, f)
  BY <1>2, <1>3 DEF Opened
<1> QED
  BY <1>1, <1>2, <1>3, <1>4, WholeKept

\* A writing step of one thread: the other threads stay, and it stays a writer.
LEMMA WriterFacts ==
  ASSUME ExtractInv, NEW op \in Operations,
         WriteHeader(op) \/ WriteData(op) \/ OpenStream(op) \/ WriteFirst(op) \/ WriteRest(op)
  PROVE  /\ FileOf(op) \in Files /\ op \in Sharing(FileOf(op)) /\ op \notin succeeded
         /\ at[op] \in Writing /\ at'[op] \in Writing /\ stage' = stage /\ succeeded' = succeeded
         /\ \A k \in 1..(entry[op] - 1) : Entries[op][k] # FileOf(op)
         /\ \A o \in Operations \ {op} : at'[o] = at[o] /\ entry'[o] = entry[o]
         /\ \A o \in Operations \ {op} : \A f : FileOf(o)' = FileOf(o) /\ (Past(o, f)' <=> Past(o, f))
<1>1. /\ at[op] \in {"header", "data", "open", "first", "rest"} /\ at[op] \in Writing
      /\ stage' = stage /\ succeeded' = succeeded /\ at'[op] \in Writing
      /\ \A o \in Operations \ {op} : at'[o] = at[o] /\ entry'[o] = entry[o]
  BY MiddleFacts DEF WriteHeader, WriteData, OpenStream, WriteFirst, WriteRest, Writing
<1>2. op \notin succeeded /\ More(op)
  BY <1>1 DEF ExtractInv, PlacesInStep, PlaceOf
<1>3. FileOf(op) \in Files /\ FileOf(op) \in EntriesOf(op) /\ entry[op] \in 1..Len(Entries[op])
  BY <1>2, EntryAtHand DEF ExtractInv
<1>4. \A k \in 1..(entry[op] - 1) : k \in 1..Len(Entries[op]) /\ k # entry[op]
  BY <1>3, EntriesFacts
<1>5. \A k \in 1..(entry[op] - 1) : Entries[op][k] # FileOf(op)
  BY <1>3, <1>4, EntriesFacts DEF FileOf
<1>6. \A o \in Operations \ {op} : \A f : FileOf(o)' = FileOf(o) /\ (Past(o, f)' <=> Past(o, f))
  BY <1>1 DEF FileOf, Past, Sharing
<1> QED
  BY <1>1, <1>2, <1>3, <1>5, <1>6 DEF Sharing

\* A file is opened: it is empty now, and only its new writer writes to it.
LEMMA WholeOpened ==
  ASSUME ExtractInv, NEW op \in Operations, WriteHeader(op) \/ OpenStream(op),
         NEW f \in Files, Cardinality(Sharing(f) \cap SevenZip) <= 1, WholeAt(f)
  PROVE  WholeAt(f)'
<1> DEFINE F == FileOf(op)
<1>t. /\ at \in [Operations -> Backing \cup Writing \cup {"idle"}]
      /\ attached \in [Operations -> BOOLEAN] /\ file \in [Files -> Contents]
  BY DEF ExtractInv, ExtractionTypeOK
<1>w. /\ F \in Files /\ op \in Sharing(F) /\ op \notin succeeded
      /\ at[op] \in Writing /\ at'[op] \in Writing /\ stage' = stage /\ succeeded' = succeeded
      /\ \A k \in 1..(entry[op] - 1) : Entries[op][k] # F
      /\ \A o \in Operations \ {op} : at'[o] = at[o] /\ entry'[o] = entry[o]
      /\ \A o \in Operations \ {op} : FileOf(o)' = FileOf(o) /\ (Past(o, f)' <=> Past(o, f))
  BY WriterFacts
<1>e. /\ entry' = entry /\ FileOf(op)' = F /\ (Past(op, f)' <=> Past(op, f))
      /\ file' = [file EXCEPT ![F] = <<op, None>>]
      /\ at[op] \in {"header", "open"} /\ at'[op] = IF at[op] = "header" THEN "data" ELSE "first"
  BY <1>t, <1>w DEF WriteHeader, OpenStream, At, Past, Sharing, FileOf
<1>h. \A y \in Operations \ {op} : at[y] = "data" => FileOf(y) # F
  BY <1>e DEF ExtractInv, GuardInv, GuardsExclude, Holding
<1>1. CASE f # F
  <2>1. file'[f] = file[f]
    BY <1>t, <1>1, <1>e
  <2>2. \A y \in Operations \ {op} : FileOf(y) = f => (attached'[y] <=> attached[y])
    BY <1>t, <1>1 DEF WriteHeader, OpenStream
  <2>3. \A x \in Operations : Opened(x, f)' => Opened(x, f)
    BY <1>1, <1>w, <1>e DEF Opened
  <2> QED
    BY <1>1, <1>w, <1>e, <2>1, <2>2, <2>3, WholeKept
<1>2. CASE f = F
  <2>1. file'[f] = <<op, None>> /\ op \in Sharing(f)'
    BY <1>t, <1>w, <1>e, <1>2 DEF Sharing
  <2>2. \A y \in Operations : file'[f] = <<y, None>> => y = op
    BY <2>1
  <2>3. ~Past(op, f)'
    BY <1>2, <1>w, <1>e DEF Past
  <2>4. \A y \in Operations : at'[y] = "data" /\ FileOf(y)' = f => y = op
    BY <1>2, <1>w, <1>h
  <2>5. ASSUME NEW y \in Operations, at'[y] \in {"first", "rest"}, FileOf(y)' = f
        PROVE  attached'[y] <=> file'[f] = <<y, None>>
    <3>1. CASE WriteHeader(op)
      <4>1. y # op
        BY <2>5, <3>1, <1>t DEF WriteHeader, At
      <4>2. at[y] \in {"first", "rest"} /\ FileOf(y) = F
        BY <1>2, <1>w, <2>5, <4>1
      <4>3. ~attached'[y]
        BY <3>1, <4>2 DEF WriteHeader
      <4> QED
        BY <2>2, <4>1, <4>3
    <3>2. CASE OpenStream(op)
      <4>1. CASE y = op
        BY <1>t, <2>1, <3>2, <4>1 DEF OpenStream
      <4>2. CASE y # op
        <5>1. at[y] \in {"first", "rest"} /\ FileOf(y) = f
          BY <1>w, <2>5, <4>2
        <5>2. y \in SevenZip /\ More(y) /\ op \in SevenZip
          BY <3>2, <5>1 DEF ExtractInv, PlacesInStep, PlaceOf, OpenStream
        <5>3. y \in Sharing(f)
          BY <5>1, <5>2, EntryAtHand DEF ExtractInv, Sharing
        <5> QED
          BY <1>2, <1>w, <4>2, <5>2, <5>3, OneSevenZip
      <4> QED
        BY <4>1, <4>2
    <3> QED
      BY <3>1, <3>2
  <2> QED
    BY <2>1, <2>2, <2>3, <2>4, <2>5 DEF WholeAt
<1> QED
  BY <1>1, <1>2

\* A file is written to: by the one that opened it last.
LEMMA WholeWritten ==
  ASSUME ExtractInv, NEW op \in Operations, WriteData(op) \/ WriteFirst(op) \/ WriteRest(op),
         NEW f \in Files, Cardinality(Sharing(f) \cap SevenZip) <= 1, WholeAt(f)
  PROVE  WholeAt(f)'
<1> DEFINE F == FileOf(op)
<1>t. /\ at \in [Operations -> Backing \cup Writing \cup {"idle"}]
      /\ entry \in [Operations -> Nat]
      /\ attached \in [Operations -> BOOLEAN] /\ file \in [Files -> Contents]
  BY DEF ExtractInv, ExtractionTypeOK
<1>w. /\ F \in Files /\ op \in Sharing(F) /\ op \notin succeeded
      /\ at[op] \in Writing /\ at'[op] \in Writing /\ stage' = stage /\ succeeded' = succeeded
      /\ \A k \in 1..(entry[op] - 1) : Entries[op][k] # F
      /\ \A o \in Operations \ {op} : at'[o] = at[o] /\ entry'[o] = entry[o]
      /\ \A o \in Operations \ {op} : FileOf(o)' = FileOf(o) /\ (Past(o, f)' <=> Past(o, f))
  BY WriterFacts
<1>d. \A y \in Operations :
        /\ file[f] = <<y, None>> => ~Past(y, f)
        /\ at[y] = "data" /\ FileOf(y) = f => file[f] = <<y, None>>
        /\ at[y] \in {"first", "rest"} /\ FileOf(y) = f => (attached[y] <=> file[f] = <<y, None>>)
  BY DEF WholeAt
<1>a. \A o \in Operations \ {op} : attached'[o] = attached[o]
  BY <1>t DEF WriteData, WriteFirst, WriteRest
<1>p. ASSUME WriteData(op) \/ WriteRest(op)
      PROVE  /\ at'[op] = "entry" /\ (f # F => (Past(op, f)' => Past(op, f)))
             /\ at[op] \in {"data", "rest"}
  <2>1. entry'[op] = entry[op] + 1 /\ at'[op] = "entry" /\ entry[op] \in Nat /\ at[op] \in {"data", "rest"}
    BY <1>p, <1>t DEF WriteData, WriteRest, At, NextEntry
  <2>2. \A k \in 1..(entry'[op] - 1) : k = entry[op] \/ k \in 1..(entry[op] - 1)
    BY <2>1
  <2>3. \A k \in 1..(entry'[op] - 1) : Entries[op][k] = f /\ f # F => k \in 1..(entry[op] - 1)
    BY <2>2 DEF FileOf
  <2> QED
    BY <1>w, <2>1, <2>3 DEF Past, Sharing
<1>1. CASE WriteFirst(op)
  <2>1. /\ entry' = entry /\ at[op] = "first" /\ at'[op] = "rest" /\ attached' = attached
        /\ FileOf(op)' = F /\ (Past(op, f)' <=> Past(op, f))
    BY <1>1, <1>t, <1>w DEF WriteFirst, At, Past, Sharing, FileOf
  <2>2. file'[f] = file[f]
    <3>1. CASE attached[op] /\ f = F
      <4>1. file[f] = <<op, None>>
        BY <1>d, <2>1, <3>1
      <4>2. file'[f] = [<<op, None>> EXCEPT ![1] = op]
        BY <1>1, <1>t, <3>1, <4>1 DEF WriteFirst, Write
      <4>3. [<<op, None>> EXCEPT ![1] = op] = <<op, None>>
        OBVIOUS
      <4> QED
        BY <4>1, <4>2, <4>3
    <3>2. CASE ~(attached[op] /\ f = F)
      BY <1>1, <1>t, <3>2 DEF WriteFirst, Write
    <3> QED
      BY <3>1, <3>2
  <2>3. \A x \in Operations : Opened(x, f)' => Opened(x, f)
    BY <1>w, <2>1 DEF Opened
  <2> QED
    BY <1>w, <2>1, <2>2, <2>3, WholeKept
<1>2. CASE (WriteData(op) \/ WriteRest(op)) /\ f # F
  <2>1. file'[f] = file[f]
    BY <1>2, <1>t DEF WriteData, WriteRest, Write
  <2>2. at'[op] = "entry" /\ (Past(op, f)' => Past(op, f))
    BY <1>2, <1>p
  <2>3. \A x \in Operations : Opened(x, f)' => Opened(x, f)
    BY <1>w, <2>2 DEF Opened
  <2> QED
    BY <1>a, <1>w, <2>1, <2>2, <2>3, WholeKept
<1>3. CASE WriteRest(op) /\ ~attached[op] /\ f = F
  <2>1. file' = file /\ at'[op] = "entry" /\ at[op] = "rest"
    BY <1>3, <1>p DEF WriteRest
  <2>2. file[f] # <<op, None>>
    BY <1>3, <1>d, <2>1
  <2>3. Opened(op, f)
    BY <1>3, <2>1 DEF Opened
  <2>4. \A x \in Operations : Opened(x, f)' => Opened(x, f)
    BY <1>w, <2>1, <2>3 DEF Opened
  <2>5. \A y \in Operations : Past(y, f)' => Past(y, f) \/ file[f] # <<y, None>>
    BY <1>w, <2>2
  <2> QED
    BY <1>a, <1>w, <2>1, <2>4, <2>5, WholeKept
<1>4. CASE (WriteData(op) \/ (WriteRest(op) /\ attached[op])) /\ f = F
  <2>1. file[f] = <<op, None>> /\ at'[op] = "entry"
    <3>1. CASE WriteData(op)
      BY <1>4, <1>d, <1>p, <3>1 DEF WriteData
    <3>2. CASE WriteRest(op) /\ attached[op]
      BY <1>4, <1>d, <1>p, <3>2 DEF WriteRest
    <3> QED
      BY <1>4, <3>1, <3>2
  <2>2. file'[f] = By(op)
    <3>1. CASE WriteData(op)
      BY <1>4, <1>t, <3>1 DEF WriteData
    <3>2. CASE WriteRest(op) /\ attached[op]
      <4>1. file'[f] = [<<op, None>> EXCEPT ![2] = op]
        BY <1>4, <1>t, <2>1, <3>2 DEF WriteRest, Write
      <4>2. [<<op, None>> EXCEPT ![2] = op] = <<op, op>>
        OBVIOUS
      <4> QED
        BY <4>1, <4>2 DEF By
    <3> QED
      BY <1>4, <3>1, <3>2
  <2>3. op \in Sharing(f)' /\ \A y \in Operations : file'[f] # <<y, None>>
    BY <1>4, <1>w, <2>2, ExtractionAssumption DEF By, Sharing
  <2>4. \A y \in Operations \ {op} : file[f] # <<y, None>>
    BY <2>1
  <2>5. \A y \in Operations : at'[y] = "data" => FileOf(y)' # f
    BY <1>d, <1>w, <2>1, <2>4
  <2>6. \A y \in Operations : at'[y] \in {"first", "rest"} /\ FileOf(y)' = f => ~attached'[y]
    BY <1>a, <1>d, <1>w, <2>1, <2>4
  <2> QED
    BY <2>2, <2>3, <2>5, <2>6 DEF WholeAt
<1> QED
  BY <1>1, <1>2, <1>3, <1>4

\* The extracted files stay whole.
LEMMA WholeStep ==
  ASSUME ExtractInv, [ExtractionNext]_extractionVars PROVE WholeInStep'
<1> USE DEF ExtractInv
<1>t. /\ at \in [Operations -> Backing \cup Writing \cup {"idle"}]
      /\ entry \in [Operations -> Nat] /\ attached \in [Operations -> BOOLEAN]
      /\ file \in [Files -> Contents]
  BY DEF ExtractionTypeOK
<1>q. ASSUME UNCHANGED <<file, at, entry, succeeded, attached>>,
             stage' \notin {"undo", "over"} => stage \notin {"undo", "over"}
      PROVE  WholeInStep'
  BY <1>q DEF WholeInStep, WholeAt, Opened, Past, Sharing, FileOf
<1>1. CASE \/ BackupAll \/ UnpackAll \/ CollectAll \/ Unpacked \/ RollBack \/ RolledBack
           \/ Interrupt \/ UNCHANGED extractionVars
  BY <1>1, <1>q DEF BackupAll, UnpackAll, CollectAll, Unpacked, RollBack, RolledBack, Interrupt,
     Idle, threadVars, outcomeVars, diskVars, extractionVars, sessionVars
<1>2. ASSUME NEW op \in Operations,
             \/ Collect(op) \/ Skip(op) \/ Handle(op) \/ CancelWaiting(op) \/ ReceiveEntry(op)
      PROVE  WholeInStep'
  BY <1>2, <1>q DEF Collect, Skip, Handle, CancelWaiting, ReceiveEntry, Idle, threadVars, outcomeVars,
     diskVars, sessionVars
<1>3. ASSUME NEW op \in Operations, Undo(op) PROVE WholeInStep'
  BY <1>3 DEF Undo, WholeInStep
<1>4. ASSUME NEW op \in Operations,
             \/ Start(op) \/ Retry(op) \/ BackedUp(op) \/ CannotBackUp(op) \/ Look(op)
             \/ LockBackup(op) \/ Pick(op) \/ Proceed(op) \/ LockEntry(op) \/ Complete(op)
             \/ BreakOff(op)
      PROVE  WholeInStep'
  <2>1. /\ UNCHANGED <<file, succeeded>>
        /\ stage' \notin {"undo", "over"} => stage \notin {"undo", "over"}
        /\ at'[op] \notin {"data", "first", "rest"}
        /\ \A o \in Operations \ {op} :
             at'[o] = at[o] /\ entry'[o] = entry[o] /\ attached'[o] = attached[o]
    BY <1>4, <1>t, StartFacts, RetryFacts DEF BackedUp, CannotBackUp, Leave, Look, LockBackup, Pick,
       Proceed, LockEntry, Complete, BreakOff, At, NextEntry, sessionVars, outcomeVars, diskVars
  <2>2. \/ at'[op] \notin Writing \/ entry'[op] = 1
        \/ at[op] \in Writing /\ entry'[op] = entry[op]
    <3>1. CASE Start(op) \/ Retry(op)
      BY <3>1, StartFacts, RetryFacts DEF PlacesInStep, PlaceOf
    <3>2. CASE BackedUp(op) \/ CannotBackUp(op) \/ Look(op) \/ LockBackup(op) \/ Pick(op)
      BY <3>2, <1>t DEF BackedUp, CannotBackUp, Leave, Look, LockBackup, Pick, At, Writing
    <3>3. CASE Proceed(op) \/ LockEntry(op) \/ Complete(op) \/ BreakOff(op)
      BY <3>3, <1>t DEF Proceed, LockEntry, Complete, BreakOff, At, Writing
    <3> QED
      BY <1>4, <3>1, <3>2, <3>3
  <2>3. \A f \in Files : Past(op, f)' => Past(op, f)
    BY <2>1, <2>2 DEF Past, Sharing
  <2> QED
    BY <2>1, <2>3, WholeQuiet
<1>5. ASSUME NEW op \in Operations, WorkerFinished(op) PROVE WholeInStep'
  <2>1. /\ UNCHANGED <<file, attached>> /\ at[op] = "done"
        /\ stage' \notin {"undo", "over"} => stage \notin {"undo", "over"}
        /\ at' = [at EXCEPT ![op] = "idle"] /\ entry' = [entry EXCEPT ![op] = 1]
        /\ succeeded' = IF Head(inbox[op]) = "finished" THEN succeeded \cup {op} ELSE succeeded
    BY <1>5 DEF WorkerFinished, Leave
  <2>2. ASSUME Head(inbox[op]) = "finished", NEW f \in Files, op \in Sharing(f) PROVE Past(op, f)
    <3>1. ~More(op) /\ entry[op] \in 1..(Len(Entries[op]) + 1)
      BY <1>5, <2>2, FinishedFacts DEF ExtractionTypeOK
    <3>2. PICK k \in 1..Len(Entries[op]) : Entries[op][k] = f
      BY <2>2, EntriesFacts DEF Sharing, EntriesOf
    <3>3. k \in 1..(entry[op] - 1)
      BY <3>1, EntriesFacts DEF More
    <3> QED
      BY <2>1, <2>2, <3>2, <3>3 DEF Past, Writing
  <2>3. \A f \in Files : Past(op, f)' => Past(op, f)
    BY <1>t, <2>1, <2>2 DEF Past, Sharing, Writing
  <2>4. /\ at'[op] \notin {"data", "first", "rest"}
        /\ \A o \in Operations \ {op} : at'[o] = at[o] /\ entry'[o] = entry[o]
             /\ attached'[o] = attached[o] /\ (o \in succeeded' <=> o \in succeeded)
    BY <1>t, <2>1
  <2> QED
    BY <2>1, <2>3, <2>4, WholeQuiet
<1>6. ASSUME NEW op \in Operations, Rename(op) PROVE WholeInStep'
  <2>1. stage = "backup" /\ stage' = stage /\ succeeded' = succeeded
    BY <1>6 DEF Rename, PlacesInStep, PlaceOf, Backing, sessionVars
  <2>2. \A o \in Operations : at'[o] \notin Writing
    <3>1. PlacesInStep'
      BY PlacesStep
    <3> QED
      BY <2>1, <3>1 DEF PlacesInStep, PlaceOf
  <2>3. succeeded' = {}
    BY <2>1 DEF ResultsInStep
  <2> QED
    BY <2>2, <2>3, WholeUntouched DEF WholeInStep
<1>7. ASSUME NEW op \in Operations,
             WriteHeader(op) \/ WriteData(op) \/ OpenStream(op) \/ WriteFirst(op) \/ WriteRest(op)
      PROVE  WholeInStep'
  <2> SUFFICES ASSUME stage' \notin {"undo", "over"}, NEW f \in Files,
                      Cardinality(Sharing(f) \cap SevenZip) <= 1
               PROVE  WholeAt(f)'
    BY DEF WholeInStep, Sharing
  <2>1. WholeAt(f)
    BY <1>7, WriterFacts DEF WholeInStep
  <2> QED
    BY <1>7, <2>1, WholeOpened, WholeWritten
<1> QED
  BY <1>1, <1>2, <1>3, <1>4, <1>5, <1>6, <1>7 DEF ExtractionNext, ThreadStep, WorkerStep

-----------------------------------------------------------------------------
(* The files of the user, and the undo                                     *)

\* A file of the user has not got lost.
Accounted(f) ==
  \/ file[f] = By(User) \/ \E i \in BackupNumbers : aside[f][i] = By(User)
  \/ \E op \in Sharing(f) : op \in succeeded \cup failed \/ at[op] \in Writing

\* Extraction once begun stays begun, or ends with a result.
LEMMA ExtractingStays ==
  ASSUME ExtractInv, [ExtractionNext]_extractionVars
  PROVE  \A op \in Operations :
           op \in succeeded \cup failed \/ at[op] \in Writing =>
             op \in succeeded' \cup failed' \/ at'[op] \in Writing
<1> USE DEF ExtractInv
<1>t. at \in [Operations -> Backing \cup Writing \cup {"idle"}]
  BY DEF ExtractionTypeOK
<1>1. CASE \/ BackupAll \/ UnpackAll \/ CollectAll \/ Unpacked \/ RollBack \/ RolledBack
           \/ Interrupt \/ UNCHANGED extractionVars
  BY <1>1 DEF BackupAll, UnpackAll, CollectAll, Unpacked, RollBack, RolledBack, Interrupt,
     Idle, threadVars, outcomeVars, extractionVars
<1>2. ASSUME NEW op \in Operations,
             \/ Collect(op) \/ Skip(op) \/ Handle(op) \/ ReceiveEntry(op) \/ Undo(op)
      PROVE  UNCHANGED <<at, failed, succeeded>>
  BY <1>2 DEF Collect, Skip, Handle, ReceiveEntry, Undo, Idle, threadVars, outcomeVars
<1>3. ASSUME NEW op \in Operations, Start(op) \/ Retry(op)
      PROVE  /\ UNCHANGED <<failed, succeeded>> /\ at[op] \notin Writing
             /\ \A o \in Operations \ {op} : at'[o] = at[o]
  BY <1>3, <1>t, StartFacts, RetryFacts DEF Writing
<1>4. ASSUME NEW op \in Operations, BackedUp(op) \/ CannotBackUp(op) \/ WorkerFinished(op)
      PROVE  /\ failed \subseteq failed' /\ succeeded \subseteq succeeded'
             /\ at[op] \in Writing => op \in succeeded' \cup failed'
             /\ \A o \in Operations \ {op} : at'[o] = at[o]
  BY <1>4, <1>t DEF BackedUp, CannotBackUp, WorkerFinished, Leave, Writing, outcomeVars
<1>5. ASSUME NEW op \in Operations,
             \/ Look(op) \/ LockBackup(op) \/ Pick(op) \/ Rename(op) \/ Proceed(op)
             \/ LockEntry(op) \/ CancelWaiting(op) \/ WriteHeader(op) \/ WriteData(op)
             \/ OpenStream(op) \/ WriteFirst(op) \/ WriteRest(op) \/ Complete(op) \/ BreakOff(op)
      PROVE  /\ UNCHANGED <<failed, succeeded>> /\ (at'[op] \in Writing <=> at[op] \in Writing)
             /\ \A o \in Operations \ {op} : at'[o] = at[o]
  BY <1>5, MiddleFacts
<1> QED
  BY <1>1, <1>2, <1>3, <1>4, <1>5 DEF ExtractionNext, ThreadStep, WorkerStep

\* No step loses a file of the user.
LEMMA AccountedStep ==
  ASSUME ExtractInv, [ExtractionNext]_extractionVars, NEW f \in UserFiles PROVE Accounted(f)'
<1> USE DEF ExtractInv
<1>t. /\ at \in [Operations -> Backing \cup Writing \cup {"idle"}] /\ f \in Files
      /\ file \in [Files -> Contents] /\ aside \in [Files -> [BackupNumbers -> Contents]]
      /\ backups \in [Operations -> SUBSET (Files \X BackupNumbers)]
  BY ExtractionAssumption DEF ExtractionTypeOK
<1>a. Accounted(f)
  BY DEF UserFilesAccounted, Accounted
<1>e. (\E op \in Sharing(f) : op \in succeeded \cup failed \/ at[op] \in Writing) => Accounted(f)'
  BY ExtractingStays DEF Accounted, Sharing
<1>q. ASSUME file'[f] = file[f], aside' = aside PROVE Accounted(f)'
  BY <1>a, <1>e, <1>q DEF Accounted
<1>1. CASE \/ BackupAll \/ UnpackAll \/ CollectAll \/ Unpacked \/ RollBack \/ RolledBack
           \/ Interrupt \/ UNCHANGED extractionVars
  BY <1>1, <1>q DEF BackupAll, UnpackAll, CollectAll, Unpacked, RollBack, RolledBack, Interrupt,
     Idle, diskVars, extractionVars
<1>2. ASSUME NEW op \in Operations,
             \/ Collect(op) \/ Skip(op) \/ Handle(op) \/ ReceiveEntry(op) \/ Start(op) \/ Retry(op)
             \/ BackedUp(op) \/ CannotBackUp(op) \/ Look(op) \/ LockBackup(op) \/ Pick(op)
             \/ Proceed(op) \/ LockEntry(op) \/ CancelWaiting(op) \/ Complete(op) \/ BreakOff(op)
      PROVE  Accounted(f)'
  BY <1>2, <1>q DEF Collect, Skip, Handle, ReceiveEntry, Start, Retry, BackedUp, CannotBackUp, Look,
     LockBackup, Pick, Proceed, LockEntry, CancelWaiting, Complete, BreakOff, Idle, diskVars
<1>3. ASSUME NEW op \in Operations, Undo(op) PROVE Accounted(f)'
  <2>1. file'[f] = (IF f \in list[ListOf[op]] THEN NoFile ELSE file[f]) /\ aside' = aside
    BY <1>3, <1>t DEF Undo
  <2>2. CASE f \in list[ListOf[op]]
    <3>1. \E o \in Sharing(f) : o \in succeeded \cup failed
      BY <2>2 DEF ListsInStep, Names
    <3> QED
      BY <1>e, <3>1
  <2>3. CASE f \notin list[ListOf[op]]
    BY <1>q, <2>1, <2>3
  <2> QED
    BY <2>2, <2>3
<1>4. ASSUME NEW op \in Operations, Rename(op) PROVE Accounted(f)'
  <2>1. More(op) /\ stage = "backup"
    BY <1>4 DEF Rename, PlacesInStep, PlaceOf, Backing
  <2>2. Moved(op) \/ NotedOnly(op) \/ Stayed(op)
    BY <1>4, <2>1, RenameOutcome
  <2>3. CASE Moved(op)
    <3>1. file[FileOf(op)] = By(User) /\ FileOf(op) \in Files /\ picked[op] \in BackupNumbers
      BY <2>1, <2>3, EntryAtHand DEF BackupInv, BackupStage, Moved, ExtractionTypeOK
    <3>2. \A i \in BackupNumbers :
            aside'[f][i] = IF f = FileOf(op) /\ i = picked[op] THEN file[f] ELSE aside[f][i]
      BY <1>t, <2>3 DEF Moved
    <3>3. CASE f = FileOf(op)
      BY <3>1, <3>2, <3>3 DEF Accounted
    <3>4. CASE f # FileOf(op)
      <4>1. file'[f] = file[f] /\ \A i \in BackupNumbers : aside'[f][i] = aside[f][i]
        BY <1>t, <2>3, <3>2, <3>4 DEF Moved
      <4> QED
        BY <1>a, <1>e, <4>1 DEF Accounted
    <3> QED
      BY <3>3, <3>4
  <2>4. CASE NotedOnly(op) \/ Stayed(op)
    BY <1>q, <2>4 DEF NotedOnly, Stayed
  <2> QED
    BY <2>2, <2>3, <2>4
<1>5. ASSUME NEW op \in Operations,
             WriteHeader(op) \/ WriteData(op) \/ OpenStream(op) \/ WriteFirst(op) \/ WriteRest(op)
      PROVE  Accounted(f)'
  <2>1. op \in Sharing(FileOf(op)) /\ at[op] \in Writing
    BY <1>5, WriterFacts
  <2>2. CASE f = FileOf(op)
    BY <1>e, <2>1, <2>2
  <2>3. CASE f # FileOf(op)
    <3>1. file'[f] = file[f] /\ aside' = aside
      BY <1>5, <1>t, <2>3 DEF WriteHeader, WriteData, OpenStream, WriteFirst, WriteRest, Write
    <3> QED
      BY <1>q, <3>1
  <2> QED
    BY <2>2, <2>3
<1>6. ASSUME NEW op \in Operations, WorkerFinished(op) PROVE Accounted(f)'
  <2>1. at[op] \in Writing /\ file' = file
    BY <1>6 DEF WorkerFinished, Writing
  <2>2. CASE op \in Sharing(f)
    BY <1>e, <2>1, <2>2
  <2>3. CASE op \notin Sharing(f)
    <3>1. \A i \in BackupNumbers : <<f, i>> \notin backups[op]
      <4>1. ASSUME NEW i \in BackupNumbers, <<f, i>> \in backups[op] PROVE FALSE
        <5>1. <<f, i>>[1] = f
          OBVIOUS
        <5> QED
          BY <2>3, <4>1, <5>1 DEF BackupInv, BackupsOwned, Sharing
      <4> QED
        BY <4>1
    <3>2. \A i \in BackupNumbers : aside'[f][i] = aside[f][i]
      BY <1>6, <1>t, <3>1 DEF WorkerFinished
    <3> QED
      BY <1>a, <1>e, <2>1, <3>2 DEF Accounted
  <2> QED
    BY <2>2, <2>3
<1> QED
  BY <1>1, <1>2, <1>3, <1>4, <1>5, <1>6 DEF ExtractionNext, ThreadStep, WorkerStep

\* And each backup keeps its one owner.
LEMMA UserFilesStep ==
  ASSUME ExtractInv, [ExtractionNext]_extractionVars PROVE UserFilesAccounted'
<1>1. NamesInStep'
  BY BackupStep DEF BackupInv
<1>2. \A f \in UserFiles : Accounted(f)'
  BY AccountedStep
<1>3. ASSUME NEW f \in Files, NEW i \in BackupNumbers, aside'[f][i] = By(User)
      PROVE  Cardinality({op \in Operations : <<f, i>> \in backups'[op]}) = 1
  <2>1. PICK op \in Operations : {o \in Operations : <<f, i>> \in backups'[o]} = {op}
    BY <1>1, <1>3 DEF NamesInStep
  <2> QED
    BY <2>1, FS_Singleton
<1>4. \A f \in Files, i \in BackupNumbers :
        /\ aside'[f][i] \in {NoFile, By(User), By(None)}
        /\ i = 0 /\ f \in Leftovers => aside'[f][i] = By(None)
  BY <1>1 DEF NamesInStep
<1> QED
  BY <1>2, <1>3, <1>4 DEF UserFilesAccounted, Accounted

\* Once the undo has begun no thread extracts.
LEMMA UndoingAlone ==
  ASSUME ExtractInv, [ExtractionNext]_extractionVars, stage \in {"undo", "over"},
         \A op \in Operations : ~Undo(op)
  PROVE  UNCHANGED <<file, earlier, extracted, undone>>
<1> USE DEF ExtractInv
<1>i. \A op \in Operations : at[op] = "idle" /\ inbox[op] = <<>>
  <2>1. \A op \in Operations : at[op] = "idle"
    BY AllIdle DEF GuardInv, ThreadsOK, CallerWaits
  <2> QED
    BY <2>1 DEF MessagesInStep, MessagesOf, Writing
<1>1. CASE \/ BackupAll \/ UnpackAll \/ CollectAll \/ Unpacked \/ RollBack \/ RolledBack
           \/ Interrupt \/ UNCHANGED extractionVars
  BY <1>1 DEF BackupAll, UnpackAll, CollectAll, Unpacked, RollBack, RolledBack, Interrupt,
     Idle, threadVars, outcomeVars, diskVars, extractionVars, sessionVars
<1>2. ASSUME NEW op \in Operations, Collect(op) \/ Skip(op) \/ Handle(op)
      PROVE  UNCHANGED <<file, earlier, extracted, undone>>
  BY <1>2 DEF Collect, Skip, Handle, Idle, threadVars, outcomeVars, diskVars, sessionVars
<1>3. ASSUME NEW op \in Operations
      PROVE  ~Start(op) /\ ~Retry(op) /\ ~WorkerStep(op) /\ ~ReceiveEntry(op) /\ ~WorkerFinished(op)
  <2>1. ~Start(op) /\ ~Retry(op)
    BY StartFacts, RetryFacts
  <2>2. ~WorkerStep(op)
    BY <1>i, MiddleFacts DEF WorkerStep, BackedUp, CannotBackUp
  <2>3. ~ReceiveEntry(op) /\ ~WorkerFinished(op)
    BY <1>i DEF ReceiveEntry, WorkerFinished
  <2> QED
    BY <2>1, <2>2, <2>3
<1> QED
  BY <1>1, <1>2, <1>3 DEF ExtractionNext, ThreadStep

\* Undo removes what is listed, which is what the last attempt was told.
LEMMA UndoRemovesStep ==
  ASSUME ExtractInv, [ExtractionNext]_extractionVars PROVE UndoRemovesAll'
<1> USE DEF ExtractInv
<1>1. ASSUME UNCHANGED <<file, earlier, extracted, undone>> PROVE UndoRemovesAll'
  BY <1>1 DEF UndoRemovesAll, Leaves, OwnList
<1>2. ASSUME undone' = {} PROVE UndoRemovesAll'
  BY <1>2 DEF UndoRemovesAll
<1>3. ASSUME NEW op \in Operations, Undo(op) PROVE UndoRemovesAll'
  <2>1. /\ stage = "undo" /\ undone' = undone \cup {op} /\ UNCHANGED <<earlier, extracted>>
        /\ file' = [f \in Files |-> IF f \in list[ListOf[op]] THEN NoFile ELSE file[f]]
    BY <1>3 DEF Undo, threadVars, outcomeVars
  <2> SUFFICES ASSUME NEW o \in undone', NEW f \in Files, OwnList(o), Leaves(o, f)'
               PROVE  f \in earlier[o] \ extracted[o]
    BY <2>1 DEF UndoRemovesAll, OwnList
  <2>2. Leaves(o, f) /\ f \notin list[ListOf[op]]
    BY <2>1 DEF Leaves
  <2>3. CASE o \in undone
    BY <2>2, <2>3 DEF UndoRemovesAll
  <2>4. CASE o \notin undone
    <3>1. o = op
      BY <2>1, <2>4
    <3>2. at[op] \notin Writing
      BY <2>1 DEF PlacesInStep, PlaceOf
    <3>3. Posted(op) = {}
      <4>1. inbox[op] = <<>>
        BY <3>2 DEF MessagesInStep, MessagesOf
      <4> QED
        BY <4>1 DEF Posted
    <3>4. list[ListOf[op]] = extracted[op]
      BY <2>4, <3>1, <3>2 DEF ListsInStep
    <3>5. f \in earlier[op] \cup Told(op)
      BY <2>2, <3>1 DEF TracesTold
    <3> QED
      BY <2>2, <3>1, <3>3, <3>4, <3>5 DEF Told
  <2> QED
    BY <2>3, <2>4
<1>4. CASE \A op \in Operations : ~Undo(op)
  <2>1. CASE stage \in {"undo", "over"}
    BY <1>1, <1>4, <2>1, UndoingAlone
  <2>2. CASE stage \notin {"undo", "over"}
    <3>1. undone = {}
      BY <2>2 DEF ListsInStep
    <3>2. undone' = undone
      <4>1. CASE \/ BackupAll \/ UnpackAll \/ CollectAll \/ Unpacked \/ RollBack \/ RolledBack
                 \/ Interrupt \/ UNCHANGED extractionVars
        BY <4>1 DEF BackupAll, UnpackAll, CollectAll, Unpacked, RollBack, RolledBack, Interrupt,
           extractionVars, sessionVars
      <4>2. ASSUME NEW op \in Operations, Collect(op) \/ Retry(op) \/ ThreadStep(op)
            PROVE  undone' = undone
        <5>1. CASE Collect(op) \/ Retry(op)
          BY <5>1 DEF Collect, Retry
        <5>2. CASE Start(op) \/ Skip(op) \/ Handle(op) \/ ReceiveEntry(op) \/ WorkerFinished(op)
          BY <5>2 DEF Start, Skip, Handle, ReceiveEntry, WorkerFinished, sessionVars
        <5>3. CASE WorkerStep(op)
          BY <5>3, MiddleFacts DEF WorkerStep, BackedUp, CannotBackUp, sessionVars
        <5> QED
          BY <4>2, <5>1, <5>2, <5>3 DEF ThreadStep
      <4> QED
        BY <1>4, <4>1, <4>2 DEF ExtractionNext
    <3> QED
      BY <1>2, <3>1, <3>2
  <2> QED
    BY <2>1, <2>2
<1> QED
  BY <1>3, <1>4

-----------------------------------------------------------------------------
(* The theorems                                                            *)

LEMMA ExtractInvInit == ExtractionInit => ExtractInv
<1> SUFFICES ASSUME ExtractionInit PROVE ExtractInv
  OBVIOUS
<1> USE DEF ExtractionInit
<1>g. GuardInv
  BY GuardInvInit
<1>e. \A op \in Operations : 1 \in 1..(Len(Entries[op]) + 1)
  BY EntriesFacts
<1>f. \A f \in Files : file[f] \in {NoFile, By(User)} /\ (f \in UserFiles => file[f] = By(User))
  OBVIOUS
<1>b. \A f \in Files, i \in BackupNumbers :
        aside[f][i] = IF i = 0 /\ f \in Leftovers THEN By(None) ELSE NoFile
  OBVIOUS
<1>c. By(None) # NoFile /\ By(User) # NoFile /\ By(User) # By(None)
  BY ExtractionAssumption DEF By, NoFile
<1>t. ExtractionTypeOK
  <2>1. RunnerTypeOK
    BY <1>g DEF GuardInv, RunnerInv
  <2>2. file \in [Files -> Contents] /\ aside \in [Files -> [BackupNumbers -> Contents]]
    BY ContentsFacts
  <2>3. inbox \in [Operations -> Seq(Events)]
    OBVIOUS
  <2>4. picked \in [Operations -> BackupNumbers] /\ 0 \in 0..MaxRetries
    BY BackupNumbersFacts, ExtractionAssumption
  <2> QED
    BY <1>e, <2>1, <2>2, <2>3, <2>4 DEF ExtractionTypeOK
<1>1. PlacesInStep
  BY DEF PlacesInStep, PlaceOf, Backing, Writing
<1>2. ResultsInStep
  BY DEF ResultsInStep, RunnerInit
<1>3. MessagesInStep
  BY DEF MessagesInStep, MessagesOf, Writing
<1>4. BackupInv
  <2>1. BackupsOwned
    BY DEF BackupsOwned
  <2>2. NamesInStep
    BY <1>b, <1>c DEF NamesInStep
  <2>3. BackupStage
    BY <1>f DEF BackupStage
  <2> QED
    BY <2>1, <2>2, <2>3 DEF BackupInv
<1>5. ListsInStep
  BY DEF ListsInStep, Names
<1>6. TracesTold
  BY <1>f, ExtractionAssumption DEF TracesTold, Leaves, By
<1>7. WholeInStep
  BY DEF WholeInStep, WholeAt, Opened, Past, Writing
<1>8. UserFilesAccounted
  BY <1>b, <1>c, <1>f, ExtractionAssumption DEF UserFilesAccounted
<1>9. UndoRemovesAll
  BY DEF UndoRemovesAll
<1> QED
  BY <1>g, <1>t, <1>1, <1>2, <1>3, <1>4, <1>5, <1>6, <1>7, <1>8, <1>9 DEF ExtractInv

LEMMA ExtractInvStep == ExtractInv /\ [ExtractionNext]_extractionVars => ExtractInv'
<1> SUFFICES ASSUME ExtractInv, [ExtractionNext]_extractionVars PROVE ExtractInv'
  OBVIOUS
<1>1. GuardInv'
  BY GuardInvStep DEF ExtractInv
<1>2. BackupInv'
  BY BackupStep
<1> QED
  BY <1>1, <1>2, ExtractionTypeStep, PlacesStep, ResultsStep, MessagesStep, ListsStep, TracesStep,
     WholeStep, UserFilesStep, UndoRemovesStep DEF ExtractInv

LEMMA ExtractInvAlways == ExtractionSpec => []ExtractInv
  BY ExtractInvInit, ExtractInvStep, PTL DEF ExtractionSpec

\* The extraction stays within its types: no thread leaves its archive, every
\* backup has one of as many names as there are threads, and the event loops get
\* only what a worker posts.
THEOREM ExtractionTypeCorrect == ExtractionSpec => []ExtractionTypeOK
<1>1. ExtractInv => ExtractionTypeOK
  BY DEF ExtractInv
<1> QED
  BY <1>1, ExtractInvAlways, PTL

\* Backing up from many threads loses no file of the user, takes none twice and
\* never takes an extracted file for one (ExtractArchiveOperation::backup(), with
\* prepareForFile() and generateBackupName()).
THEOREM UserFilesAlwaysAccounted == ExtractionSpec => []UserFilesAccounted
<1>1. ExtractInv => UserFilesAccounted
  BY DEF ExtractInv
<1> QED
  BY <1>1, ExtractInvAlways, PTL

\* Whatever the last attempt of an operation wrote is gone after its undo, also
\* when the attempt failed or was canceled (ExtractArchiveOperation::undoOperation()).
THEOREM UndoAlwaysRemoves == ExtractionSpec => []UndoRemovesAll
<1>1. ExtractInv => UndoRemovesAll
  BY DEF ExtractInv
<1> QED
  BY <1>1, ExtractInvAlways, PTL

\* Of a file that several archives have, one extraction wrote all, unless two of
\* them are 7z archives (FileGuard as ExtractWorker and ExtractCallback use it).
THEOREM ExtractedFilesWhole == ExtractionSpec => []FilesAreWhole
<1>1. ExtractInv => FilesAreWhole
  <2> SUFFICES ASSUME ExtractInv, NEW f \in Files,
                      Sharing(f) # {}, Sharing(f) \subseteq succeeded,
                      Cardinality(Sharing(f) \cap SevenZip) <= 1, stage \notin {"undo", "over"}
               PROVE  \E op \in Sharing(f) : file[f] = By(op)
    BY DEF FilesAreWhole
  <2>1. WholeAt(f)
    BY DEF ExtractInv, WholeInStep
  <2>2. \A y \in Sharing(f) : y \in Operations /\ Past(y, f)
    BY DEF Past, Sharing
  <2>3. PICK y \in Sharing(f) : file[f] = By(y) \/ file[f] = <<y, None>>
    BY <2>1, <2>2 DEF WholeAt, Opened
  <2> QED
    BY <2>1, <2>2, <2>3 DEF WholeAt
<1> QED
  BY <1>1, ExtractInvAlways, PTL

\* Seen through its runner, the whole extraction, with backups, retries and undo,
\* is a sequence of abstract batches: no archive's result is told before its
\* thread is over, and none runs again behind the caller's back
\* (PackageManagerCorePrivate::unpackComponents()).
THEOREM ExtractionIsBatch == ExtractionSpec => Batch!BatchSafety
<1>1. ExtractionInit => Batch!BatchInit
  BY DEF ExtractionInit, RunnerInit, Batch!BatchInit, Ended
<1>2. ExtractInv /\ [ExtractionNext]_extractionVars => [Batch!BatchNext]_(Batch!batchVars)
  BY StepIsRunnerStep, RunnerStepIsBatchStep DEF ExtractInv, GuardInv
<1> QED
  BY <1>1, <1>2, ExtractInvAlways, PTL DEF ExtractionSpec, Batch!BatchSafety
====
