--------------------- MODULE PackageManagerSessionProofs ---------------------
(***************************************************************************)
(* Proofs about InstallTransaction, for any components, operations, plans, *)
(* failures and number of threads, and about PackageManagerSession, for    *)
(* any product, any selections and any number of sessions, restarts,       *)
(* relaunches and crashes.                                                 *)
(*                                                                         *)
(* The transaction: its state keeps its types, no operation that changed   *)
(* the machine is forgotten without a cancel, a cancel stops new work, the *)
(* records agree, and a rollback goes from the top.  The argument: the     *)
(* operation at hand is one that the plan still has to handle, so it is on *)
(* no list yet; what is on the session's list is of the plan and handled;  *)
(* and the list has the unpacked archives first, so that its end is undone *)
(* before them.                                                            *)
(*                                                                         *)
(* A session is a transaction with a removal before it and the bookkeeping *)
(* around it, so the steps of InstallTransaction keep what is proved of    *)
(* them there, wherever the session is in a transaction.  Four invariants  *)
(* build on each other: where each effect is known (EffectsInv), what the  *)
(* lists hold and in which order (SessionLists, OrderInStep), which        *)
(* packages they stand for (PackagesInStep), and what was selected         *)
(* (TargetInStep).                                                         *)
(***************************************************************************)
EXTENDS PackageManagerSession, SequenceLemmas, TLAPS

-----------------------------------------------------------------------------
(*                            The transaction                              *)

-----------------------------------------------------------------------------
(* The inductive invariant                                                 *)

\* Where the main thread is, and which local variables are in use there.
Control ==
  /\ phase \in {"ready", "prepared", "backup", "unpack", "collect", "install",
                "installed", "rollback", "rolledBack"}
  /\ phase \notin {"collect", "install"} => step = "none" /\ current = None
  /\ phase = "collect" =>
       \/ step = "none" /\ current = None
       \/ step \in {"perform", "succeeded", "failed"} /\ current \in uncollected
  /\ phase = "install" =>
       /\ toInstall # <<>>
       /\ \/ step = "check" /\ current = None
          \/ /\ step \in {"backup", "perform", "succeeded", "failed"}
             /\ current \in Operations /\ opsLeft # <<>>
  /\ phase # "collect" => uncollected = {}

\* The runner is idle outside of a session, only a cancel of the session
\* cancels its futures, and a result of FALSE has one of two reasons.
PoolInStep ==
  /\ phase \in {"ready", "prepared", "rolledBack"} =>
       watched = {} /\ canceled = {} /\ ~looping
  /\ canceled # {} => status = "Canceled"
  /\ Runner!WatchedUntilOver
  /\ \A op \in UnpackOps :
       /\ results[op] # "none" => task[op] = "ended"
       /\ results[op] = "false" => op \in canceled \/ ~value[op]

\* Nothing needs to be done about this operation any more: it has no effect, or
\* its error shows that it needs an undo, or it is already accounted for.
SafeToDrop(op) ==
  effect[op] # "none" =>
    error[op] = "UserDefinedError" \/ op \in Recorded \cup lost

\* A failure that the user may decide to ignore leaves nothing untracked.
FailuresAccounted ==
  /\ \A op \in BadArguments : effect[op] # "none" => op \in Recorded \cup lost
  /\ phase = "unpack" =>
       \A op \in UnpackOps :
         task[op] = "ended" /\ ~value[op] /\ op \notin canceled => SafeToDrop(op)
  /\ phase = "collect" /\ status # "Canceled" =>
       \A op \in uncollected \ {current} : results[op] # "true" => SafeToDrop(op)
  /\ step = "failed" /\ status # "Canceled" => SafeToDrop(current)

TransactionInv ==
  TransactionTypeOK /\ Control /\ PoolInStep /\ FailuresAccounted /\ EffectsTracked

-----------------------------------------------------------------------------
(* Types                                                                   *)

\* The types hold when the process starts.
LEMMA TypeInit == TransactionInit => TransactionTypeOK
<1>1. \A S : <<>> \in Seq(S)
  BY EmptySeq
<1> SUFFICES ASSUME TransactionInit PROVE TransactionTypeOK
  OBVIOUS
<1>2. Runner!RunnerTypeOK
  BY DEF TransactionInit, Runner!RunnerInit, Runner!RunnerTypeOK, Runner!TaskState
<1>3. retries \in 0..MaxRetries
  BY TransactionAssumption DEF TransactionInit
<1> QED
  BY <1>1, <1>2, <1>3 DEF TransactionInit, TransactionTypeOK, Phases, Steps, Status

\* The steps of the runner keep the types of its state.
LEMMA PoolTypeStep ==
  ASSUME Runner!RunnerTypeOK, NEW op \in UnpackOps, NEW ok \in BOOLEAN,
         \/ Runner!StartTask(op) \/ Runner!SkipTask(op) \/ Runner!EndTask(op, ok)
         \/ Runner!HandleFinished(op) \/ Runner!Run(UnpackOpsOf(ToSet(toInstall)))
  PROVE  Runner!RunnerTypeOK'
<1> USE DEF Runner!RunnerTypeOK, Runner!TaskState
<1>1. CASE Runner!StartTask(op) \/ Runner!SkipTask(op)
  BY <1>1 DEF Runner!StartTask, Runner!SkipTask
<1>2. CASE Runner!EndTask(op, ok)
  BY <1>2 DEF Runner!EndTask
<1>3. CASE Runner!HandleFinished(op)
  BY <1>3 DEF Runner!HandleFinished
<1>4. CASE Runner!Run(UnpackOpsOf(ToSet(toInstall)))
  <2>1. UnpackOpsOf(ToSet(toInstall)) \in SUBSET UnpackOps
    BY DEF UnpackOpsOf
  <2> QED
    BY <1>4, <2>1 DEF Runner!Run
<1> QED
  BY <1>1, <1>2, <1>3, <1>4

\* Every step keeps the types; the control part of the invariant says that the
\* lists are not empty where their first element is taken.
LEMMA TypeStep ==
  TransactionTypeOK /\ Control /\ [TransactionNext]_transactionVars => TransactionTypeOK'
<1> SUFFICES ASSUME TransactionTypeOK, Control, [TransactionNext]_transactionVars
             PROVE  TransactionTypeOK'
  OBVIOUS
<1> USE TransactionAssumption
    DEF TransactionTypeOK, Phases, Steps, Status, Runner!RunnerTypeOK, Runner!TaskState,
        flowVars, workVars, machineVars, hubVars, poolVars
<1>1. ASSUME NEW plan \in Plans, BeginInstaller(plan) \/ BeginUpdater(plan)
      PROVE  TransactionTypeOK'
  <2>1. Append(session, TargetDirOp) \in Seq(Operations)
    BY AppendProperties
  <2>2. plan \in Seq(Components)
    OBVIOUS
  <2>3. effect' \in [Operations -> {"none", "partial", "done"}]
    BY <1>1 DEF BeginInstaller, BeginUpdater
  <2>4. error' \in [Operations -> {"NoError", "InvalidArguments", "UserDefinedError"}]
    BY <1>1 DEF BeginInstaller, BeginUpdater, Begin
  <2>5. status' = "Running" /\ retries' = 0 /\ phase' = "prepared" /\ toInstall' = plan
    BY <1>1 DEF BeginInstaller, BeginUpdater, Begin
  <2>6. session' \in Seq(Operations) /\ lost' \in SUBSET Operations
    BY <1>1, <2>1 DEF BeginInstaller, BeginUpdater
  <2>7. UNCHANGED <<step, current, opsLeft, uncollected, unpackError, old, hubVars, poolVars>>
    BY <1>1 DEF BeginInstaller, BeginUpdater, Begin
  <2>8. retries' \in 0..MaxRetries
    BY <2>5
  <2> QED
    BY <2>2, <2>3, <2>4, <2>5, <2>6, <2>7, <2>8
<1>2. ASSUME NEW s \in {"Running", "Canceled"}, PrepareFails(s)
      PROVE  TransactionTypeOK'
  BY <1>2 DEF PrepareFails, Throw
<1>3. ASSUME StartBackup PROVE TransactionTypeOK'
  <2>1. UnpackOpsOf(ToSet(toInstall)) \in SUBSET UnpackOps
    BY DEF UnpackOpsOf
  <2> QED
    BY <1>3, <2>1 DEF StartBackup, Runner!Run
<1>4. ASSUME NEW op \in UnpackOps, PoolStep(op) PROVE TransactionTypeOK'
  <2>1. Runner!RunnerTypeOK'
    BY <1>4, PoolTypeStep DEF PoolStep
  <2> QED
    BY <1>4, <2>1 DEF PoolStep
<1>5. ASSUME NEW op \in UnpackOps, NEW ok \in BOOLEAN, UnpackOperation(op, ok)
      PROVE  TransactionTypeOK'
  <2>1. op \in Operations
    OBVIOUS
  <2>2. /\ effect' \in [Operations -> {"none", "partial", "done"}]
        /\ error' \in [Operations -> {"NoError", "InvalidArguments", "UserDefinedError"}]
    BY <1>5 DEF UnpackOperation, Performed
  <2>3. /\ task' \in [UnpackOps -> {"none", "queued", "running", "ended"}]
        /\ value' \in [UnpackOps -> BOOLEAN]
    BY <1>5 DEF UnpackOperation, Runner!EndTask
  <2> QED
    BY <1>5, <2>2, <2>3 DEF UnpackOperation, Runner!EndTask
<1>6. ASSUME NEW refused \in BOOLEAN, BackupDone(refused) PROVE TransactionTypeOK'
  <2>1. CASE Throw(status) /\ UNCHANGED poolVars
    BY <1>6, <2>1 DEF BackupDone, Throw
  <2>2. CASE /\ Runner!Run(UnpackOpsOf(ToSet(toInstall)))
             /\ phase' = "unpack" /\ UNCHANGED <<step, status, current>>
    <3>1. Runner!RunnerTypeOK'
      <4>1. UnpackOpsOf(ToSet(toInstall)) \in SUBSET UnpackOps
        BY DEF UnpackOpsOf
      <4> QED
        BY <2>2, <4>1 DEF Runner!Run
    <3>2. UNCHANGED <<workVars, old, session, machineVars, hubVars, retries>>
      BY <1>6 DEF BackupDone
    <3> QED
      BY <2>2, <3>1, <3>2
  <2> QED
    BY <1>6, <2>1, <2>2 DEF BackupDone
<1>7. ASSUME UnpackDone PROVE TransactionTypeOK'
  BY <1>7 DEF UnpackDone
<1>8. ASSUME NEW op \in UnpackOps, TakeResult(op) PROVE TransactionTypeOK'
  BY <1>8 DEF TakeResult
<1>9. ASSUME NEW cs \in Seq(Components), InstallNext(cs),
             UNCHANGED <<uncollected, unpackError, old, session, machineVars,
                         retries, poolVars, status, current>>,
             hub' \in SUBSET Components, hubOnDisk' \in SUBSET Components
      PROVE  TransactionTypeOK'
  <2>1. CASE cs = <<>>
    BY <1>9, <2>1 DEF InstallNext
  <2>2. CASE cs # <<>>
    <3>1. Head(cs) \in Components
      BY <2>2, HeadTailInSeq
    <3>2. InstallOps[Head(cs)] \in Seq(Operations \ UnpackOps)
      BY <3>1
    <3> QED
      BY <1>9, <2>2, <3>2 DEF InstallNext
  <2> QED
    BY <2>1, <2>2
<1>10. ASSUME CollectDone PROVE TransactionTypeOK'
  <2>1. CASE unpackError
    BY <1>10, <2>1 DEF CollectDone, Throw
  <2>2. CASE ~unpackError
    BY <1>10, <2>2, <1>9 DEF CollectDone
  <2> QED
    BY <2>1, <2>2
<1>11. ASSUME CheckOperation PROVE TransactionTypeOK'
  BY <1>11, HeadTailInSeq DEF CheckOperation, Throw
<1>12. ASSUME ElevationRefused PROVE TransactionTypeOK'
  BY <1>12 DEF ElevationRefused, Throw
<1>13. ASSUME BackupReturns PROVE TransactionTypeOK'
  BY <1>13 DEF BackupReturns
<1>14. ASSUME ComponentInstalled PROVE TransactionTypeOK'
  <2>1. toInstall # <<>>
    BY <1>14 DEF ComponentInstalled, Control
  <2>2. Head(toInstall) \in Components /\ Tail(toInstall) \in Seq(Components)
    BY <2>1, HeadTailInSeq
  <2> QED
    BY <1>14, <2>2, <1>9 DEF ComponentInstalled
<1>15. ASSUME NEW ok \in BOOLEAN, PerformReturns(ok) PROVE TransactionTypeOK'
  BY <1>15 DEF PerformReturns, Performed
<1>16. ASSUME NEW ok \in BOOLEAN, NEW ignored \in BOOLEAN,
              step \in {"succeeded", "failed"},
              Collected(ok, ignored) \/ Handled(ok, ignored),
              UNCHANGED <<old, error, effect, hubVars, retries, poolVars>>
       PROVE  TransactionTypeOK'
  <2>1. current \in Operations
    BY <1>16 DEF Collected, Handled, Control
  <2>2. session' \in Seq(Operations) /\ lost' \in SUBSET Operations
    <3>1. Record(current, ok)
      BY <1>16 DEF Collected, Handled
    <3>2. Append(session, current) \in Seq(Operations)
      BY <2>1, AppendProperties
    <3> QED
      BY <2>1, <3>1, <3>2 DEF Record
  <2>3. CASE Collected(ok, ignored)
    BY <1>16, <2>2, <2>3 DEF Collected
  <2>4. CASE Handled(ok, ignored)
    <3>1. opsLeft # <<>>
      BY <1>16, <2>4 DEF Handled, Control
    <3>2. Tail(opsLeft) \in Seq(Operations \ UnpackOps)
      BY <3>1, HeadTailInSeq
    <3> QED
      BY <1>16, <2>2, <2>4, <3>2 DEF Handled, Throw
  <2> QED
    BY <1>16, <2>3, <2>4
<1>17. ASSUME Finish PROVE TransactionTypeOK'
  BY <1>17, <1>16 DEF Finish
<1>18. ASSUME AnswerRetry PROVE TransactionTypeOK'
  BY <1>18 DEF AnswerRetry
<1>19. ASSUME AnswerIgnore PROVE TransactionTypeOK'
  BY <1>19, <1>16 DEF AnswerIgnore
<1>20. ASSUME AnswerCancel PROVE TransactionTypeOK'
  BY <1>20 DEF AnswerCancel
<1>21. ASSUME Interrupt PROVE TransactionTypeOK'
  BY <1>21 DEF Interrupt, Runner!Cancel
<1>22. ASSUME NEW ok \in BOOLEAN, UndoLast(ok) PROVE TransactionTypeOK'
  <2>1. Front(session) \in Seq(Operations) /\ Last(session) \in Operations
    BY <1>22, FrontLastProperties DEF UndoLast
  <2> QED
    BY <1>22, <2>1 DEF UndoLast
<1>23. ASSUME SkipLast PROVE TransactionTypeOK'
  <2>1. Front(session) \in Seq(Operations) /\ Last(session) \in Operations
    BY <1>23, FrontLastProperties DEF SkipLast
  <2> QED
    BY <1>23, <2>1 DEF SkipLast
<1>24. ASSUME RollbackDone PROVE TransactionTypeOK'
  <2>1. \A S : <<>> \in Seq(S)
    BY EmptySeq
  <2> QED
    BY <1>24, <2>1 DEF RollbackDone, LocalsGone
<1>25. ASSUME Commit PROVE TransactionTypeOK'
  <2>1. old \o session \in Seq(Operations)
    BY ConcatProperties
  <2> QED
    BY <1>25, <2>1, EmptySeq DEF Commit, LocalsGone
<1>26. ASSUME AbortEnds PROVE TransactionTypeOK'
  BY <1>26 DEF AbortEnds
<1>27. CASE UNCHANGED transactionVars
  BY <1>27 DEF transactionVars
<1> HIDE DEF TransactionTypeOK
<1> QED
  BY <1>1, <1>2, <1>3, <1>4, <1>5, <1>6, <1>7, <1>8, <1>10, <1>11, <1>12, <1>13, <1>14,
     <1>15, <1>17, <1>18, <1>19, <1>20, <1>21, <1>22, <1>23, <1>24, <1>25, <1>26, <1>27
  DEF TransactionNext, BeginSome, TransactionStep, UnpackStep, MainThreadUnpackStep,
      InstallStep, OperationLoop, RollbackStep

-----------------------------------------------------------------------------
(* Control                                                                 *)

\* No session runs at first, so that nothing is being handled.
LEMMA ControlInit == TransactionInit => Control
  BY DEF TransactionInit, Control

\* The phases follow one another, and each leaves its local variables behind.
LEMMA ControlStep ==
  TransactionTypeOK /\ Control /\ [TransactionNext]_transactionVars => Control'
<1> SUFFICES ASSUME TransactionTypeOK, Control, [TransactionNext]_transactionVars
             PROVE  Control'
  OBVIOUS
<1> USE DEF Control, flowVars, workVars
<1>1. ASSUME NEW plan \in Plans, BeginInstaller(plan) \/ BeginUpdater(plan)
      PROVE  Control'
  BY <1>1 DEF BeginInstaller, BeginUpdater, Begin
<1>2. ASSUME NEW s \in {"Running", "Canceled"}, PrepareFails(s) PROVE Control'
  BY <1>2 DEF PrepareFails, Throw
<1>3. ASSUME StartBackup PROVE Control'
  BY <1>3 DEF StartBackup
<1>4. ASSUME NEW op \in UnpackOps, PoolStep(op) PROVE Control'
  BY <1>4 DEF PoolStep
<1>5. ASSUME NEW op \in UnpackOps, NEW ok \in BOOLEAN, UnpackOperation(op, ok)
      PROVE  Control'
  BY <1>5 DEF UnpackOperation
<1>6. ASSUME NEW refused \in BOOLEAN, BackupDone(refused) PROVE Control'
  BY <1>6 DEF BackupDone, Throw
<1>7. ASSUME UnpackDone PROVE Control'
  BY <1>7 DEF UnpackDone
<1>8. ASSUME NEW op \in UnpackOps, TakeResult(op) PROVE Control'
  BY <1>8 DEF TakeResult
<1>9. ASSUME CollectDone PROVE Control'
  BY <1>9 DEF CollectDone, Throw, InstallNext
<1>10. ASSUME CheckOperation PROVE Control'
  <2>1. opsLeft # <<>> => Head(opsLeft) \in Operations
    BY HeadTailInSeq DEF TransactionTypeOK
  <2> QED
    BY <1>10, <2>1 DEF CheckOperation, Throw
<1>11. ASSUME ElevationRefused PROVE Control'
  BY <1>11 DEF ElevationRefused, Throw
<1>12. ASSUME BackupReturns PROVE Control'
  BY <1>12 DEF BackupReturns
<1>13. ASSUME ComponentInstalled PROVE Control'
  BY <1>13 DEF ComponentInstalled, InstallNext
<1>14. ASSUME NEW ok \in BOOLEAN, PerformReturns(ok) PROVE Control'
  BY <1>14 DEF PerformReturns
<1>15. ASSUME NEW ok \in BOOLEAN, NEW ignored \in BOOLEAN,
              Collected(ok, ignored) \/ Handled(ok, ignored)
       PROVE  Control'
  BY <1>15 DEF Collected, Handled, Throw
<1>16. ASSUME Finish \/ AnswerIgnore PROVE Control'
  BY <1>15, <1>16 DEF Finish, AnswerIgnore
<1>17. ASSUME AnswerRetry \/ AnswerCancel PROVE Control'
  BY <1>17 DEF AnswerRetry, AnswerCancel
<1>18. ASSUME Interrupt PROVE Control'
  BY <1>18 DEF Interrupt
<1>19. ASSUME (\E ok \in BOOLEAN : UndoLast(ok)) \/ SkipLast PROVE Control'
  BY <1>19 DEF UndoLast, SkipLast
<1>20. ASSUME RollbackDone \/ Commit \/ AbortEnds PROVE Control'
  BY <1>20 DEF RollbackDone, Commit, AbortEnds, LocalsGone
<1>21. CASE UNCHANGED transactionVars
  BY <1>21 DEF transactionVars
<1> HIDE DEF Control
<1> QED
  BY <1>1, <1>2, <1>3, <1>4, <1>5, <1>6, <1>7, <1>8, <1>9, <1>10, <1>11, <1>12, <1>13,
     <1>14, <1>16, <1>17, <1>18, <1>19, <1>20, <1>21
  DEF TransactionNext, BeginSome, TransactionStep, UnpackStep, MainThreadUnpackStep,
      InstallStep, OperationLoop, RollbackStep

-----------------------------------------------------------------------------
(* The runner within the session                                           *)

\* The runner starts empty, outside of its event loop.
LEMMA PoolInit == TransactionInit => PoolInStep
  BY DEF TransactionInit, PoolInStep, Runner!RunnerInit, Runner!WatchedUntilOver

\* Every step of a session leaves the runner where unpackComponents() expects it:
\* inside run() exactly while the two batches run.
LEMMA PoolInStepStep ==
  TransactionTypeOK /\ Control /\ PoolInStep /\ [TransactionNext]_transactionVars
    => PoolInStep'
<1> SUFFICES ASSUME TransactionTypeOK, Control, PoolInStep,
                    [TransactionNext]_transactionVars
             PROVE  PoolInStep'
  OBVIOUS
<1>t. Runner!RunnerTypeOK
  BY DEF TransactionTypeOK
<1> USE DEF PoolInStep, Runner!WatchedUntilOver, flowVars, poolVars
<1>1. ASSUME NEW plan \in Plans, BeginInstaller(plan) \/ BeginUpdater(plan)
      PROVE  PoolInStep'
  BY <1>1 DEF BeginInstaller, BeginUpdater, Begin
<1>2. ASSUME NEW s \in {"Running", "Canceled"}, PrepareFails(s) PROVE PoolInStep'
  BY <1>2 DEF PrepareFails, Throw
<1>3. ASSUME Runner!Run(UnpackOpsOf(ToSet(toInstall))), phase' \in {"backup", "unpack"}
      PROVE  PoolInStep'
  <2>1. UnpackOpsOf(ToSet(toInstall)) \in SUBSET UnpackOps
    BY DEF UnpackOpsOf
  <2> QED
    BY <1>3, <2>1 DEF Runner!Run
<1>4. ASSUME StartBackup PROVE PoolInStep'
  BY <1>3, <1>4 DEF StartBackup
<1>5. ASSUME NEW op \in UnpackOps, PoolStep(op) PROVE PoolInStep'
  <2> USE <1>t DEF Runner!RunnerTypeOK, Runner!TaskState
  <2>p. phase' \in {"backup", "unpack"} /\ status' = status
    BY <1>5 DEF PoolStep
  <2>1. CASE Runner!StartTask(op) \/ Runner!SkipTask(op)
    <3>1. op \in watched
      BY <2>1 DEF Runner!StartTask, Runner!SkipTask
    <3> QED
      BY <2>p, <2>1, <3>1 DEF Runner!StartTask, Runner!SkipTask
  <2>2. CASE Runner!HandleFinished(op)
    BY <2>p, <2>2 DEF Runner!HandleFinished
  <2>3. CASE Runner!EndTask(op, TRUE)
    <3>1. op \in watched
      BY <2>3 DEF Runner!EndTask
    <3> QED
      BY <2>p, <2>3, <3>1 DEF Runner!EndTask
  <2> QED
    BY <1>5, <2>1, <2>2, <2>3 DEF PoolStep
<1>6. ASSUME NEW op \in UnpackOps, NEW ok \in BOOLEAN, UnpackOperation(op, ok)
      PROVE  PoolInStep'
  <2> USE <1>t DEF Runner!RunnerTypeOK, Runner!TaskState
  <2>1. Runner!EndTask(op, ok) /\ phase' = "unpack" /\ status' = status
    BY <1>6 DEF UnpackOperation
  <2>2. op \in watched
    BY <2>1 DEF Runner!EndTask
  <2> QED
    BY <2>1, <2>2 DEF Runner!EndTask
<1>7. ASSUME NEW refused \in BOOLEAN, BackupDone(refused) PROVE PoolInStep'
  <2>1. CASE Throw(status) /\ UNCHANGED poolVars
    BY <2>1 DEF Throw
  <2>2. CASE Runner!Run(UnpackOpsOf(ToSet(toInstall))) /\ phase' = "unpack"
    BY <2>2, <1>3
  <2> QED
    BY <1>7, <2>1, <2>2 DEF BackupDone
<1>8. ASSUME UnpackDone \/ \E op \in UnpackOps : TakeResult(op) PROVE PoolInStep'
  BY <1>8 DEF UnpackDone, TakeResult
<1>9. ASSUME CollectDone PROVE PoolInStep'
  BY <1>9 DEF CollectDone, Throw, InstallNext
<1>10. ASSUME CheckOperation \/ ElevationRefused PROVE PoolInStep'
  BY <1>10 DEF CheckOperation, ElevationRefused, Throw
<1>11. ASSUME BackupReturns \/ ComponentInstalled PROVE PoolInStep'
  BY <1>11 DEF BackupReturns, ComponentInstalled, InstallNext
<1>12. ASSUME \E ok \in BOOLEAN : PerformReturns(ok) PROVE PoolInStep'
  BY <1>12 DEF PerformReturns
<1>13. ASSUME NEW ok \in BOOLEAN, NEW ignored \in BOOLEAN,
              Collected(ok, ignored) \/ Handled(ok, ignored), UNCHANGED poolVars
       PROVE  PoolInStep'
  BY <1>13 DEF Collected, Handled, Throw
<1>14. ASSUME Finish \/ AnswerIgnore PROVE PoolInStep'
  BY <1>13, <1>14 DEF Finish, AnswerIgnore
<1>15. ASSUME AnswerRetry \/ AnswerCancel PROVE PoolInStep'
  BY <1>15 DEF AnswerRetry, AnswerCancel, Control
<1>16. ASSUME Interrupt PROVE PoolInStep'
  <2>1. phase' = phase /\ phase \notin {"ready", "prepared", "rolledBack"}
    BY <1>16 DEF Interrupt
  <2>2. status' = "Canceled" /\ UNCHANGED <<watched, task, value, results, looping>>
        /\ canceled' = canceled \cup watched
    BY <1>16 DEF Interrupt, Runner!Cancel
  <2> QED
    BY <2>1, <2>2
<1>17. ASSUME (\E ok \in BOOLEAN : UndoLast(ok)) \/ SkipLast PROVE PoolInStep'
  BY <1>17 DEF UndoLast, SkipLast
<1>18. ASSUME RollbackDone \/ Commit PROVE PoolInStep'
  BY <1>18 DEF RollbackDone, Commit, LocalsGone
<1>19. ASSUME AbortEnds PROVE PoolInStep'
  BY <1>19 DEF AbortEnds
<1>20. CASE UNCHANGED transactionVars
  BY <1>20 DEF transactionVars
<1> HIDE DEF PoolInStep
<1> QED
  BY <1>1, <1>2, <1>4, <1>5, <1>6, <1>7, <1>8, <1>9, <1>10, <1>11, <1>12, <1>14, <1>15,
     <1>16, <1>17, <1>18, <1>19, <1>20
  DEF TransactionNext, BeginSome, TransactionStep, UnpackStep, MainThreadUnpackStep,
      InstallStep, OperationLoop, RollbackStep

-----------------------------------------------------------------------------
(* Effects                                                                 *)

\* At first no operation has had an effect or failed.
LEMMA EffectsInit == TransactionInit => FailuresAccounted /\ EffectsTracked
  BY TransactionAssumption
  DEF TransactionInit, FailuresAccounted, EffectsTracked, SafeToDrop, Runner!RunnerInit

\* A step that touches neither the machine nor the two lists, and lets go of no
\* operation, loses nothing.
LEMMA QuietStep ==
  ASSUME EffectsTracked, UNCHANGED <<machineVars, old, session>>, InFlight \subseteq InFlight'
  PROVE  EffectsTracked'
  BY DEF EffectsTracked, Recorded, machineVars

\* What is recorded, or dropped when a cancel or the lack of an effect allows
\* it, stays accounted for. Nobody else is touched by it.
LEMMA RecordKeepsTrack ==
  ASSUME TransactionTypeOK, NEW op \in Operations, NEW ok \in BOOLEAN, Record(op, ok),
         UNCHANGED <<old, error, effect>>,
         ok \/ status = "Canceled" \/ SafeToDrop(op)
  PROVE  /\ Recorded \cup lost \subseteq Recorded' \cup lost'
         /\ effect[op] # "none" => op \in Recorded' \cup lost'
<1>1. CASE NeedsUndo(op, ok)
  <2>1. ToSet(session') = ToSet(session) \cup {op} /\ lost' = lost \ {op}
    BY <1>1, ToSetAppend DEF Record, TransactionTypeOK
  <2> QED
    BY <2>1 DEF Recorded
<1>2. CASE ~NeedsUndo(op, ok)
  BY <1>2 DEF Record, Recorded, NeedsUndo, SafeToDrop
<1> QED
  BY <1>1, <1>2

\* Taking the last operation off the list, with its effect gone or the
\* operation given up.
LEMMA UndoKeepsTrack ==
  ASSUME TransactionTypeOK, session # <<>>, session' = Front(session), old' = old,
         EffectsTracked, FailuresAccounted, InFlight = {},
         \/ effect' = [effect EXCEPT ![Last(session)] = "none"]
              /\ lost' = lost \ {Last(session)}
         \/ effect' = effect /\ lost' = lost \cup {Last(session)}
  PROVE  \A op \in Operations : effect'[op] # "none" => op \in Recorded' \cup lost'
<1>1. ToSet(session) = ToSet(session') \cup {Last(session)} /\ Last(session) \in Operations
  BY FrontLastProperties DEF TransactionTypeOK
<1> QED
  BY <1>1 DEF EffectsTracked, Recorded, TransactionTypeOK

\* No step of a session loses sight of what an operation has done.
LEMMA EffectsStep ==
  TransactionInv /\ [TransactionNext]_transactionVars => FailuresAccounted' /\ EffectsTracked'
<1> SUFFICES ASSUME TransactionTypeOK, Control, PoolInStep, FailuresAccounted,
                    EffectsTracked, [TransactionNext]_transactionVars
             PROVE  FailuresAccounted' /\ EffectsTracked'
  BY DEF TransactionInv
<1>b. BadArguments \subseteq Operations /\ UnpackOps \subseteq Operations
  BY TransactionAssumption
<1>e. effect \in [Operations -> {"none", "partial", "done"}]
  BY DEF TransactionTypeOK
<1>1. ASSUME NEW plan \in Plans, BeginInstaller(plan) \/ BeginUpdater(plan)
      PROVE  FailuresAccounted' /\ EffectsTracked'
  <2>1. /\ phase = "ready" /\ phase' = "prepared" /\ step' = "none" /\ uncollected' = {}
        /\ UNCHANGED <<current, old>>
    BY <1>1 DEF BeginInstaller, BeginUpdater, Begin, Control
  <2>2. InFlight = {}
    BY <2>1 DEF InFlight, Control
  <2>3. \A op \in Operations : effect'[op] # "none" => op \in Recorded' \cup lost'
    <3>1. CASE BeginInstaller(plan)
      <4>1. ToSet(session') = ToSet(session) \cup {TargetDirOp}
        BY <3>1, ToSetAppend, TransactionAssumption DEF BeginInstaller, TransactionTypeOK
      <4> QED
        BY <3>1, <4>1, <2>1, <2>2, <1>e DEF BeginInstaller, EffectsTracked, Recorded
    <3>2. CASE BeginUpdater(plan)
      BY <3>2, <2>1, <2>2 DEF BeginUpdater, EffectsTracked, Recorded
    <3> QED
      BY <1>1, <3>1, <3>2
  <2> QED
    BY <2>1, <2>3, <1>b DEF FailuresAccounted, EffectsTracked
<1>2. ASSUME NEW s \in {"Running", "Canceled"}, PrepareFails(s)
      PROVE  FailuresAccounted' /\ EffectsTracked'
  <2>1. /\ phase' = "rollback" /\ step' = "none" /\ InFlight = {}
        /\ UNCHANGED <<machineVars, old, session>>
    BY <1>2 DEF PrepareFails, Throw, Control, InFlight
  <2> QED
    BY <2>1, QuietStep DEF FailuresAccounted, machineVars, Recorded
<1>3. ASSUME StartBackup PROVE FailuresAccounted' /\ EffectsTracked'
  <2>1. /\ phase' = "backup" /\ step' = "none" /\ InFlight = {}
        /\ UNCHANGED <<machineVars, old, session>>
    BY <1>3 DEF StartBackup, Control, InFlight
  <2> QED
    BY <2>1, QuietStep DEF FailuresAccounted, machineVars, Recorded
<1>4. ASSUME NEW op \in UnpackOps, PoolStep(op)
      PROVE  FailuresAccounted' /\ EffectsTracked'
  <2>1. /\ phase' = phase /\ phase \in {"backup", "unpack"} /\ step' = "none"
        /\ UNCHANGED <<machineVars, old, session, current, uncollected, status>>
    BY <1>4 DEF PoolStep, Control, flowVars, workVars
  <2>2. /\ value' = value \/ phase = "backup"
        /\ canceled' = canceled
        /\ \A o \in UnpackOps : task[o] \in {"running", "ended"} => task'[o] \in {"running", "ended"}
        /\ \A o \in UnpackOps : task'[o] = "ended" => task[o] = "ended" \/ o \in canceled
                                                      \/ phase = "backup"
    BY <1>4 DEF PoolStep, Runner!StartTask, Runner!SkipTask, Runner!EndTask,
                Runner!HandleFinished, TransactionTypeOK, Runner!RunnerTypeOK
  <2>3. InFlight \subseteq InFlight'
    BY <2>1, <2>2 DEF InFlight
  <2>4. FailuresAccounted'
    BY <2>1, <2>2 DEF FailuresAccounted, SafeToDrop, machineVars, Recorded
  <2> QED
    BY <2>1, <2>3, <2>4, QuietStep
<1>5. ASSUME NEW op \in UnpackOps, NEW ok \in BOOLEAN, UnpackOperation(op, ok)
      PROVE  FailuresAccounted' /\ EffectsTracked'
  <2>1. /\ phase' = "unpack" /\ phase = "unpack" /\ step' = "none" /\ Performed(op, ok)
        /\ UNCHANGED <<old, session, lost, current, uncollected, status, canceled>>
        /\ task[op] = "running" /\ task' = [task EXCEPT ![op] = "ended"]
        /\ value' = [value EXCEPT ![op] = ok]
    BY <1>5 DEF UnpackOperation, Runner!EndTask, Control, flowVars, workVars
  <2>2. /\ task \in [UnpackOps -> {"none", "queued", "running", "ended"}]
        /\ value \in [UnpackOps -> BOOLEAN]
        /\ error \in [Operations -> {"NoError", "InvalidArguments", "UserDefinedError"}]
    BY DEF TransactionTypeOK, Runner!RunnerTypeOK, Runner!TaskState
  <2>3. InFlight \subseteq InFlight' /\ op \in InFlight'
    BY <2>1, <2>2 DEF InFlight
  <2>4. \A o \in Operations \ {op} : effect'[o] = effect[o] /\ error'[o] = error[o]
    BY <2>1, <2>2, <1>e DEF Performed
  <2>5. EffectsTracked'
    BY <2>1, <2>3, <2>4 DEF EffectsTracked, Recorded
  <2>6. op \in BadArguments => effect'[op] = effect[op]
    BY <2>1, <1>b, <1>e DEF Performed
  <2>7. ~ok /\ op \notin BadArguments => error'[op] = "UserDefinedError"
    BY <2>1, <2>2, <1>b DEF Performed
  <2>8. \A o \in BadArguments : effect'[o] # "none" => o \in Recorded' \cup lost'
    BY <2>1, <2>4, <2>6, <1>b DEF FailuresAccounted, Recorded
  <2>9. \A o \in UnpackOps :
          task'[o] = "ended" /\ ~value'[o] /\ o \notin canceled' => SafeToDrop(o)'
    <3> TAKE o \in UnpackOps
    <3>1. CASE o = op
      BY <3>1, <2>1, <2>2, <2>7, <2>8 DEF SafeToDrop
    <3>2. CASE o # op
      BY <3>2, <2>1, <2>2, <2>4, <1>b DEF SafeToDrop, FailuresAccounted, Recorded
    <3> QED
      BY <3>1, <3>2
  <2> QED
    BY <2>1, <2>5, <2>8, <2>9 DEF FailuresAccounted
<1>6. ASSUME NEW refused \in BOOLEAN, BackupDone(refused)
      PROVE  FailuresAccounted' /\ EffectsTracked'
  <2>1. /\ step' = "none" /\ UNCHANGED <<machineVars, old, session, uncollected>>
        /\ phase' \in {"rollback", "unpack"} /\ InFlight = {}
    BY <1>6 DEF BackupDone, Throw, Control, workVars, InFlight
  <2>2. phase' = "unpack" => \A op \in UnpackOps : task'[op] # "ended"
    BY <1>6 DEF BackupDone, Throw, Runner!Run
  <2> QED
    BY <2>1, <2>2, QuietStep DEF FailuresAccounted, machineVars, Recorded
<1>7. ASSUME UnpackDone PROVE FailuresAccounted' /\ EffectsTracked'
  <2>1. /\ phase = "unpack" /\ ~looping /\ phase' = "collect" /\ step' = "none"
        /\ uncollected' = {op \in UnpackOps : results[op] # "none"}
        /\ UNCHANGED <<machineVars, old, session, current, status, results>>
        /\ uncollected = {} /\ current = None
    BY <1>7 DEF UnpackDone, Control, poolVars
  <2>2. \A op \in UnpackOps : task[op] \in {"running", "ended"} => results[op] # "none"
    BY <2>1 DEF PoolInStep, Runner!WatchedUntilOver
  <2>3. InFlight \subseteq InFlight'
    BY <2>1, <2>2 DEF InFlight
  <2>4. ASSUME status # "Canceled", NEW op \in uncollected', results[op] # "true"
        PROVE  SafeToDrop(op)
    <3>1. results[op] = "false" /\ op \in UnpackOps /\ task[op] = "ended"
      BY <2>1, <2>4 DEF TransactionTypeOK, Runner!RunnerTypeOK, PoolInStep
    <3>2. ~value[op] /\ op \notin canceled
      BY <2>4, <3>1 DEF PoolInStep
    <3> QED
      BY <2>1, <3>1, <3>2 DEF FailuresAccounted
  <2>5. FailuresAccounted'
    BY <2>1, <2>4 DEF FailuresAccounted, SafeToDrop, machineVars, Recorded
  <2> QED
    BY <2>1, <2>3, <2>5, QuietStep
<1>8. ASSUME NEW op \in UnpackOps, TakeResult(op)
      PROVE  FailuresAccounted' /\ EffectsTracked'
  <2>1. /\ phase = "collect" /\ phase' = "collect" /\ current = None /\ op \in uncollected
        /\ current' = op /\ step' = (IF results[op] = "true" THEN "succeeded" ELSE "failed")
        /\ UNCHANGED <<machineVars, old, session, uncollected, status, results>>
    BY <1>8 DEF TakeResult, workVars, poolVars
  <2>2. InFlight \subseteq InFlight'
    BY <2>1 DEF InFlight
  <2>3. None \notin uncollected
    BY TransactionAssumption, <1>b DEF TransactionTypeOK
  <2>4. FailuresAccounted'
    BY <2>1, <2>3 DEF FailuresAccounted, SafeToDrop, machineVars, Recorded
  <2> QED
    BY <2>1, <2>2, <2>4, QuietStep
<1>9. ASSUME CollectDone \/ CheckOperation \/ ElevationRefused \/ BackupReturns
               \/ ComponentInstalled
      PROVE  FailuresAccounted' /\ EffectsTracked'
  <2>1. /\ UNCHANGED <<machineVars, old, session>> /\ step' # "failed"
        /\ phase' \in {"install", "installed", "rollback"} /\ InFlight \subseteq InFlight'
    BY <1>9 DEF CollectDone, CheckOperation, ElevationRefused, BackupReturns,
                ComponentInstalled, InstallNext, Throw, Control, InFlight, workVars
  <2> QED
    BY <2>1, QuietStep DEF FailuresAccounted, machineVars, Recorded
<1>10. ASSUME NEW ok \in BOOLEAN, PerformReturns(ok)
       PROVE  FailuresAccounted' /\ EffectsTracked'
  <2>1. /\ phase \in {"collect", "install"} /\ step = "perform" /\ Performed(current, ok)
        /\ step' = (IF ok THEN "succeeded" ELSE "failed")
        /\ UNCHANGED <<phase, current, uncollected, status, old, session, lost, results, task>>
    BY <1>10 DEF PerformReturns, workVars, poolVars
  <2>2. current \in Operations /\ current # None
    BY <2>1, <1>b, TransactionAssumption DEF Control, TransactionTypeOK
  <2>3. InFlight' = InFlight /\ current \in InFlight
    BY <2>1, <2>2 DEF InFlight
  <2>4. error \in [Operations -> {"NoError", "InvalidArguments", "UserDefinedError"}]
    BY DEF TransactionTypeOK
  <2>5. \A o \in Operations \ {current} : effect'[o] = effect[o] /\ error'[o] = error[o]
    BY <2>1, <2>2, <2>4, <1>e DEF Performed
  <2>6. EffectsTracked'
    BY <2>1, <2>3, <2>5 DEF EffectsTracked, Recorded
  <2>7. current \in BadArguments => effect'[current] = effect[current]
    BY <2>1, <2>2, <1>b, <1>e DEF Performed
  <2>8. ~ok /\ current \notin BadArguments => error'[current] = "UserDefinedError"
    BY <2>1, <2>2, <2>4, <1>b DEF Performed
  <2>9. \A o \in BadArguments : effect'[o] # "none" => o \in Recorded' \cup lost'
    BY <2>1, <2>5, <2>7, <1>b DEF FailuresAccounted, Recorded
  <2>10. step' = "failed" => SafeToDrop(current)'
    BY <2>1, <2>8, <2>9 DEF SafeToDrop
  <2>11. phase' = "collect" /\ status' # "Canceled" =>
           \A op \in uncollected' \ {current'} : results'[op] # "true" => SafeToDrop(op)'
    <3>1. uncollected \subseteq Operations
      BY <1>b DEF TransactionTypeOK
    <3> QED
      BY <2>1, <2>5, <3>1 DEF FailuresAccounted, SafeToDrop, Recorded
  <2> QED
    BY <2>1, <2>6, <2>9, <2>10, <2>11 DEF FailuresAccounted
<1>11. ASSUME NEW ok \in BOOLEAN, NEW ignored \in BOOLEAN,
              step \in {"succeeded", "failed"},
              ok \/ status = "Canceled" \/ (step = "failed" /\ status # "Canceled"),
              Collected(ok, ignored) \/ Handled(ok, ignored),
              UNCHANGED <<old, error, effect, results>>
       PROVE  FailuresAccounted' /\ EffectsTracked'
  <2>1. /\ Record(current, ok) /\ current \in Operations
        /\ phase \in {"collect", "install"} /\ step' # "failed" /\ current' = None
    BY <1>11, <1>b DEF Collected, Handled, Throw, Control, TransactionTypeOK
  <2>2. ok \/ status = "Canceled" \/ SafeToDrop(current)
    BY <1>11 DEF FailuresAccounted
  <2>3. /\ Recorded \cup lost \subseteq Recorded' \cup lost'
        /\ effect[current] # "none" => current \in Recorded' \cup lost'
    BY <1>11, <2>1, <2>2, RecordKeepsTrack
  <2>4. InFlight \subseteq InFlight' \cup {current}
    BY <1>11, <2>1 DEF Collected, Handled, InFlight, Control
  <2>5. EffectsTracked'
    BY <1>11, <2>3, <2>4 DEF EffectsTracked
  <2>6. \A o \in BadArguments : effect'[o] # "none" => o \in Recorded' \cup lost'
    BY <1>11, <2>3 DEF FailuresAccounted
  <2>7. phase' = "collect" =>
          phase = "collect" /\ uncollected' = uncollected \ {current} /\ status' = status
    BY <1>11 DEF Collected, Handled, Throw
  <2>8. phase' = "collect" /\ status' # "Canceled" =>
          \A op \in uncollected' \ {current'} : results'[op] # "true" => SafeToDrop(op)'
    BY <1>11, <2>3, <2>7 DEF FailuresAccounted, SafeToDrop
  <2>9. phase' # "unpack"
    BY <1>11 DEF Collected, Handled, Throw
  <2> QED
    BY <2>1, <2>5, <2>6, <2>8, <2>9 DEF FailuresAccounted
<1>12. ASSUME Finish PROVE FailuresAccounted' /\ EffectsTracked'
  BY <1>11, <1>12 DEF Finish, poolVars
<1>13. ASSUME AnswerIgnore PROVE FailuresAccounted' /\ EffectsTracked'
  BY <1>11, <1>13 DEF AnswerIgnore, poolVars
<1>14. ASSUME AnswerRetry \/ AnswerCancel PROVE FailuresAccounted' /\ EffectsTracked'
  <2>1. /\ UNCHANGED <<machineVars, old, session, phase, current, uncollected, results>>
        /\ UNCHANGED <<task, value, canceled>>
        /\ status' = "Canceled" \/ (step' # "failed" /\ status' = status)
    BY <1>14 DEF AnswerRetry, AnswerCancel, workVars, poolVars
  <2>2. InFlight \subseteq InFlight'
    BY <2>1 DEF InFlight
  <2>3. FailuresAccounted'
    BY <2>1 DEF FailuresAccounted, SafeToDrop, machineVars, Recorded
  <2> QED
    BY <2>1, <2>2, <2>3, QuietStep
<1>15. ASSUME Interrupt PROVE FailuresAccounted' /\ EffectsTracked'
  <2>1. /\ UNCHANGED <<machineVars, old, session, phase, step, current, uncollected>>
        /\ UNCHANGED <<task, value, results>> /\ canceled \subseteq canceled'
        /\ status' = "Canceled"
    BY <1>15 DEF Interrupt, Runner!Cancel, workVars
  <2>2. InFlight \subseteq InFlight'
    BY <2>1 DEF InFlight
  <2>3. FailuresAccounted'
    BY <2>1 DEF FailuresAccounted, SafeToDrop, machineVars, Recorded
  <2> QED
    BY <2>1, <2>2, <2>3, QuietStep
<1>16. ASSUME (\E ok \in BOOLEAN : UndoLast(ok)) \/ SkipLast
       PROVE  FailuresAccounted' /\ EffectsTracked'
  <2>1. /\ phase = "rollback" /\ phase' = "rollback" /\ step' = "none" /\ session # <<>>
        /\ session' = Front(session) /\ old' = old /\ InFlight = {}
    BY <1>16 DEF UndoLast, SkipLast, Control, InFlight, flowVars
  <2>2. Last(session) \in Operations
    BY <2>1, FrontLastProperties DEF TransactionTypeOK
  <2>3. \/ effect' = [effect EXCEPT ![Last(session)] = "none"]
              /\ lost' = lost \ {Last(session)}
        \/ effect' = effect /\ lost' = lost \cup {Last(session)}
    BY <1>16, <2>2, <1>e DEF UndoLast, SkipLast
  <2>4. \A op \in Operations : effect'[op] # "none" => op \in Recorded' \cup lost'
    BY <2>1, <2>3, UndoKeepsTrack
  <2> QED
    BY <2>1, <2>4, <1>b DEF FailuresAccounted, EffectsTracked
<1>17. ASSUME RollbackDone \/ AbortEnds PROVE FailuresAccounted' /\ EffectsTracked'
  <2>1. /\ UNCHANGED <<machineVars, old, session>> /\ step' = "none" /\ InFlight = {}
        /\ phase' \in {"rolledBack", "ready"}
    BY <1>17 DEF RollbackDone, AbortEnds, Control, InFlight
  <2> QED
    BY <2>1, QuietStep DEF FailuresAccounted, machineVars, Recorded
<1>18. ASSUME Commit PROVE FailuresAccounted' /\ EffectsTracked'
  <2>1. /\ UNCHANGED machineVars /\ step' = "none" /\ phase' = "ready" /\ InFlight = {}
        /\ old' = old \o session /\ session' = <<>>
    BY <1>18 DEF Commit, Control, InFlight
  <2>2. ToSet(old') = ToSet(old) \cup ToSet(session)
    BY <2>1, ToSetConcat DEF TransactionTypeOK
  <2>3. Recorded \subseteq Recorded'
    BY <2>2 DEF Recorded
  <2> QED
    BY <2>1, <2>3 DEF FailuresAccounted, EffectsTracked, machineVars
<1>19. CASE UNCHANGED transactionVars
  <2>1. /\ UNCHANGED <<machineVars, old, session, phase, step, current, uncollected, status>>
        /\ UNCHANGED <<task, value, results, canceled>>
    BY <1>19 DEF transactionVars, flowVars, workVars, poolVars
  <2>2. InFlight \subseteq InFlight' /\ FailuresAccounted'
    BY <2>1 DEF InFlight, FailuresAccounted, SafeToDrop, machineVars, Recorded
  <2> QED
    BY <2>1, <2>2, QuietStep
<1> QED
  BY <1>1, <1>2, <1>3, <1>4, <1>5, <1>6, <1>7, <1>8, <1>9, <1>10, <1>12, <1>13, <1>14,
     <1>15, <1>16, <1>17, <1>18, <1>19
  DEF TransactionNext, BeginSome, TransactionStep, UnpackStep, MainThreadUnpackStep,
      InstallStep, OperationLoop, RollbackStep

-----------------------------------------------------------------------------
(* Theorems                                                                *)

\* The invariant all the theorems rest on: each of its parts is kept by every step,
\* with the help of the others.
LEMMA TransactionInvariant == TransactionSpec => []TransactionInv
<1>1. TransactionInit => TransactionInv
  BY TypeInit, ControlInit, PoolInit, EffectsInit DEF TransactionInv
<1>2. TransactionInv /\ [TransactionNext]_transactionVars => TransactionInv'
  BY TypeStep, ControlStep, PoolInStepStep, EffectsStep DEF TransactionInv
<1> QED
  BY <1>1, <1>2, PTL DEF TransactionSpec

\* The state of a session keeps its types.
THEOREM TransactionTypeCorrect == TransactionSpec => []TransactionTypeOK
  BY TransactionInvariant, PTL DEF TransactionInv

\* Whatever an operation did to the machine is recorded for undo, is still being
\* handled, or was given up in a canceled session or by an undo that failed: for
\* any number of components, operations and threads.
THEOREM NoEffectForgotten == TransactionSpec => []EffectsTracked
  BY TransactionInvariant, PTL DEF TransactionInv

-----------------------------------------------------------------------------
(* Cancel                                                                  *)

\* interrupt() reaches every operation that a thread of the pool may still take.
CancelReachesPool ==
  /\ phase = "prepared" => status = "Running"
  /\ phase \in {"backup", "unpack"} /\ status = "Canceled" => watched \subseteq canceled

\* Interrupt reaches every operation the runner still watches, and no later step
\* hands it another one.
LEMMA CancelReachesPoolStep ==
  TransactionInv /\ CancelReachesPool /\ [TransactionNext]_transactionVars
    => CancelReachesPool'
<1> SUFFICES ASSUME TransactionInv, CancelReachesPool, [TransactionNext]_transactionVars
             PROVE  CancelReachesPool'
  OBVIOUS
<1> USE DEF CancelReachesPool
<1>1. ASSUME \E plan \in Plans : BeginInstaller(plan) \/ BeginUpdater(plan)
      PROVE  CancelReachesPool'
  BY <1>1 DEF BeginInstaller, BeginUpdater, Begin
<1>2. ASSUME \E s \in {"Running", "Canceled"} : PrepareFails(s) PROVE CancelReachesPool'
  BY <1>2 DEF PrepareFails, Throw
<1>3. ASSUME StartBackup PROVE CancelReachesPool'
  BY <1>3 DEF StartBackup
<1>4. ASSUME NEW op \in UnpackOps, PoolStep(op) PROVE CancelReachesPool'
  BY <1>4 DEF PoolStep, flowVars, Runner!StartTask, Runner!SkipTask, Runner!EndTask,
              Runner!HandleFinished
<1>5. ASSUME NEW op \in UnpackOps, NEW ok \in BOOLEAN, UnpackOperation(op, ok)
      PROVE  CancelReachesPool'
  BY <1>5 DEF UnpackOperation, flowVars, Runner!EndTask
<1>6. ASSUME NEW refused \in BOOLEAN, BackupDone(refused) PROVE CancelReachesPool'
  BY <1>6 DEF BackupDone, Throw, statusCanceledOrFailed
<1>7. ASSUME UnpackDone \/ CollectDone \/ \E op \in UnpackOps : TakeResult(op)
      PROVE  CancelReachesPool'
  BY <1>7 DEF UnpackDone, CollectDone, TakeResult, Throw, InstallNext
<1>8. ASSUME InstallStep PROVE CancelReachesPool'
  BY <1>8 DEF InstallStep, CheckOperation, ElevationRefused, BackupReturns,
              ComponentInstalled, InstallNext, Throw
<1>9. ASSUME NEW ok \in BOOLEAN, NEW ignored \in BOOLEAN,
             Collected(ok, ignored) \/ Handled(ok, ignored)
      PROVE  CancelReachesPool'
  BY <1>9 DEF Collected, Handled, Throw
<1>10. ASSUME OperationLoop PROVE CancelReachesPool'
  <2>1. CASE Finish \/ AnswerIgnore
    BY <1>9, <2>1 DEF Finish, AnswerIgnore
  <2>2. CASE (\E ok \in BOOLEAN : PerformReturns(ok)) \/ AnswerRetry \/ AnswerCancel
    BY <2>2 DEF PerformReturns, AnswerRetry, AnswerCancel, TransactionInv, Control
  <2> QED
    BY <1>10, <2>1, <2>2 DEF OperationLoop
<1>11. ASSUME Interrupt PROVE CancelReachesPool'
  BY <1>11 DEF Interrupt, Runner!Cancel
<1>12. ASSUME RollbackStep PROVE CancelReachesPool'
  BY <1>12 DEF RollbackStep, UndoLast, SkipLast, RollbackDone, flowVars
<1>13. ASSUME Commit \/ AbortEnds PROVE CancelReachesPool'
  BY <1>13 DEF Commit, AbortEnds
<1>14. CASE UNCHANGED transactionVars
  BY <1>14 DEF transactionVars, flowVars, poolVars
<1> HIDE DEF CancelReachesPool
<1> QED
  BY <1>1, <1>2, <1>3, <1>4, <1>5, <1>6, <1>7, <1>8, <1>10, <1>11, <1>12, <1>13, <1>14
  DEF TransactionNext, BeginSome, TransactionStep, UnpackStep, MainThreadUnpackStep

\* After Cancel no operation is begun any more, neither by the threads of the
\* pool nor by installComponent(): for any number of both.
THEOREM NoNewWorkAfterCancel == TransactionSpec => CancelStopsNewWork
<1> DEFINE NoNewWork ==
      status = "Canceled" /\ status' = "Canceled" =>
        /\ \A op \in UnpackOps : task[op] = "queued" => task'[op] # "running"
        /\ phase = "install" => current' \in {current, None}
<1>1. TransactionInit => CancelReachesPool
  BY DEF TransactionInit, CancelReachesPool
<1>2. TransactionSpec => []CancelReachesPool
  BY <1>1, TransactionInvariant, CancelReachesPoolStep, PTL DEF TransactionSpec
<1>3. TransactionInv /\ CancelReachesPool /\ [TransactionNext]_transactionVars
        => [NoNewWork]_transactionVars
  <2> SUFFICES ASSUME TransactionInv, CancelReachesPool, TransactionNext,
                      status = "Canceled", status' = "Canceled"
               PROVE  /\ \A op \in UnpackOps : task[op] = "queued" => task'[op] # "running"
                      /\ phase = "install" => current' \in {current, None}
    BY DEF transactionVars
  <2>1. \A op \in UnpackOps : task[op] = "queued" => task'[op] # "running"
    <3>1. TransactionTypeOK /\ Runner!RunnerTypeOK /\ Runner!WatchedUntilOver
      BY DEF TransactionInv, TransactionTypeOK, PoolInStep
    <3> SUFFICES ASSUME NEW op \in UnpackOps, task[op] = "queued", task'[op] = "running"
                 PROVE  FALSE
      OBVIOUS
    <3>2. op \in watched
      BY <3>1 DEF Runner!WatchedUntilOver
    <3>3. \E o \in UnpackOps : phase \in {"backup", "unpack"} /\ Runner!StartTask(o)
                                 /\ task' = [task EXCEPT ![o] = "running"]
      <4>1. CASE \E o \in UnpackOps : PoolStep(o)
        <5>1. PICK o \in UnpackOps : PoolStep(o)
          BY <4>1
        <5>2. phase \in {"backup", "unpack"}
          BY <5>1 DEF PoolStep
        <5>3. CASE Runner!StartTask(o)
          BY <5>2, <5>3 DEF Runner!StartTask
        <5>4. CASE Runner!SkipTask(o) \/ Runner!EndTask(o, TRUE)
          BY <3>1, <5>4 DEF Runner!SkipTask, Runner!EndTask, Runner!RunnerTypeOK
        <5>5. CASE Runner!HandleFinished(o)
          BY <5>5 DEF Runner!HandleFinished
        <5> QED
          BY <5>1, <5>3, <5>4, <5>5 DEF PoolStep
      <4>2. CASE \E o \in UnpackOps, ok \in BOOLEAN : UnpackOperation(o, ok)
        BY <4>2, <3>1 DEF UnpackOperation, Runner!EndTask, Runner!RunnerTypeOK
      <4>3. CASE StartBackup \/ \E refused \in BOOLEAN : BackupDone(refused)
        BY <4>3, <3>1 DEF StartBackup, BackupDone, Runner!Run, poolVars
      <4>4. CASE RollbackDone \/ Commit
        BY <4>4 DEF RollbackDone, Commit, LocalsGone
      <4>5. CASE UNCHANGED task
        BY <4>5
      <4>6. CASE Interrupt
        BY <4>6 DEF Interrupt, Runner!Cancel
      <4> QED
        BY <4>1, <4>2, <4>3, <4>4, <4>5, <4>6
        DEF TransactionNext, BeginSome, TransactionStep, UnpackStep, MainThreadUnpackStep,
            InstallStep, OperationLoop, RollbackStep, BeginInstaller, BeginUpdater, Begin,
            PrepareFails, UnpackDone, TakeResult, CollectDone, CheckOperation,
            ElevationRefused, BackupReturns, ComponentInstalled, PerformReturns, Finish,
            AnswerRetry, AnswerIgnore, AnswerCancel, UndoLast, SkipLast, AbortEnds, poolVars
    <3>4. PICK o \in UnpackOps : /\ phase \in {"backup", "unpack"} /\ Runner!StartTask(o)
                                 /\ task' = [task EXCEPT ![o] = "running"]
      BY <3>3
    <3>5. o = op
      BY <3>1, <3>4 DEF Runner!RunnerTypeOK
    <3> QED
      BY <3>2, <3>4, <3>5 DEF CancelReachesPool, Runner!StartTask
  <2>2. phase = "install" => current' \in {current, None}
    <3> SUFFICES ASSUME phase = "install" PROVE current' \in {current, None}
      OBVIOUS
    <3>1. CASE InstallStep
      BY <3>1 DEF InstallStep, CheckOperation, ElevationRefused, BackupReturns,
                  ComponentInstalled, Throw, statusCanceledOrFailed, flowVars
    <3>2. ASSUME NEW ok \in BOOLEAN, NEW ignored \in BOOLEAN,
                 Collected(ok, ignored) \/ Handled(ok, ignored)
          PROVE  current' = None
      BY <3>2 DEF Collected, Handled, Throw
    <3>3. CASE OperationLoop
      BY <3>2, <3>3 DEF OperationLoop, PerformReturns, Finish, AnswerRetry, AnswerIgnore,
                        AnswerCancel
    <3>4. CASE Interrupt
      BY <3>4 DEF Interrupt
    <3> QED
      BY <3>1, <3>3, <3>4
      DEF TransactionNext, BeginSome, TransactionStep, UnpackStep, MainThreadUnpackStep,
          RollbackStep, BeginInstaller, BeginUpdater, Begin, PrepareFails, StartBackup,
          PoolStep, UnpackOperation, BackupDone, UnpackDone, TakeResult, CollectDone,
          UndoLast, SkipLast, RollbackDone, Commit, AbortEnds
  <2> QED
    BY <2>1, <2>2
<1> QED
  BY <1>2, <1>3, TransactionInvariant, PTL DEF TransactionSpec, CancelStopsNewWork

-----------------------------------------------------------------------------
(* The records of the session                                              *)

\* The phases in which the plan is carried out.
Working == {"prepared", "backup", "unpack", "collect", "install"}

\* How far the plan is carried out: the pool has the operations of the whole plan,
\* and installComponent() has not handled what is left of the list of the first
\* component.
PlanInStep ==
  /\ phase \in {"ready", "rolledBack"} => session = <<>>
  /\ IsInjective(toInstall)
  /\ phase = "installed" => toInstall = <<>>
  /\ phase \in {"backup", "unpack"} =>
       \A op \in UnpackOps : task[op] # "none" <=> ComponentOf[op] \in ToSet(toInstall)
  /\ uncollected \subseteq UnpackOpsOf(ToSet(toInstall))
  /\ phase = "install" =>
       /\ IsInjective(opsLeft) /\ ToSet(opsLeft) \subseteq ToSet(InstallOps[Head(toInstall)])
       /\ current # None => current = Head(opsLeft)

\* Whose operations the two lists hold: the session only adds those of its own
\* plan, of which there are none yet in the other list, in the order of the phases,
\* and nothing that it still has to handle is among them.
ListsInStep ==
  /\ RecordedOnce
  /\ phase \in Working => \A p \in ToSet(old) : ComponentOf[p] \notin ToSet(toInstall)
  /\ phase \in {"prepared", "backup", "unpack"} => ToSet(session) \subseteq {TargetDirOp}
  /\ phase = "collect" =>
       ToSet(session) \subseteq {TargetDirOp} \cup (UnpackOpsOf(ToSet(toInstall)) \ uncollected)
  /\ phase = "install" => \A op \in ToSet(session) :
       \/ op = TargetDirOp \/ op \in UnpackOpsOf(ToSet(toInstall))
       \/ ComponentOf[op] \notin ToSet(toInstall)
       \/ op \in ToSet(InstallOps[Head(toInstall)]) \ ToSet(opsLeft)

\* Which of these components components.xml has, in a product where a component is
\* installed once: those of the committed operations, and of the session's those
\* that are done with.
HubInStep ==
  /\ phase \in Working => ToSet(toInstall) \cap hub = {}
  /\ \A p \in ToSet(old) : ComponentOf[p] \in hub \cup {None}
  /\ \A op \in ToSet(session), p \in ToSet(old) :
       ComponentOf[op] # None => ComponentOf[p] # ComponentOf[op]
  /\ phase \in Working \cup {"installed"} => \A op \in ToSet(session) :
       ComponentOf[op] \in ToSet(toInstall) \cup hub \cup {None}

\* No step moves the plan apart from the pool or the operations left.
LEMMA PlanStep ==
  TransactionInv /\ PlanInStep /\ [TransactionNext]_transactionVars => PlanInStep'
<1> SUFFICES ASSUME TransactionInv, PlanInStep, [TransactionNext]_transactionVars
             PROVE  PlanInStep'
  OBVIOUS
<1>t. /\ TransactionTypeOK /\ Control /\ PoolInStep /\ Runner!RunnerTypeOK
      /\ toInstall \in Seq(Components) /\ opsLeft \in Seq(Operations \ UnpackOps)
  BY DEF TransactionInv, TransactionTypeOK
<1>e. IsInjective(<<>>) /\ ToSet(<<>>) = {}
  BY DEF IsInjective, ToSet
<1> USE DEF PlanInStep
<1>1. ASSUME NEW plan \in Plans, BeginInstaller(plan) \/ BeginUpdater(plan)
      PROVE  PlanInStep'
  BY <1>1, <1>t, ProductAssumption
  DEF BeginInstaller, BeginUpdater, Begin, Control
<1>2. ASSUME NEW s \in {"Running", "Canceled"}, PrepareFails(s) PROVE PlanInStep'
  BY <1>2 DEF PrepareFails, Throw, workVars
<1>3. ASSUME Runner!Run(UnpackOpsOf(ToSet(toInstall))), phase' \in {"backup", "unpack"},
             phase \in {"prepared", "backup"}, UNCHANGED workVars
      PROVE  PlanInStep'
  BY <1>3 DEF Runner!Run, workVars, UnpackOpsOf
<1>4. ASSUME StartBackup PROVE PlanInStep'
  BY <1>3, <1>4 DEF StartBackup
<1>5. ASSUME NEW op \in UnpackOps, PoolStep(op) PROVE PlanInStep'
  <2>1. \A o \in UnpackOps : task'[o] # "none" <=> task[o] # "none"
    BY <1>5, <1>t DEF PoolStep, Runner!StartTask, Runner!SkipTask, Runner!EndTask,
                      Runner!HandleFinished, Runner!RunnerTypeOK
  <2> QED
    BY <1>5, <2>1 DEF PoolStep, flowVars, workVars
<1>6. ASSUME NEW op \in UnpackOps, NEW ok \in BOOLEAN, UnpackOperation(op, ok)
      PROVE  PlanInStep'
  <2>1. \A o \in UnpackOps : task'[o] # "none" <=> task[o] # "none"
    BY <1>6, <1>t DEF UnpackOperation, Runner!EndTask, Runner!RunnerTypeOK
  <2> QED
    BY <1>6, <2>1 DEF UnpackOperation, flowVars, workVars
<1>7. ASSUME NEW refused \in BOOLEAN, BackupDone(refused) PROVE PlanInStep'
  <2>1. CASE Throw(status)
    BY <1>7, <2>1 DEF BackupDone, Throw, workVars
  <2>2. CASE Runner!Run(UnpackOpsOf(ToSet(toInstall))) /\ phase' = "unpack"
    BY <1>3, <1>7, <2>2 DEF BackupDone
  <2> QED
    BY <1>7, <2>1, <2>2 DEF BackupDone
<1>8. ASSUME UnpackDone PROVE PlanInStep'
  <2>1. \A op \in uncollected' : op \in UnpackOps /\ task[op] = "ended"
    BY <1>8, <1>t DEF UnpackDone, PoolInStep
  <2> QED
    BY <1>8, <2>1 DEF UnpackDone, UnpackOpsOf
<1>9. ASSUME NEW op \in UnpackOps, TakeResult(op) PROVE PlanInStep'
  BY <1>9 DEF TakeResult, workVars
<1>10. ASSUME NEW cs \in Seq(Components), InstallNext(cs), IsInjective(cs),
              current' = None, uncollected' = {}
       PROVE  PlanInStep'
  <2>1. CASE cs = <<>>
    BY <1>10, <1>e, <2>1 DEF InstallNext
  <2>2. CASE cs # <<>>
    <3>1. Head(cs) \in Components
      BY <2>2, HeadTailInSeq
    <3> QED
      BY <1>10, <2>2, <3>1, ProductAssumption DEF InstallNext
  <2> QED
    BY <2>1, <2>2
<1>11. ASSUME CollectDone PROVE PlanInStep'
  <2>1. CASE unpackError
    BY <1>11, <2>1 DEF CollectDone, Throw
  <2>2. CASE ~unpackError
    <3>1. current = None
      BY <1>11, <1>t DEF CollectDone, Control
    <3> QED
      BY <1>10, <1>11, <1>t, <2>2, <3>1 DEF CollectDone
  <2> QED
    BY <2>1, <2>2
<1>12. ASSUME CheckOperation PROVE PlanInStep'
  BY <1>12 DEF CheckOperation, Throw, workVars
<1>13. ASSUME ElevationRefused PROVE PlanInStep'
  BY <1>13 DEF ElevationRefused, Throw, workVars
<1>14. ASSUME BackupReturns PROVE PlanInStep'
  BY <1>14 DEF BackupReturns, workVars
<1>15. ASSUME ComponentInstalled PROVE PlanInStep'
  <2>1. /\ toInstall # <<>> /\ current = None /\ uncollected = {}
        /\ InstallNext(Tail(toInstall)) /\ UNCHANGED <<current, uncollected>>
        /\ phase = "install"
    BY <1>15, <1>t DEF ComponentInstalled, Control
  <2>2. /\ Tail(toInstall) \in Seq(Components) /\ IsInjective(Tail(toInstall))
    BY <1>t, <2>1, HeadTailInSeq, ToSetHeadTail
  <2> QED
    BY <1>10, <2>1, <2>2
<1>16. ASSUME NEW ok \in BOOLEAN, PerformReturns(ok) PROVE PlanInStep'
  BY <1>16 DEF PerformReturns, workVars
<1>17. ASSUME NEW ok \in BOOLEAN, NEW ignored \in BOOLEAN,
              step \in {"succeeded", "failed"},
              Collected(ok, ignored) \/ Handled(ok, ignored)
       PROVE  PlanInStep'
  <2>1. CASE Collected(ok, ignored)
    BY <1>17, <2>1 DEF Collected
  <2>2. CASE Handled(ok, ignored) /\ phase' = "rollback"
    BY <1>17, <2>2 DEF Handled
  <2>3. CASE Handled(ok, ignored) /\ phase' # "rollback"
    <3>1. /\ opsLeft # <<>> /\ opsLeft' = Tail(opsLeft) /\ current' = None
          /\ UNCHANGED <<toInstall, uncollected>> /\ phase = "install" /\ phase' = "install"
      BY <1>17, <1>t, <2>3 DEF Handled, Control, Throw
    <3>2. IsInjective(opsLeft') /\ ToSet(opsLeft') \subseteq ToSet(opsLeft)
      BY <1>t, <3>1, ToSetHeadTail
    <3> QED
      BY <3>1, <3>2
  <2> QED
    BY <1>17, <2>1, <2>2, <2>3
<1>18. ASSUME Finish \/ AnswerIgnore PROVE PlanInStep'
  BY <1>17, <1>18 DEF Finish, AnswerIgnore
<1>19. ASSUME AnswerRetry \/ AnswerCancel PROVE PlanInStep'
  BY <1>19, <1>t DEF AnswerRetry, AnswerCancel, workVars, Control
<1>20. ASSUME Interrupt PROVE PlanInStep'
  BY <1>20 DEF Interrupt, Runner!Cancel, workVars
<1>21. ASSUME (\E ok \in BOOLEAN : UndoLast(ok)) \/ SkipLast PROVE PlanInStep'
  BY <1>21 DEF UndoLast, SkipLast, flowVars, workVars
<1>22. ASSUME RollbackDone \/ Commit PROVE PlanInStep'
  BY <1>22, <1>e DEF RollbackDone, Commit, LocalsGone
<1>23. ASSUME AbortEnds PROVE PlanInStep'
  BY <1>23 DEF AbortEnds, workVars
<1>24. CASE UNCHANGED transactionVars
  BY <1>24 DEF transactionVars, flowVars, workVars, poolVars
<1> HIDE DEF PlanInStep
<1> QED
  BY <1>1, <1>2, <1>4, <1>5, <1>6, <1>7, <1>8, <1>9, <1>11, <1>12, <1>13, <1>14, <1>15,
     <1>16, <1>18, <1>19, <1>20, <1>21, <1>22, <1>23, <1>24
  DEF TransactionNext, BeginSome, TransactionStep, UnpackStep, MainThreadUnpackStep,
      InstallStep, OperationLoop, RollbackStep

\* The operations of the Install group are those of their component.
LEMMA InstallOpsOwned ==
  ASSUME NEW c \in Components, NEW op \in ToSet(InstallOps[c])
  PROVE  op \in Operations \ UnpackOps /\ ComponentOf[op] = c /\ op # TargetDirOp
<1>1. InstallOps[c] \in Seq(Operations \ UnpackOps)
  BY TransactionAssumption
<1>2. op \in Operations \ UnpackOps
  BY <1>1, ElementOfSeq, LenProperties DEF ToSet
<1> QED
  BY <1>2, ProductAssumption, TransactionAssumption

\* addPerformed() of an operation that is on neither list.
LEMMA RecordsOnce ==
  ASSUME TransactionTypeOK, RecordedOnce, NEW op \in Operations, NEW ok \in BOOLEAN,
         op \notin Recorded, Record(op, ok), old' = old
  PROVE  RecordedOnce' /\ ToSet(session') \subseteq ToSet(session) \cup {op}
<1>1. CASE NeedsUndo(op, ok)
  <2>1. session' = Append(session, op) /\ old \in Seq(Operations) /\ session \in Seq(Operations)
    BY <1>1 DEF Record, TransactionTypeOK
  <2>2. IsInjective(old \o session)
    BY DEF RecordedOnce, IsInjective
  <2>3. IsInjective(old \o session')
    BY <2>1, <2>2, InjectiveConcatAppend DEF Recorded
  <2>4. RecordedOnce'
    BY <2>3 DEF RecordedOnce, IsInjective
  <2> QED
    BY <2>1, <2>4, ToSetAppend
<1>2. CASE ~NeedsUndo(op, ok)
  BY <1>2 DEF Record, RecordedOnce
<1> QED
  BY <1>1, <1>2

\* The operation that is being handled is one of the plan, and not yet recorded.
LEMMA CurrentOfPlan ==
  ASSUME TransactionTypeOK, Control, PlanInStep, phase \in {"collect", "install"},
         step \in {"perform", "succeeded", "failed"}
  PROVE  /\ current \in Operations /\ ComponentOf[current] \in ToSet(toInstall)
         /\ ListsInStep => current \notin ToSet(session)
<1>t. /\ toInstall \in Seq(Components) /\ opsLeft \in Seq(Operations \ UnpackOps)
      /\ uncollected \in SUBSET UnpackOps /\ current \in Operations \cup {None}
  BY DEF TransactionTypeOK
<1>a. /\ None \notin Operations /\ TargetDirOp \in Operations \ UnpackOps
      /\ UnpackOps \subseteq Operations
  BY TransactionAssumption
<1>1. CASE phase = "collect"
  <2>1. current \in uncollected
    BY <1>1, <1>t DEF Control
  <2>2. current \in UnpackOpsOf(ToSet(toInstall)) /\ current # TargetDirOp
    BY <1>a, <1>t, <2>1 DEF PlanInStep
  <2> QED
    BY <1>1, <1>a, <2>1, <2>2 DEF ListsInStep, UnpackOpsOf
<1>2. CASE phase = "install"
  <2>1. toInstall # <<>> /\ opsLeft # <<>> /\ current \in Operations
    BY <1>2, <1>t DEF Control
  <2>2. /\ Head(toInstall) \in Components /\ Head(toInstall) \in ToSet(toInstall)
        /\ current = Head(opsLeft) /\ current \in ToSet(opsLeft)
    BY <1>2, <1>a, <1>t, <2>1, HeadTailInSeq, ToSetHeadTail DEF PlanInStep
  <2>3. current \in ToSet(InstallOps[Head(toInstall)])
    BY <1>2, <2>2 DEF PlanInStep
  <2>4. ComponentOf[current] = Head(toInstall) /\ current # TargetDirOp /\ current \notin UnpackOps
    BY <2>2, <2>3, InstallOpsOwned
  <2> QED
    BY <1>2, <2>1, <2>2, <2>3, <2>4 DEF ListsInStep, UnpackOpsOf
<1> QED
  BY <1>1, <1>2

\* Every step keeps the two lists disjoint and within what the plan allows.
LEMMA ListsStep ==
  ASSUME TransactionInv, PlanInStep, ListsInStep, phase = "ready" => HubInStep,
         [TransactionNext]_transactionVars
  PROVE  ListsInStep'
<1>t. /\ TransactionTypeOK /\ Control
      /\ toInstall \in Seq(Components) /\ opsLeft \in Seq(Operations \ UnpackOps)
      /\ old \in Seq(Operations) /\ session \in Seq(Operations)
      /\ hub \in SUBSET Components /\ uncollected \in SUBSET UnpackOps
      /\ current \in Operations \cup {None}
  BY DEF TransactionInv, TransactionTypeOK
<1>a. /\ None \notin Components /\ TargetDirOp \in Operations \ UnpackOps
      /\ ComponentOf[TargetDirOp] = None /\ UnpackOps \subseteq Operations
  BY TransactionAssumption
<1>e. ToSet(<<>>) = {}
  BY DEF ToSet
<1>q. ASSUME UNCHANGED <<old, session>>,
             \/ phase' = phase /\ UNCHANGED <<toInstall, opsLeft, uncollected>>
             \/ phase' \in {"rollback", "rolledBack"}
      PROVE  ListsInStep'
  BY <1>q DEF ListsInStep, RecordedOnce, Working
<1>1. ASSUME NEW plan \in Plans, BeginInstaller(plan) PROVE ListsInStep'
  <2>1. /\ old = <<>> /\ old' = <<>> /\ session = <<>> /\ session' = Append(session, TargetDirOp)
        /\ phase' = "prepared"
    BY <1>1 DEF BeginInstaller, Begin, PlanInStep
  <2>2. IsInjective(old \o session)
    BY DEF ListsInStep, RecordedOnce, IsInjective
  <2>3. IsInjective(old \o session')
    BY <1>a, <1>e, <1>t, <2>1, <2>2, InjectiveConcatAppend
  <2>4. RecordedOnce'
    BY <2>1, <2>3 DEF RecordedOnce, IsInjective
  <2>5. ToSet(session') = {TargetDirOp} /\ ToSet(old') = {}
    <3>1. ToSet(Append(session, TargetDirOp)) = ToSet(session) \cup {TargetDirOp}
      BY <1>a, <1>t, ToSetAppend
    <3>2. ToSet(session) = {} /\ ToSet(old') = {}
      BY <1>e, <2>1
    <3> QED
      BY <2>1, <3>1, <3>2, Zenon
  <2> QED
    BY <2>1, <2>4, <2>5 DEF ListsInStep
<1>2. ASSUME NEW plan \in Plans, ToSet(plan) \cap hub = {}, BeginUpdater(plan)
      PROVE  ListsInStep'
  <2>1. /\ phase = "ready" /\ phase' = "prepared" /\ session = <<>> /\ toInstall' = plan
        /\ UNCHANGED <<old, session>>
    BY <1>2 DEF BeginUpdater, Begin, PlanInStep
  <2>2. \A c \in ToSet(plan) : c \in Components
    BY ElementOfSeq, LenProperties, TransactionAssumption DEF ToSet
  <2>3. \A p \in ToSet(old) : ComponentOf[p] \notin ToSet(plan)
    BY <1>2, <1>a, <2>1, <2>2 DEF HubInStep
  <2> QED
    BY <1>e, <2>1, <2>3 DEF ListsInStep, RecordedOnce
<1>3. ASSUME \E s \in {"Running", "Canceled"} : PrepareFails(s) PROVE ListsInStep'
  BY <1>3, <1>q DEF PrepareFails, Throw
<1>4. ASSUME StartBackup PROVE ListsInStep'
  BY <1>4 DEF StartBackup, ListsInStep, RecordedOnce, workVars, Working
<1>5. ASSUME NEW op \in UnpackOps, PoolStep(op) \/ \E ok \in BOOLEAN : UnpackOperation(op, ok)
      PROVE  ListsInStep'
  BY <1>5, <1>q DEF PoolStep, UnpackOperation, flowVars, workVars
<1>6. ASSUME NEW refused \in BOOLEAN, BackupDone(refused) PROVE ListsInStep'
  BY <1>6 DEF BackupDone, Throw, ListsInStep, RecordedOnce, workVars, Working
<1>7. ASSUME UnpackDone PROVE ListsInStep'
  BY <1>7 DEF UnpackDone, ListsInStep, RecordedOnce, Working
<1>8. ASSUME NEW op \in UnpackOps, TakeResult(op) PROVE ListsInStep'
  BY <1>8, <1>q DEF TakeResult, workVars
<1>9. ASSUME NEW cs \in Seq(Components), InstallNext(cs), UNCHANGED <<old, session>>,
             phase \in Working, ToSet(cs) \subseteq ToSet(toInstall),
             \A op \in ToSet(session) : \/ op = TargetDirOp \/ op \in UnpackOpsOf(ToSet(cs))
                                       \/ ComponentOf[op] \notin ToSet(cs)
      PROVE  ListsInStep'
  <2>1. CASE cs = <<>>
    BY <1>9, <1>e, <2>1 DEF InstallNext, ListsInStep, RecordedOnce, UnpackOpsOf, Working
  <2>2. CASE cs # <<>>
    BY <1>9, <2>2 DEF InstallNext, ListsInStep, RecordedOnce, Working
  <2> QED
    BY <2>1, <2>2
<1>10. ASSUME CollectDone PROVE ListsInStep'
  <2>1. CASE unpackError
    BY <1>10, <1>q, <2>1 DEF CollectDone, Throw
  <2>2. CASE ~unpackError
    <3>1. InstallNext(toInstall) /\ UNCHANGED <<old, session>> /\ phase = "collect"
      BY <1>10, <2>2 DEF CollectDone
    <3>2. ToSet(session) \subseteq {TargetDirOp} \cup UnpackOpsOf(ToSet(toInstall))
      BY <3>1 DEF ListsInStep
    <3> QED
      BY <1>9, <1>t, <3>1, <3>2 DEF Working
  <2> QED
    BY <2>1, <2>2
<1>11. ASSUME CheckOperation \/ ElevationRefused \/ BackupReturns PROVE ListsInStep'
  BY <1>11, <1>q DEF CheckOperation, ElevationRefused, BackupReturns, Throw, workVars
<1>12. ASSUME ComponentInstalled PROVE ListsInStep'
  <2>1. /\ phase = "install" /\ toInstall # <<>> /\ UNCHANGED <<old, session>>
        /\ InstallNext(Tail(toInstall))
    BY <1>12, <1>t DEF ComponentInstalled, Control
  <2>2. /\ Tail(toInstall) \in Seq(Components) /\ Head(toInstall) \in Components
        /\ ToSet(toInstall) = {Head(toInstall)} \cup ToSet(Tail(toInstall))
        /\ Head(toInstall) \notin ToSet(Tail(toInstall))
    BY <1>t, <2>1, HeadTailInSeq, ToSetHeadTail DEF PlanInStep
  <2>3. ASSUME NEW op \in ToSet(session)
        PROVE  \/ op = TargetDirOp \/ op \in UnpackOpsOf(ToSet(Tail(toInstall)))
               \/ ComponentOf[op] \notin ToSet(Tail(toInstall))
    <3>1. CASE op \in UnpackOpsOf(ToSet(toInstall))
      BY <2>1, <2>2, <3>1 DEF UnpackOpsOf
    <3>2. CASE op \in ToSet(InstallOps[Head(toInstall)])
      BY <2>1, <2>2, <3>2, InstallOpsOwned
    <3> QED
      BY <2>1, <2>2, <2>3, <3>1, <3>2 DEF ListsInStep
  <2> QED
    BY <1>9, <2>1, <2>2, <2>3 DEF Working
<1>13. ASSUME NEW ok \in BOOLEAN, PerformReturns(ok) PROVE ListsInStep'
  BY <1>13, <1>q DEF PerformReturns, workVars
<1>14. ASSUME NEW ok \in BOOLEAN, NEW ignored \in BOOLEAN,
              step \in {"succeeded", "failed"}, old' = old,
              Collected(ok, ignored) \/ Handled(ok, ignored)
       PROVE  ListsInStep'
  <2>1. /\ Record(current, ok) /\ old' = old /\ toInstall' = toInstall
        /\ phase \in {"collect", "install"}
    BY <1>14 DEF Collected, Handled
  <2>2. /\ ComponentOf[current] \in ToSet(toInstall) /\ current \in Operations
        /\ current \notin ToSet(session)
    BY <1>14, <1>t, <2>1, CurrentOfPlan
  <2>4. \A p \in ToSet(old) : ComponentOf[p] # ComponentOf[current]
    BY <2>1, <2>2 DEF ListsInStep, Working
  <2>5. RecordedOnce' /\ ToSet(session') \subseteq ToSet(session) \cup {current}
    <3>1. current \notin Recorded
      BY <2>2, <2>4 DEF Recorded
    <3> QED
      BY <1>t, <2>1, <2>2, <3>1, RecordsOnce DEF ListsInStep
  <2>6. \A p \in ToSet(old') : ComponentOf[p] \notin ToSet(toInstall')
    BY <2>1 DEF ListsInStep, Working
  <2>7. CASE Collected(ok, ignored)
    <3>1. phase = "collect" /\ phase' = "collect" /\ uncollected' = uncollected \ {current}
      BY <2>7 DEF Collected
    <3>2. current \in uncollected
      BY <1>14, <1>t, <3>1 DEF Control
    <3> QED
      BY <2>1, <2>5, <2>6, <3>1, <3>2 DEF ListsInStep, PlanInStep
  <2>8. CASE Handled(ok, ignored)
    <3>1. phase = "install" /\ (phase' = "rollback" \/ (phase' = "install" /\ opsLeft' = Tail(opsLeft)))
      BY <2>8 DEF Handled, Throw
    <3>2. /\ toInstall # <<>> /\ opsLeft # <<>> /\ current = Head(opsLeft)
      BY <1>14, <1>t, <3>1, TransactionAssumption DEF Control, PlanInStep
    <3>3. /\ ToSet(opsLeft) = {current} \cup ToSet(Tail(opsLeft)) /\ current \notin ToSet(Tail(opsLeft))
          /\ ToSet(opsLeft) \subseteq ToSet(InstallOps[Head(toInstall)])
      BY <1>t, <3>1, <3>2, ToSetHeadTail DEF PlanInStep
    <3> QED
      BY <2>1, <2>5, <2>6, <3>1, <3>3 DEF ListsInStep
  <2> QED
    BY <1>14, <2>7, <2>8
<1>15. ASSUME Finish \/ AnswerIgnore PROVE ListsInStep'
  BY <1>14, <1>15 DEF Finish, AnswerIgnore
<1>16. ASSUME AnswerRetry \/ AnswerCancel \/ Interrupt PROVE ListsInStep'
  BY <1>16, <1>q DEF AnswerRetry, AnswerCancel, Interrupt, workVars
<1>17. ASSUME (\E ok \in BOOLEAN : UndoLast(ok)) \/ SkipLast PROVE ListsInStep'
  <2>1. /\ session # <<>> /\ session' = Front(session) /\ old' = old /\ phase' = "rollback"
    BY <1>17 DEF UndoLast, SkipLast, flowVars
  <2>3. IsInjective(old \o session)
    BY DEF ListsInStep, RecordedOnce, IsInjective
  <2>4. IsInjective(old' \o session')
    BY <1>t, <2>1, <2>3, InjectiveConcatFront
  <2>5. RecordedOnce'
    BY <2>4 DEF RecordedOnce, IsInjective
  <2> QED
    BY <2>1, <2>5 DEF ListsInStep, Working
<1>18. ASSUME RollbackDone PROVE ListsInStep'
  BY <1>18, <1>q DEF RollbackDone
<1>19. ASSUME Commit PROVE ListsInStep'
  <2>1. /\ phase = "installed" /\ phase' = "ready" /\ old' = old \o session /\ session' = <<>>
    BY <1>19 DEF Commit
  <2>2. old' \in Seq(Operations)
    BY <1>t, <2>1, ConcatProperties
  <2>3. old' \o session' = old \o session
    BY <2>1, <2>2, ConcatEmptySeq
  <2>4. RecordedOnce'
    BY <2>3 DEF ListsInStep, RecordedOnce
  <2> QED
    BY <2>1, <2>4 DEF ListsInStep, Working
<1>20. ASSUME AbortEnds PROVE ListsInStep'
  BY <1>20 DEF AbortEnds, ListsInStep, RecordedOnce, workVars, Working
<1>21. CASE UNCHANGED transactionVars
  BY <1>21, <1>q DEF transactionVars, flowVars, workVars
<1> QED
  BY <1>1, <1>2, <1>3, <1>4, <1>5, <1>6, <1>7, <1>8, <1>10, <1>11, <1>12, <1>13, <1>15,
     <1>16, <1>17, <1>18, <1>19, <1>20, <1>21
  DEF TransactionNext, BeginSome, TransactionStep, UnpackStep, MainThreadUnpackStep,
      InstallStep, OperationLoop, RollbackStep

\* addPerformed() of an operation of the plan: what is on the list of the session is
\* still of the plan, or done with, and not of a component of the other list.
LEMMA RecordKeepsHub ==
  ASSUME TransactionTypeOK, HubInStep, phase \in Working, NEW op \in Operations,
         ComponentOf[op] \in ToSet(toInstall), ToSet(session') \subseteq ToSet(session) \cup {op},
         UNCHANGED <<old, hub, toInstall>>
  PROVE  HubInStep'
<1>1. ToSet(toInstall) \subseteq Components /\ None \notin Components
  BY TransactionAssumption, ElementOfSeq, LenProperties DEF ToSet, TransactionTypeOK
<1>2. \A p \in ToSet(old) : ComponentOf[p] # ComponentOf[op]
  BY <1>1 DEF HubInStep
<1> QED
  BY <1>2 DEF HubInStep

\* Where a component is installed once, no step moves the lists apart from the hub.
LEMMA HubStep ==
  ASSUME TransactionInv, PlanInStep, ListsInStep, HubInStep, [TransactionNext]_transactionVars
  PROVE  HubInStep'
<1>t. /\ TransactionTypeOK /\ Control
      /\ toInstall \in Seq(Components) /\ opsLeft \in Seq(Operations \ UnpackOps)
      /\ old \in Seq(Operations) /\ session \in Seq(Operations)
      /\ current \in Operations \cup {None} /\ uncollected \in SUBSET UnpackOps
  BY DEF TransactionInv, TransactionTypeOK
<1>a. /\ None \notin Components /\ TargetDirOp \in Operations \ UnpackOps
      /\ ComponentOf[TargetDirOp] = None /\ UnpackOps \subseteq Operations
  BY TransactionAssumption
<1>e. ToSet(<<>>) = {}
  BY DEF ToSet
<1>q. ASSUME UNCHANGED <<old, session, hub>>,
             \/ phase' = phase /\ UNCHANGED toInstall
             \/ phase \in Working /\ phase' \in Working /\ UNCHANGED toInstall
             \/ phase' \in {"rollback", "rolledBack", "ready"}
      PROVE  HubInStep'
  BY <1>q DEF HubInStep, Working
<1>1. ASSUME NEW plan \in Plans, ToSet(plan) \cap hub = {},
             BeginInstaller(plan) \/ BeginUpdater(plan)
      PROVE  HubInStep'
  <2>1. /\ phase' = "prepared" /\ toInstall' = plan /\ session = <<>> /\ UNCHANGED <<old, hub>>
    BY <1>1 DEF BeginInstaller, BeginUpdater, Begin, PlanInStep, hubVars
  <2>2. ToSet(session') \subseteq {TargetDirOp}
    <3>1. ToSet(Append(session, TargetDirOp)) = ToSet(session) \cup {TargetDirOp}
      BY <1>a, <1>t, ToSetAppend
    <3> QED
      BY <1>1, <1>e, <2>1, <3>1 DEF BeginInstaller, BeginUpdater
  <2> QED
    BY <1>1, <1>a, <2>1, <2>2 DEF HubInStep
<1>2. ASSUME (\E s \in {"Running", "Canceled"} : PrepareFails(s)) \/ StartBackup \/ UnpackDone
      PROVE  HubInStep'
  BY <1>2, <1>q DEF PrepareFails, Throw, StartBackup, UnpackDone, hubVars, workVars, Working
<1>3. ASSUME NEW op \in UnpackOps, PoolStep(op) \/ \E ok \in BOOLEAN : UnpackOperation(op, ok)
      PROVE  HubInStep'
  BY <1>3, <1>q DEF PoolStep, UnpackOperation, flowVars, workVars, hubVars
<1>4. ASSUME NEW refused \in BOOLEAN, BackupDone(refused) PROVE HubInStep'
  BY <1>4, <1>q DEF BackupDone, Throw, hubVars, workVars, Working
<1>5. ASSUME NEW op \in UnpackOps, TakeResult(op) PROVE HubInStep'
  BY <1>5, <1>q DEF TakeResult, workVars, hubVars
<1>6. ASSUME NEW cs, InstallNext(cs), phase \in Working, UNCHANGED <<old, session>>,
             ToSet(cs) \cap hub' = {}, hub \subseteq hub',
             ToSet(toInstall) \subseteq ToSet(cs) \cup hub'
      PROVE  HubInStep'
  <2>1. toInstall' = cs /\ phase' \in {"install", "installed"}
    BY <1>6 DEF InstallNext
  <2> QED
    BY <1>6, <2>1 DEF HubInStep
<1>7. ASSUME CollectDone PROVE HubInStep'
  <2>1. CASE unpackError
    BY <1>7, <1>q, <2>1 DEF CollectDone, Throw, hubVars
  <2>2. CASE ~unpackError
    <3>1. InstallNext(toInstall) /\ UNCHANGED <<old, session, hub>> /\ phase \in Working
      BY <1>7, <2>2 DEF CollectDone, hubVars, Working
    <3> QED
      BY <1>6, <3>1 DEF HubInStep
  <2> QED
    BY <2>1, <2>2
<1>8. ASSUME CheckOperation \/ ElevationRefused \/ BackupReturns PROVE HubInStep'
  BY <1>8, <1>q DEF CheckOperation, ElevationRefused, BackupReturns, Throw, workVars, hubVars
<1>9. ASSUME ComponentInstalled PROVE HubInStep'
  <2>1. /\ phase \in Working /\ toInstall # <<>> /\ UNCHANGED <<old, session>>
        /\ hub' = hub \cup {Head(toInstall)} /\ InstallNext(Tail(toInstall))
    BY <1>9, <1>t DEF ComponentInstalled, Control, Working
  <2>2. /\ ToSet(toInstall) = {Head(toInstall)} \cup ToSet(Tail(toInstall))
        /\ Head(toInstall) \notin ToSet(Tail(toInstall))
    BY <1>t, <2>1, ToSetHeadTail DEF PlanInStep
  <2> QED
    BY <1>6, <2>1, <2>2 DEF HubInStep
<1>10. ASSUME NEW ok \in BOOLEAN, PerformReturns(ok) PROVE HubInStep'
  BY <1>10, <1>q DEF PerformReturns, workVars, hubVars
<1>11. ASSUME NEW ok \in BOOLEAN, NEW ignored \in BOOLEAN, step \in {"succeeded", "failed"},
              UNCHANGED <<old, hubVars>>, Collected(ok, ignored) \/ Handled(ok, ignored)
       PROVE  HubInStep'
  <2>1. /\ Record(current, ok) /\ phase \in Working /\ UNCHANGED <<old, hub, toInstall>>
    BY <1>11 DEF Collected, Handled, hubVars, Working
  <2>2. current \in Operations /\ ComponentOf[current] \in ToSet(toInstall)
    BY <1>11, <1>t, CurrentOfPlan DEF Collected, Handled
  <2>3. ToSet(session') \subseteq ToSet(session) \cup {current}
    BY <1>t, <2>1, <2>2, ToSetAppend DEF Record
  <2> QED
    BY <1>t, <2>1, <2>2, <2>3, RecordKeepsHub
<1>12. ASSUME Finish \/ AnswerIgnore PROVE HubInStep'
  BY <1>11, <1>12 DEF Finish, AnswerIgnore
<1>13. ASSUME AnswerRetry \/ AnswerCancel \/ Interrupt PROVE HubInStep'
  BY <1>13, <1>q DEF AnswerRetry, AnswerCancel, Interrupt, workVars, hubVars
<1>14. ASSUME (\E ok \in BOOLEAN : UndoLast(ok)) \/ SkipLast PROVE HubInStep'
  <2>1. /\ session # <<>> /\ session' = Front(session) /\ old' = old /\ phase' = "rollback"
        /\ hub' = hub \ {ComponentOf[Last(session)]} \/ hub' = hub
    BY <1>14 DEF UndoLast, SkipLast, flowVars, hubVars
  <2>2. ToSet(session) = ToSet(session') \cup {Last(session)}
    BY <1>t, <2>1, FrontLastProperties
  <2>3. \A p \in ToSet(old') : ComponentOf[p] \in hub' \cup {None}
    BY <2>1, <2>2 DEF HubInStep
  <2> QED
    BY <2>1, <2>2, <2>3 DEF HubInStep, Working
<1>15. ASSUME RollbackDone \/ AbortEnds PROVE HubInStep'
  BY <1>15, <1>q DEF RollbackDone, AbortEnds, hubVars
<1>16. ASSUME Commit PROVE HubInStep'
  <2>1. /\ phase = "installed" /\ phase' = "ready" /\ old' = old \o session /\ session' = <<>>
        /\ hub' = hub /\ toInstall = <<>>
    BY <1>16 DEF Commit, hubVars, PlanInStep
  <2>2. ToSet(old') = ToSet(old) \cup ToSet(session) /\ ToSet(session') = {}
    BY <1>e, <1>t, <2>1, ToSetConcat
  <2>3. \A op \in ToSet(session) : ComponentOf[op] \in hub \cup {None}
    BY <1>e, <2>1 DEF HubInStep
  <2> QED
    BY <2>1, <2>2, <2>3 DEF HubInStep, Working
<1>17. CASE UNCHANGED transactionVars
  BY <1>17, <1>q DEF transactionVars, flowVars, workVars, hubVars
<1> QED
  BY <1>1, <1>2, <1>3, <1>4, <1>5, <1>7, <1>8, <1>9, <1>10, <1>12, <1>13, <1>14, <1>15,
     <1>16, <1>17
  DEF TransactionNext, BeginSome, TransactionStep, UnpackStep, MainThreadUnpackStep,
      InstallStep, OperationLoop, RollbackStep

-----------------------------------------------------------------------------
(* A failure shows in the error of the operation                           *)

\* Who is asked about a failure finds a reason for it, and only bad arguments are
\* reported as such.
ErrorsShown ==
  /\ \A op \in Operations : error[op] = "InvalidArguments" => op \in BadArguments
  /\ phase = "unpack" => \A op \in UnpackOps :
       task[op] = "ended" /\ ~value[op] /\ op \notin canceled => error[op] # "NoError"
  /\ phase = "collect" /\ status # "Canceled" => \A op \in uncollected \ {current} :
       results[op] # "true" => error[op] # "NoError"
  /\ step = "failed" /\ status # "Canceled" => error[current] # "NoError"

\* A new attempt sets the error when it fails, and leaves it when it succeeds.
LEMMA ErrorOfPerform ==
  ASSUME TransactionTypeOK, ErrorsShown, NEW op \in Operations, NEW ok \in BOOLEAN,
         Performed(op, ok)
  PROVE  /\ \A o \in Operations \ {op} : error'[o] = error[o]
         /\ ~ok => error'[op] # "NoError"
         /\ \A o \in Operations : error'[o] = "InvalidArguments" => o \in BadArguments
<1>1. error \in [Operations -> {"NoError", "InvalidArguments", "UserDefinedError"}]
  BY DEF TransactionTypeOK
<1> QED
  BY <1>1 DEF Performed, ErrorsShown

\* Every step keeps that.
LEMMA ErrorsStep ==
  TransactionInv /\ ErrorsShown /\ [TransactionNext]_transactionVars => ErrorsShown'
<1> SUFFICES ASSUME TransactionInv, ErrorsShown, [TransactionNext]_transactionVars
             PROVE  ErrorsShown'
  OBVIOUS
<1>t. TransactionTypeOK /\ Control /\ PoolInStep /\ Runner!RunnerTypeOK
  BY DEF TransactionInv, TransactionTypeOK
<1>b. UnpackOps \subseteq Operations /\ None \notin Operations
  BY TransactionAssumption
<1>1. ASSUME NEW plan \in Plans, BeginInstaller(plan) \/ BeginUpdater(plan)
      PROVE  ErrorsShown'
  <2>1. /\ phase' = "prepared" /\ step' = "none"
        /\ error' = [op \in Operations |->
                        IF ComponentOf[op] \in ToSet(plan) THEN "NoError" ELSE error[op]]
    BY <1>1, <1>t DEF BeginInstaller, BeginUpdater, Begin, Control
  <2> QED
    BY <2>1 DEF ErrorsShown
<1>2. ASSUME error' = error, step' = "none", phase' \notin {"unpack", "collect"}
      PROVE  ErrorsShown'
  BY <1>2 DEF ErrorsShown
<1>3. ASSUME \/ StartBackup \/ RollbackDone \/ Commit \/ AbortEnds
             \/ \E s \in {"Running", "Canceled"} : PrepareFails(s)
             \/ SkipLast \/ \E ok \in BOOLEAN : UndoLast(ok)
      PROVE  ErrorsShown'
  BY <1>2, <1>3, <1>t
  DEF StartBackup, RollbackDone, Commit, AbortEnds, PrepareFails, SkipLast, UndoLast, Throw,
      LocalsGone, Control, machineVars, flowVars
<1>4. ASSUME NEW op \in UnpackOps, PoolStep(op) PROVE ErrorsShown'
  <2>1. /\ phase' = phase /\ phase \in {"backup", "unpack"} /\ step' = "none" /\ error' = error
    BY <1>4, <1>t DEF PoolStep, Control, flowVars, machineVars
  <2>2. phase = "unpack" => /\ value' = value /\ canceled' = canceled
                            /\ \A o \in UnpackOps :
                                 task'[o] = "ended" => task[o] = "ended" \/ o \in canceled
    BY <1>4, <1>t DEF PoolStep, Runner!StartTask, Runner!SkipTask, Runner!EndTask,
                      Runner!HandleFinished, Runner!RunnerTypeOK
  <2> QED
    BY <2>1, <2>2 DEF ErrorsShown
<1>5. ASSUME NEW op \in UnpackOps, NEW ok \in BOOLEAN, UnpackOperation(op, ok)
      PROVE  ErrorsShown'
  <2>1. /\ phase' = "unpack" /\ phase = "unpack" /\ step' = "none" /\ Performed(op, ok)
        /\ task' = [task EXCEPT ![op] = "ended"] /\ value' = [value EXCEPT ![op] = ok]
        /\ UNCHANGED canceled
    BY <1>5, <1>t DEF UnpackOperation, Runner!EndTask, Control, flowVars
  <2>2. /\ \A o \in Operations \ {op} : error'[o] = error[o]
        /\ ~ok => error'[op] # "NoError"
        /\ \A o \in Operations : error'[o] = "InvalidArguments" => o \in BadArguments
    BY <1>b, <1>t, <2>1, ErrorOfPerform
  <2>3. /\ task \in [UnpackOps -> {"none", "queued", "running", "ended"}]
        /\ value \in [UnpackOps -> BOOLEAN]
    BY <1>t DEF Runner!RunnerTypeOK, Runner!TaskState
  <2>4. \A o \in UnpackOps :
          task'[o] = "ended" /\ ~value'[o] /\ o \notin canceled' => error'[o] # "NoError"
    <3> TAKE o \in UnpackOps
    <3>1. CASE o = op
      BY <2>1, <2>2, <2>3, <3>1
    <3>2. CASE o # op
      BY <1>b, <2>1, <2>2, <2>3, <3>2 DEF ErrorsShown
    <3> QED
      BY <3>1, <3>2
  <2> QED
    BY <2>1, <2>2, <2>4 DEF ErrorsShown
<1>6. ASSUME NEW refused \in BOOLEAN, BackupDone(refused) PROVE ErrorsShown'
  <2>1. /\ step' = "none" /\ error' = error /\ phase' \in {"rollback", "unpack"}
    BY <1>6, <1>t DEF BackupDone, Throw, Control, machineVars
  <2>2. phase' = "unpack" => \A op \in UnpackOps : task'[op] # "ended"
    BY <1>6 DEF BackupDone, Throw, Runner!Run
  <2> QED
    BY <2>1, <2>2 DEF ErrorsShown
<1>7. ASSUME UnpackDone PROVE ErrorsShown'
  <2>1. /\ phase = "unpack" /\ phase' = "collect" /\ step' = "none"
        /\ uncollected' = {op \in UnpackOps : results[op] # "none"}
        /\ UNCHANGED <<error, current, status, results>>
    BY <1>7, <1>t DEF UnpackDone, Control, poolVars, machineVars
  <2>2. ASSUME status # "Canceled", NEW op \in uncollected', results[op] # "true"
        PROVE  error[op] # "NoError"
    <3>1. results[op] = "false" /\ op \in UnpackOps /\ task[op] = "ended"
      BY <1>t, <2>1, <2>2 DEF Runner!RunnerTypeOK, PoolInStep
    <3>2. ~value[op] /\ op \notin canceled
      BY <1>t, <2>2, <3>1 DEF PoolInStep
    <3> QED
      BY <2>1, <3>1, <3>2 DEF ErrorsShown
  <2> QED
    BY <2>1, <2>2 DEF ErrorsShown
<1>8. ASSUME NEW op \in UnpackOps, TakeResult(op) PROVE ErrorsShown'
  <2>1. /\ phase = "collect" /\ phase' = "collect" /\ current = None /\ op \in uncollected
        /\ current' = op /\ step' = (IF results[op] = "true" THEN "succeeded" ELSE "failed")
        /\ UNCHANGED <<error, uncollected, status, results>>
    BY <1>8 DEF TakeResult, workVars, poolVars, machineVars
  <2>2. None \notin uncollected
    BY <1>b, <1>t DEF TransactionTypeOK
  <2> QED
    BY <2>1, <2>2 DEF ErrorsShown
<1>9. ASSUME CollectDone \/ InstallStep PROVE ErrorsShown'
  <2>1. /\ error' = error /\ step' # "failed" /\ phase' \in {"install", "installed", "rollback"}
    BY <1>9 DEF CollectDone, InstallStep, CheckOperation, ElevationRefused, BackupReturns,
                ComponentInstalled, InstallNext, Throw, machineVars
  <2> QED
    BY <2>1 DEF ErrorsShown
<1>10. ASSUME NEW ok \in BOOLEAN, PerformReturns(ok) PROVE ErrorsShown'
  <2>1. /\ phase \in {"collect", "install"} /\ step = "perform" /\ Performed(current, ok)
        /\ step' = (IF ok THEN "succeeded" ELSE "failed")
        /\ UNCHANGED <<phase, current, uncollected, status, results>>
    BY <1>10 DEF PerformReturns, workVars, poolVars
  <2>2. current \in Operations /\ uncollected \subseteq Operations
    BY <1>b, <1>t, <2>1 DEF Control, TransactionTypeOK
  <2>3. /\ \A o \in Operations \ {current} : error'[o] = error[o]
        /\ ~ok => error'[current] # "NoError"
        /\ \A o \in Operations : error'[o] = "InvalidArguments" => o \in BadArguments
    BY <1>t, <2>1, <2>2, ErrorOfPerform
  <2> QED
    BY <2>1, <2>2, <2>3 DEF ErrorsShown
<1>11. ASSUME NEW ok \in BOOLEAN, NEW ignored \in BOOLEAN, UNCHANGED <<error, results>>,
              Collected(ok, ignored) \/ Handled(ok, ignored)
       PROVE  ErrorsShown'
  <2>1. /\ error' = error /\ step' # "failed" /\ phase' # "unpack"
        /\ phase' = "collect" => /\ phase = "collect" /\ status' = status
                                 /\ uncollected' = uncollected \ {current} /\ results' = results
    BY <1>11 DEF Collected, Handled, Throw
  <2> QED
    BY <2>1 DEF ErrorsShown
<1>12. ASSUME Finish \/ AnswerIgnore PROVE ErrorsShown'
  BY <1>11, <1>12 DEF Finish, AnswerIgnore, poolVars
<1>13. ASSUME AnswerRetry \/ AnswerCancel \/ Interrupt PROVE ErrorsShown'
  <2>1. /\ UNCHANGED <<error, phase, current, uncollected, results, task, value>>
        /\ canceled \subseteq canceled'
        /\ status' = "Canceled" \/ (step' # "failed" /\ status' = status)
    BY <1>13 DEF AnswerRetry, AnswerCancel, Interrupt, Runner!Cancel, workVars, poolVars,
                 machineVars
  <2> QED
    BY <2>1 DEF ErrorsShown
<1>14. CASE UNCHANGED transactionVars
  BY <1>14 DEF transactionVars, flowVars, workVars, poolVars, machineVars, ErrorsShown
<1> QED
  BY <1>1, <1>3, <1>4, <1>5, <1>6, <1>7, <1>8, <1>9, <1>10, <1>12, <1>13, <1>14
  DEF TransactionNext, BeginSome, TransactionStep, UnpackStep, MainThreadUnpackStep,
      OperationLoop, RollbackStep

-----------------------------------------------------------------------------
(* What stands in components.xml has been run                              *)

\* The operation is recorded for its removal or given up after an undo was tried,
\* or it was refused its arguments and the user chose to go on without it.
Settled(op) == op \in Recorded \cup lost \/ error[op] = "InvalidArguments"

\* As far as the session has come without a cancel, its operations are settled:
\* those of the pool when unpackComponents() has handled them, those of the first
\* component of the rest of the plan up to the one that is at hand. A cancel that
\* came during the unpacking leaves operations out; it is seen before the next
\* operation is begun (step "check").
InstallationAccounted ==
  /\ InstalledMeansRun
  /\ phase = "collect" /\ status # "Canceled" =>
       \A op \in UnpackOpsOf(ToSet(toInstall)) \ uncollected : Settled(op)
  /\ phase = "install" /\ (status # "Canceled" \/ step # "check" \/ opsLeft = <<>>) =>
       \A op \in UnpackOpsOf(ToSet(toInstall)) : Settled(op)
  /\ phase = "install" =>
       \A op \in ToSet(InstallOps[Head(toInstall)]) \ ToSet(opsLeft) : Settled(op)

\* Recording an operation, or not, unsettles none, and settles it if it succeeded
\* or has failed with an error.
LEMMA RecordSettles ==
  ASSUME TransactionTypeOK, NEW op \in Operations, NEW ok \in BOOLEAN, Record(op, ok),
         UNCHANGED <<old, error>>
  PROVE  /\ \A o \in Operations : Settled(o) => Settled(o)'
         /\ ok \/ error[op] # "NoError" => Settled(op)'
<1>1. error \in [Operations -> {"NoError", "InvalidArguments", "UserDefinedError"}]
  BY DEF TransactionTypeOK
<1>2. CASE NeedsUndo(op, ok)
  <2>1. ToSet(session') = ToSet(session) \cup {op} /\ lost' = lost \ {op}
    BY <1>2, ToSetAppend DEF Record, TransactionTypeOK
  <2> QED
    BY <2>1 DEF Settled, Recorded
<1>3. CASE ~NeedsUndo(op, ok)
  BY <1>1, <1>3 DEF Record, Recorded, NeedsUndo, Settled
<1> QED
  BY <1>2, <1>3

\* No step enters a component with an operation that was not run.
LEMMA AccountedStep ==
  TransactionInv /\ PlanInStep /\ ListsInStep /\ HubInStep /\ ErrorsShown
    /\ InstallationAccounted /\ [TransactionNext]_transactionVars => InstallationAccounted'
<1> SUFFICES ASSUME TransactionInv, PlanInStep, ListsInStep, HubInStep, ErrorsShown,
                    InstallationAccounted, [TransactionNext]_transactionVars
             PROVE  InstallationAccounted'
  OBVIOUS
<1>t. /\ TransactionTypeOK /\ Control /\ PoolInStep /\ Runner!RunnerTypeOK
      /\ toInstall \in Seq(Components) /\ opsLeft \in Seq(Operations \ UnpackOps)
      /\ session \in Seq(Operations) /\ hub \in SUBSET Components
      /\ uncollected \in SUBSET UnpackOps /\ current \in Operations \cup {None}
  BY DEF TransactionInv, TransactionTypeOK
<1>a. UnpackOps \subseteq Operations /\ None \notin Operations /\ None \notin Components
  BY TransactionAssumption
<1>o. ASSUME phase = "install"
      PROVE  Head(toInstall) \in Components /\ Head(toInstall) \in ToSet(toInstall)
             /\ \A op \in ToSet(InstallOps[Head(toInstall)]) : op \in Operations \ UnpackOps
  <2>1. toInstall # <<>>
    BY <1>o, <1>t DEF Control
  <2>2. Head(toInstall) \in Components /\ Head(toInstall) \in ToSet(toInstall)
    BY <1>t, <2>1, HeadTailInSeq, ToSetHeadTail
  <2> QED
    BY <2>2, InstallOpsOwned
<1>q. ASSUME UNCHANGED <<old, session, lost, error, hub>>,
             \/ phase' \notin {"collect", "install"}
             \/ /\ phase' = phase /\ UNCHANGED <<toInstall, uncollected, opsLeft>>
                /\ phase = "collect" => (status' # "Canceled" => status # "Canceled")
                /\ phase = "install" /\ status = "Canceled" /\ step = "check" =>
                     status' = "Canceled" /\ step' = "check"
      PROVE  InstallationAccounted'
  BY <1>q DEF InstallationAccounted, InstalledMeansRun, Settled, Recorded
<1>1. ASSUME NEW plan \in Plans, ToSet(plan) \cap hub = {},
             BeginInstaller(plan) \/ BeginUpdater(plan)
      PROVE  InstallationAccounted'
  <2>1. /\ phase' = "prepared" /\ hub' = hub
        /\ error' = [op \in Operations |->
                        IF ComponentOf[op] \in ToSet(plan) THEN "NoError" ELSE error[op]]
    BY <1>1 DEF BeginInstaller, BeginUpdater, Begin, hubVars
  <2>2. hub = {} \/ UNCHANGED <<old, session, lost>>
    BY <1>1 DEF BeginInstaller, BeginUpdater, Begin
  <2> QED
    BY <1>1, <2>1, <2>2 DEF InstallationAccounted, InstalledMeansRun, Recorded
<1>2. ASSUME \E s \in {"Running", "Canceled"} : PrepareFails(s) PROVE InstallationAccounted'
  BY <1>2, <1>q DEF PrepareFails, Throw, machineVars, hubVars
<1>3. ASSUME StartBackup \/ \E refused \in BOOLEAN : BackupDone(refused)
      PROVE  InstallationAccounted'
  BY <1>3, <1>q DEF StartBackup, BackupDone, Throw, machineVars, hubVars
<1>4. ASSUME NEW op \in UnpackOps, PoolStep(op) PROVE InstallationAccounted'
  BY <1>4, <1>q DEF PoolStep, flowVars, machineVars, hubVars
<1>5. ASSUME NEW op \in UnpackOps, NEW ok \in BOOLEAN, UnpackOperation(op, ok)
      PROVE  InstallationAccounted'
  <2>1. /\ phase = "unpack" /\ phase' = "unpack" /\ Performed(op, ok) /\ task[op] = "running"
        /\ UNCHANGED <<old, session, lost, hub>>
    BY <1>5 DEF UnpackOperation, Runner!EndTask, flowVars, hubVars
  <2>2. ComponentOf[op] \notin hub
    BY <2>1 DEF PlanInStep, HubInStep, Working
  <2>3. \A o \in Operations \ {op} : error'[o] = error[o]
    BY <1>a, <1>t, <2>1, ErrorOfPerform
  <2> QED
    BY <2>1, <2>2, <2>3 DEF InstallationAccounted, InstalledMeansRun, Recorded
<1>6. ASSUME UnpackDone PROVE InstallationAccounted'
  <2>1. /\ phase = "unpack" /\ phase' = "collect" /\ ~looping
        /\ uncollected' = {op \in UnpackOps : results[op] # "none"}
        /\ UNCHANGED <<toInstall, old, session, lost, error, hub>>
    BY <1>6 DEF UnpackDone, machineVars, hubVars
  <2>2. \A op \in UnpackOpsOf(ToSet(toInstall)) : op \in uncollected'
    BY <1>t, <2>1 DEF PoolInStep, Runner!WatchedUntilOver, PlanInStep, UnpackOpsOf
  <2> QED
    BY <2>1, <2>2 DEF InstallationAccounted, InstalledMeansRun, Recorded
<1>7. ASSUME NEW op \in UnpackOps, TakeResult(op) PROVE InstallationAccounted'
  BY <1>7, <1>q DEF TakeResult, workVars, machineVars, hubVars
<1>8. ASSUME NEW cs \in Seq(Components), InstallNext(cs), InstalledMeansRun',
             UNCHANGED <<old, session, lost, error, status>>,
             status # "Canceled" => \A op \in UnpackOpsOf(ToSet(cs)) : Settled(op)
      PROVE  InstallationAccounted'
  <2>1. CASE cs = <<>>
    BY <1>8, <2>1 DEF InstallNext, InstallationAccounted
  <2>2. CASE cs # <<>>
    <3>1. /\ phase' = "install" /\ toInstall' = cs /\ opsLeft' = InstallOps[Head(cs)]
          /\ step' = "check"
      BY <1>8, <2>2 DEF InstallNext
    <3>2. Head(cs) \in Components
      BY <2>2, HeadTailInSeq
    <3>3. InstallOps[Head(cs)] # <<>>
      BY <3>2, ProductAssumption DEF ToSet
    <3> QED
      BY <1>8, <3>1, <3>3 DEF InstallationAccounted, Settled, Recorded
  <2> QED
    BY <2>1, <2>2
<1>9. ASSUME CollectDone PROVE InstallationAccounted'
  <2>1. CASE unpackError
    BY <1>9, <1>q, <2>1 DEF CollectDone, Throw, machineVars, hubVars
  <2>2. CASE ~unpackError
    <3>1. /\ InstallNext(toInstall) /\ UNCHANGED <<old, session, lost, error, status, hub>>
          /\ phase = "collect" /\ uncollected = {}
      BY <1>9, <2>2 DEF CollectDone, machineVars, hubVars
    <3>2. InstalledMeansRun'
      BY <3>1 DEF InstallationAccounted, InstalledMeansRun, Recorded
    <3> QED
      BY <1>8, <1>t, <3>1, <3>2 DEF InstallationAccounted
  <2> QED
    BY <2>1, <2>2
<1>10. ASSUME CheckOperation \/ ElevationRefused \/ BackupReturns PROVE InstallationAccounted'
  <2>1. UNCHANGED <<old, session, lost, error, hub, toInstall, uncollected, opsLeft>>
    BY <1>10 DEF CheckOperation, ElevationRefused, BackupReturns, workVars, machineVars, hubVars
  <2>2. \/ phase' = "rollback"
        \/ phase = "install" /\ phase' = "install" /\ (status # "Canceled" \/ step # "check")
    BY <1>10 DEF CheckOperation, ElevationRefused, BackupReturns, Throw, statusCanceledOrFailed
  <2> QED
    BY <1>q, <2>1, <2>2
<1>11. ASSUME ComponentInstalled PROVE InstallationAccounted'
  <2>1. /\ phase = "install" /\ opsLeft = <<>> /\ toInstall # <<>>
        /\ hub' = hub \cup {Head(toInstall)} /\ InstallNext(Tail(toInstall))
        /\ UNCHANGED <<old, session, lost, error, status>>
    BY <1>11, <1>t DEF ComponentInstalled, Control, machineVars
  <2>2. /\ Tail(toInstall) \in Seq(Components)
        /\ ToSet(toInstall) = {Head(toInstall)} \cup ToSet(Tail(toInstall))
    BY <1>t, <2>1, HeadTailInSeq, ToSetHeadTail
  <2>3. \A op \in UnpackOpsOf(ToSet(toInstall)) : Settled(op)
    BY <2>1 DEF InstallationAccounted
  <2>4. ASSUME NEW op \in Operations, ComponentOf[op] = Head(toInstall) PROVE Settled(op)
    <3>1. CASE op \in UnpackOps
      BY <2>2, <2>3, <2>4, <3>1 DEF UnpackOpsOf
    <3>2. CASE op \notin UnpackOps
      <4>1. op \in ToSet(InstallOps[Head(toInstall)])
        BY <1>o, <2>1, <2>4, <3>2, ProductAssumption
      <4>2. op \notin ToSet(opsLeft)
        BY <2>1 DEF ToSet
      <4> QED
        BY <2>1, <4>1, <4>2 DEF InstallationAccounted
    <3> QED
      BY <3>1, <3>2
  <2>5. InstalledMeansRun'
    BY <2>1, <2>4 DEF InstallationAccounted, InstalledMeansRun, Settled, Recorded
  <2>6. \A op \in UnpackOpsOf(ToSet(Tail(toInstall))) : Settled(op)
    BY <2>2, <2>3 DEF UnpackOpsOf
  <2> QED
    BY <1>8, <2>1, <2>2, <2>5, <2>6
<1>c. ASSUME phase \in {"collect", "install"}, step \in {"perform", "succeeded", "failed"}
      PROVE  /\ current \in Operations /\ ComponentOf[current] \in ToSet(toInstall)
             /\ phase = "collect" => current \in uncollected
             /\ phase = "install" => current = Head(opsLeft) /\ opsLeft # <<>>
                                     /\ current \in ToSet(opsLeft) /\ current \notin UnpackOps
  <2>1. CASE phase = "collect"
    BY <1>c, <1>a, <1>t, <2>1 DEF Control, PlanInStep, UnpackOpsOf
  <2>2. CASE phase = "install"
    <3>1. current \in Operations /\ opsLeft # <<>> /\ current = Head(opsLeft)
      BY <1>a, <1>c, <1>t, <2>2 DEF Control, PlanInStep
    <3>2. current \in ToSet(opsLeft)
      BY <1>t, <3>1, ToSetHeadTail
    <3>3. current \in ToSet(InstallOps[Head(toInstall)])
      BY <2>2, <3>2 DEF PlanInStep
    <3> QED
      BY <1>o, <2>2, <3>1, <3>2, <3>3, InstallOpsOwned
  <2> QED
    BY <1>c, <2>1, <2>2
<1>12. ASSUME NEW ok \in BOOLEAN, PerformReturns(ok) PROVE InstallationAccounted'
  <2>1. /\ phase \in {"collect", "install"} /\ step = "perform" /\ Performed(current, ok)
        /\ UNCHANGED <<phase, status, current, toInstall, uncollected, opsLeft, old, session,
                      lost, hub>>
    BY <1>12 DEF PerformReturns, workVars, hubVars
  <2>2. \A o \in Operations \ {current} : error'[o] = error[o]
    BY <1>c, <1>t, <2>1, ErrorOfPerform
  <2>3. \A o \in Operations \ {current} : Settled(o) => Settled(o)'
    BY <2>1, <2>2 DEF Settled, Recorded
  <2>4. ComponentOf[current] \notin hub
    BY <1>c, <2>1 DEF HubInStep, Working
  <2>5. InstalledMeansRun'
    BY <2>1, <2>3, <2>4 DEF InstallationAccounted, InstalledMeansRun, Settled
  <2>6. CASE phase = "collect"
    BY <1>a, <1>c, <2>1, <2>3, <2>5, <2>6 DEF InstallationAccounted, UnpackOpsOf
  <2>7. CASE phase = "install"
    <3>1. \A op \in UnpackOpsOf(ToSet(toInstall)) : Settled(op)'
      BY <1>a, <1>c, <2>1, <2>3, <2>7 DEF InstallationAccounted, UnpackOpsOf
    <3>2. \A op \in ToSet(InstallOps[Head(toInstall)]) \ ToSet(opsLeft) : Settled(op)'
      BY <1>c, <1>o, <2>1, <2>3, <2>7 DEF InstallationAccounted
    <3> QED
      BY <2>1, <2>5, <2>7, <3>1, <3>2 DEF InstallationAccounted
  <2> QED
    BY <2>1, <2>6, <2>7
<1>13. ASSUME NEW ok \in BOOLEAN, NEW ignored \in BOOLEAN, step \in {"succeeded", "failed"},
              ignored => step = "failed" /\ status # "Canceled",
              ok \/ ignored \/ status = "Canceled",
              Collected(ok, ignored) \/ Handled(ok, ignored),
              UNCHANGED <<old, error, hubVars>>
       PROVE  InstallationAccounted'
  <2>1. /\ Record(current, ok) /\ UNCHANGED <<old, error, hub, toInstall>>
        /\ phase \in {"collect", "install"}
    BY <1>13 DEF Collected, Handled, hubVars
  <2>2. \A o \in Operations : Settled(o) => Settled(o)'
    BY <1>c, <1>13, <1>t, <2>1, RecordSettles
  <2>3. ok \/ ignored => \A o \in Operations : o = current => Settled(o)'
    <3>1. ignored => error[current] # "NoError"
      BY <1>13 DEF ErrorsShown
    <3> QED
      BY <1>c, <1>13, <1>t, <2>1, <3>1, RecordSettles
  <2>4. InstalledMeansRun'
    BY <2>1, <2>2 DEF InstallationAccounted, InstalledMeansRun, Settled
  <2>5. CASE Collected(ok, ignored)
    <3>1. phase = "collect" /\ phase' = "collect" /\ uncollected' = uncollected \ {current}
          /\ status' = status
      BY <2>5 DEF Collected
    <3> QED
      BY <1>a, <1>13, <2>1, <2>2, <2>3, <2>4, <3>1 DEF InstallationAccounted, UnpackOpsOf
  <2>6. CASE Handled(ok, ignored) /\ phase' = "rollback"
    BY <2>4, <2>6 DEF InstallationAccounted
  <2>7. CASE Handled(ok, ignored) /\ phase' # "rollback"
    <3>1. phase = "install" /\ phase' = "install" /\ opsLeft' = Tail(opsLeft) /\ (ok \/ ignored)
      BY <2>7 DEF Handled, Throw
    <3>2. ToSet(opsLeft) = {current} \cup ToSet(opsLeft')
      BY <1>13, <1>c, <1>t, <2>1, <3>1, ToSetHeadTail
    <3>3. \A op \in UnpackOpsOf(ToSet(toInstall)) : Settled(op)'
      BY <1>a, <1>13, <2>2, <3>1 DEF InstallationAccounted, UnpackOpsOf
    <3>4. \A op \in ToSet(InstallOps[Head(toInstall)]) \ ToSet(opsLeft') : Settled(op)'
      BY <1>o, <2>2, <2>3, <3>1, <3>2 DEF InstallationAccounted
    <3> QED
      BY <2>1, <2>4, <3>1, <3>3, <3>4 DEF InstallationAccounted
  <2> QED
    BY <1>13, <2>5, <2>6, <2>7
<1>14. ASSUME Finish \/ AnswerIgnore PROVE InstallationAccounted'
  BY <1>13, <1>14 DEF Finish, AnswerIgnore
<1>15. ASSUME AnswerRetry \/ AnswerCancel \/ Interrupt PROVE InstallationAccounted'
  <2>1. /\ UNCHANGED <<old, session, lost, error, hub, phase, toInstall, uncollected, opsLeft>>
        /\ status' = status \/ status' = "Canceled"
        /\ phase = "install" => step # "check"
    BY <1>15 DEF AnswerRetry, AnswerCancel, Interrupt, workVars, machineVars, hubVars
  <2> QED
    BY <1>q, <2>1
<1>16. ASSUME (\E ok \in BOOLEAN : UndoLast(ok)) \/ SkipLast PROVE InstallationAccounted'
  <2>1. /\ session # <<>> /\ session' = Front(session) /\ UNCHANGED <<old, error>>
        /\ phase' = "rollback"
        /\ \/ hub' = hub \ {ComponentOf[Last(session)]} /\ lost \ {Last(session)} \subseteq lost'
           \/ hub' = hub /\ lost' = lost \cup {Last(session)}
    BY <1>16 DEF UndoLast, SkipLast, flowVars, hubVars
  <2>2. ToSet(session) = ToSet(session') \cup {Last(session)}
    BY <1>t, <2>1, FrontLastProperties
  <2> QED
    BY <2>1, <2>2 DEF InstallationAccounted, InstalledMeansRun, Recorded
<1>17. ASSUME RollbackDone \/ AbortEnds PROVE InstallationAccounted'
  BY <1>17, <1>q DEF RollbackDone, AbortEnds, machineVars, hubVars
<1>18. ASSUME Commit PROVE InstallationAccounted'
  <2>1. /\ phase' = "ready" /\ old' = old \o session /\ UNCHANGED <<lost, error, hub>>
    BY <1>18 DEF Commit, machineVars, hubVars
  <2>2. ToSet(old') = Recorded
    BY <1>t, <2>1, ToSetConcat DEF Recorded, TransactionTypeOK
  <2> QED
    BY <2>1, <2>2 DEF InstallationAccounted, InstalledMeansRun, Recorded
<1>19. CASE UNCHANGED transactionVars
  BY <1>19, <1>q DEF transactionVars, flowVars, workVars, machineVars, hubVars
<1> QED
  BY <1>1, <1>2, <1>3, <1>4, <1>5, <1>6, <1>7, <1>9, <1>10, <1>11, <1>12, <1>14, <1>15,
     <1>16, <1>17, <1>18, <1>19
  DEF TransactionNext, BeginSome, TransactionStep, UnpackStep, MainThreadUnpackStep,
      InstallStep, OperationLoop, RollbackStep

-----------------------------------------------------------------------------
(* The order of the session's list                                         *)

\* What was unpacked is recorded before anything that was installed on top of it.
UnpackedFirst ==
  \A i, j \in DOMAIN session :
    i < j /\ session[j] \in UnpackOps => session[i] \in UnpackOps \cup {TargetDirOp}

\* An operation that is added keeps this order if it is not of the Unpack group,
\* or if nothing was installed yet.
LEMMA AppendKeepsOrder ==
  ASSUME session \in Seq(Operations), UnpackedFirst, NEW op \in Operations,
         session' = Append(session, op),
         op \notin UnpackOps \/ ToSet(session) \subseteq UnpackOps \cup {TargetDirOp}
  PROVE  UnpackedFirst'
<1>1. /\ Len(session) \in Nat /\ DOMAIN session = 1 .. Len(session)
      /\ DOMAIN session' = 1 .. Len(session) + 1
      /\ \A i \in 1 .. Len(session) : session'[i] = session[i]
      /\ session'[Len(session) + 1] = op
  BY AppendProperties, LenProperties
<1> SUFFICES ASSUME NEW i \in 1 .. Len(session) + 1, NEW j \in 1 .. Len(session) + 1, i < j,
                    session'[j] \in UnpackOps
             PROVE  session'[i] \in UnpackOps \cup {TargetDirOp}
  BY <1>1 DEF UnpackedFirst
<1>2. i \in 1 .. Len(session) /\ session'[i] = session[i] /\ session[i] \in ToSet(session)
  <2>1. i \in 1 .. Len(session)
    BY <1>1
  <2> QED
    BY <1>1, <2>1 DEF ToSet
<1>3. CASE j \in 1 .. Len(session)
  BY <1>1, <1>2, <1>3 DEF UnpackedFirst
<1>4. CASE j = Len(session) + 1
  BY <1>1, <1>2, <1>4
<1>5. j \in 1 .. Len(session) \/ j = Len(session) + 1
  BY <1>1
<1> QED
  BY <1>3, <1>4, <1>5

\* The phases of the session keep it, and so does an undo from the end.
LEMMA UnpackedFirstStep ==
  TransactionInv /\ PlanInStep /\ ListsInStep /\ UnpackedFirst
    /\ [TransactionNext]_transactionVars => UnpackedFirst'
<1> SUFFICES ASSUME TransactionInv, PlanInStep, ListsInStep, UnpackedFirst,
                    [TransactionNext]_transactionVars
             PROVE  UnpackedFirst'
  OBVIOUS
<1>t. /\ session \in Seq(Operations) /\ Control /\ opsLeft \in Seq(Operations \ UnpackOps)
      /\ TargetDirOp \in Operations \ UnpackOps /\ None \notin Operations
      /\ UnpackOps \subseteq Operations /\ uncollected \in SUBSET UnpackOps
  BY TransactionAssumption DEF TransactionInv, TransactionTypeOK
<1>1. CASE UNCHANGED session
  BY <1>1 DEF UnpackedFirst
<1>2. ASSUME NEW plan \in Plans, BeginInstaller(plan) PROVE UnpackedFirst'
  BY <1>2, <1>t, AppendKeepsOrder DEF BeginInstaller
<1>3. ASSUME NEW ok \in BOOLEAN, NEW ignored \in BOOLEAN, step \in {"succeeded", "failed"},
             Collected(ok, ignored) \/ Handled(ok, ignored)
      PROVE  UnpackedFirst'
  <2>1. session' = session \/ session' = Append(session, current)
    BY <1>3 DEF Collected, Handled, Record
  <2>2. CASE Collected(ok, ignored)
    <3>1. phase = "collect" /\ current \in Operations
      BY <1>3, <1>t, <2>2 DEF Collected, Control
    <3>2. ToSet(session) \subseteq UnpackOps \cup {TargetDirOp}
      BY <3>1 DEF ListsInStep, UnpackOpsOf
    <3> QED
      BY <1>1, <1>t, <2>1, <3>1, <3>2, AppendKeepsOrder
  <2>3. CASE Handled(ok, ignored)
    <3>1. current = Head(opsLeft) /\ opsLeft # <<>>
      BY <1>3, <1>t, <2>3 DEF Handled, Control, PlanInStep
    <3>2. current \in Operations \ UnpackOps
      BY <1>t, <3>1, HeadTailInSeq
    <3> QED
      BY <1>1, <1>t, <2>1, <3>2, AppendKeepsOrder
  <2> QED
    BY <1>3, <2>2, <2>3
<1>4. CASE Finish \/ AnswerIgnore
  BY <1>3, <1>4 DEF Finish, AnswerIgnore
<1>5. CASE (\E ok \in BOOLEAN : UndoLast(ok)) \/ SkipLast
  <2>1. session # <<>> /\ session' = Front(session)
    BY <1>5 DEF UndoLast, SkipLast
  <2>2. /\ session' \in Seq(Operations) /\ Len(session') = Len(session) - 1
        /\ \A i \in 1 .. Len(session) - 1 : session'[i] = session[i]
    BY <1>t, <2>1, FrontElements
  <2>3. DOMAIN session' = 1 .. Len(session) - 1 /\ DOMAIN session = 1 .. Len(session)
        /\ Len(session) \in Nat
    BY <1>t, <2>2, LenProperties
  <2> QED
    BY <2>2, <2>3 DEF UnpackedFirst
<1>6. CASE Commit
  <2>1. session' = <<>>
    BY <1>6 DEF Commit
  <2> QED
    BY <2>1 DEF UnpackedFirst
<1> QED
  BY <1>1, <1>2, <1>4, <1>5, <1>6
  DEF TransactionNext, BeginSome, TransactionStep, UnpackStep, MainThreadUnpackStep,
      InstallStep, OperationLoop, RollbackStep, BeginUpdater, PrepareFails, StartBackup,
      PoolStep, UnpackOperation, BackupDone, UnpackDone, TakeResult, CollectDone,
      CheckOperation, ElevationRefused, BackupReturns, ComponentInstalled, PerformReturns,
      AnswerRetry, AnswerCancel, Interrupt, RollbackDone, AbortEnds, transactionVars

-----------------------------------------------------------------------------
(* Theorems about the records                                              *)

RecordsInv ==
  /\ PlanInStep /\ ListsInStep /\ HubInStep /\ ErrorsShown /\ InstallationAccounted
  /\ UnpackedFirst

\* Before the first session both lists and the hub are empty.
LEMMA RecordsInit == TransactionInit => RecordsInv
<1> SUFFICES ASSUME TransactionInit PROVE RecordsInv
  OBVIOUS
<1>1. /\ phase = "ready" /\ step = "none" /\ old = <<>> /\ session = <<>> /\ toInstall = <<>>
      /\ uncollected = {} /\ hub = {} /\ error = [op \in Operations |-> "NoError"]
  BY DEF TransactionInit
<1>2. ToSet(<<>>) = {} /\ IsInjective(<<>>) /\ <<>> \o <<>> = <<>>
  BY DEF ToSet, IsInjective
<1>3. None \notin Components /\ ComponentOf \in [Operations -> Components \cup {None}]
  BY TransactionAssumption
<1>4. PlanInStep
  BY <1>1, <1>2 DEF PlanInStep
<1>5. ListsInStep /\ HubInStep
  BY <1>1, <1>2 DEF ListsInStep, HubInStep, RecordedOnce, Working
<1>6. ErrorsShown /\ InstallationAccounted /\ UnpackedFirst
  BY <1>1 DEF ErrorsShown, InstallationAccounted, InstalledMeansRun, UnpackedFirst
<1> QED
  BY <1>4, <1>5, <1>6 DEF RecordsInv

\* The invariant about the records, on top of TransactionInv.
LEMMA RecordsInvariant == TransactionSpec => []RecordsInv
<1>1. TransactionInv /\ RecordsInv /\ [TransactionNext]_transactionVars => RecordsInv'
  BY PlanStep, ListsStep, HubStep, ErrorsStep, AccountedStep, UnpackedFirstStep
  DEF RecordsInv
<1> QED
  BY <1>1, RecordsInit, TransactionInvariant, PTL DEF TransactionSpec

\* The lists of performed operations, the errors and components.xml agree: no
\* operation is recorded twice, a component in components.xml has had all its
\* operations run, and what a rolled back session leaves there has an operation
\* that an earlier session committed or whose undo was tried in vain.
THEOREM RecordsAlwaysAgree == TransactionSpec => []RecordsAgree
<1>1. TransactionInv /\ RecordsInv => RecordsAgree
  <2> SUFFICES ASSUME TransactionInv, RecordsInv PROVE RecordsAgree
    OBVIOUS
  <2>1. RecordedOnce /\ InstalledMeansRun
    BY DEF RecordsInv, ListsInStep, InstallationAccounted
  <2>2. ASSUME phase = "rolledBack", NEW c \in hub
        PROVE  \E op \in ToSet(old) \cup lost : ComponentOf[op] = c
    <3>1. c \in Components
      BY DEF TransactionInv, TransactionTypeOK
    <3>2. PICK op \in ToSet(InstallOps[c]) : op \notin BadArguments
      BY <3>1, ProductAssumption
    <3>3. op \in Operations /\ ComponentOf[op] = c
      BY <3>1, InstallOpsOwned
    <3>4. error[op] # "InvalidArguments"
      BY <3>2, <3>3 DEF RecordsInv, ErrorsShown
    <3>5. op \in Recorded \cup lost
      BY <2>1, <3>3, <3>4 DEF InstalledMeansRun
    <3>6. ToSet(session) = {}
      BY <2>2 DEF RecordsInv, PlanInStep, ToSet
    <3> QED
      BY <3>3, <3>5, <3>6 DEF Recorded
  <2>3. RolledBackIsGone
    BY <2>2 DEF RolledBackIsGone, RecordsInv, PlanInStep
  <2> QED
    BY <2>1, <2>3 DEF RecordsAgree
<1> QED
  BY <1>1, RecordsInvariant, TransactionInvariant, PTL

\* Rollback takes an archive away only when every operation that was installed on
\* top of it is undone, committed by an earlier session or given up.
THEOREM UndoneFromTheTop == TransactionSpec => InstallUndoneBeforeUnpack
<1> DEFINE FromTheTop ==
      \A op \in UnpackOps :
        effect[op] # "none" /\ effect'[op] = "none" =>
          \A c \in Components : \A p \in ToSet(InstallOps[c]) :
            effect[p] # "none" => p \in ToSet(old) \cup lost
<1>1. TransactionInv /\ RecordsInv /\ [TransactionNext]_transactionVars
        => [FromTheTop]_transactionVars
  <2> SUFFICES ASSUME TransactionInv, RecordsInv, TransactionNext,
                      NEW op \in UnpackOps, effect[op] # "none", effect'[op] = "none",
                      NEW c \in Components, NEW p \in ToSet(InstallOps[c]), effect[p] # "none"
               PROVE  p \in ToSet(old) \cup lost
    OBVIOUS
  <2>t. /\ effect \in [Operations -> {"none", "partial", "done"}] /\ Control
        /\ session \in Seq(Operations) /\ op \in Operations /\ op # TargetDirOp
    BY TransactionAssumption DEF TransactionInv, TransactionTypeOK
  <2>1. PICK ok \in BOOLEAN : UndoLast(ok) /\ effect' # effect
    <3>1. ASSUME NEW o, NEW ok \in BOOLEAN, Performed(o, ok) PROVE FALSE
      BY <2>t, <3>1 DEF Performed
    <3>2. ASSUME NEW plan \in Plans, BeginInstaller(plan) PROVE FALSE
      BY <2>t, <3>2 DEF BeginInstaller
    <3>3. effect' # effect
      OBVIOUS
    <3> QED
      BY <3>1, <3>2, <3>3
      DEF TransactionNext, BeginSome, TransactionStep, UnpackStep, MainThreadUnpackStep,
          InstallStep, OperationLoop, RollbackStep, BeginUpdater, PrepareFails, StartBackup,
          PoolStep, UnpackOperation, BackupDone, UnpackDone, TakeResult, CollectDone,
          CheckOperation, ElevationRefused, BackupReturns, ComponentInstalled,
          PerformReturns, Finish, AnswerRetry, AnswerIgnore, AnswerCancel, Interrupt,
          SkipLast, RollbackDone, Commit, AbortEnds, machineVars
  <2>2. phase = "rollback" /\ session # <<>> /\ op = Last(session)
    BY <2>t, <2>1 DEF UndoLast
  <2>3. p \in Operations \ UnpackOps /\ p # TargetDirOp
    BY InstallOpsOwned
  <2>4. p \in Recorded \cup lost
    <3>1. InFlight = {}
      BY <2>t, <2>2 DEF InFlight, Control
    <3> QED
      BY <2>3, <3>1 DEF TransactionInv, EffectsTracked
  <2>5. p \notin ToSet(session)
    <3> SUFFICES ASSUME NEW i \in DOMAIN session, session[i] = p PROVE FALSE
      BY DEF ToSet
    <3>1. /\ Len(session) \in Nat /\ Len(session) # 0 /\ DOMAIN session = 1 .. Len(session)
          /\ session[Len(session)] = op
      BY <2>t, <2>2, LenProperties, EmptySeq DEF Last
    <3>2. i # Len(session)
      BY <2>3, <3>1
    <3>3. i < Len(session) /\ Len(session) \in DOMAIN session
      BY <3>1, <3>2
    <3> QED
      BY <2>3, <3>1, <3>3 DEF RecordsInv, UnpackedFirst
  <2> QED
    BY <2>4, <2>5 DEF Recorded
<1> QED
  BY <1>1, RecordsInvariant, TransactionInvariant, PTL
  DEF TransactionSpec, InstallUndoneBeforeUnpack

-----------------------------------------------------------------------------
(*                              The sessions                               *)

-----------------------------------------------------------------------------
(* Parts of a list of operations                                           *)

\* What the loop over ops has put in its list before each turn: one operation more
\* after each one to keep.
LEMMA OnlyBuilds ==
  ASSUME NEW ops \in Seq(Operations), NEW keep
  PROVE  \E built : /\ built[0] = <<>>
                    /\ \A n \in 1..Len(ops) :
                         built[n] = IF ops[n] \in keep THEN Append(built[n - 1], ops[n])
                                    ELSE built[n - 1]
                    /\ Only(ops, keep) = built[Len(ops)]
<1> DEFINE Built(f, m) ==
             f = [n \in 0..m |->
                    IF n = 0 THEN <<>>
                    ELSE IF ops[n] \in keep THEN Append(f[n - 1], ops[n]) ELSE f[n - 1]]
           Builds(m) == \E f : Built(f, m)
           T == {m \in 0..Len(ops) : Builds(m)}
<1>l. Len(ops) \in Nat
  BY LenProperties
<1>1. Builds(0)
  <2>1. Built([n \in 0..0 |-> <<>>], 0)
    BY SMT
  <2> QED
    BY <2>1
<1>2. ASSUME NEW m \in 1..Len(ops), Builds(m - 1) PROVE Builds(m)
  <2>1. PICK f : Built(f, m - 1)
    BY <1>2
  <2> DEFINE g == [n \in 0..m |-> IF n = m THEN
                      (IF ops[n] \in keep THEN Append(f[n - 1], ops[n]) ELSE f[n - 1])
                      ELSE f[n]]
  <2>2. Built(g, m)
    <3>1. \A n \in 0..m : n # m => n \in 0..(m - 1)
      BY <1>l
    <3>2. \A n \in 0..m : n # 0 => n - 1 \in 0..m /\ n - 1 # m
      BY <1>l
    <3>3. \A n \in 0..m : n # 0 => g[n - 1] = f[n - 1]
      BY <3>2
    <3>4. \A n \in 0..(m - 1) :
            f[n] = IF n = 0 THEN <<>>
                   ELSE IF ops[n] \in keep THEN Append(f[n - 1], ops[n]) ELSE f[n - 1]
      BY <2>1
    <3> QED
      BY <3>1, <3>3, <3>4
  <2> QED
    BY <2>2
<1>3. Builds(Len(ops))
  <2> HIDE DEF Builds
  <2>1. 0 \in T
    BY <1>1, <1>l
  <2>2. \A m \in 1..Len(ops) : m - 1 \in T => m \in T
    BY <1>2, <1>l
  <2> HIDE DEF T
  <2>3. \A m \in 0..Len(ops) : m \in T
    BY <1>l, <2>1, <2>2, CountUp
  <2>4. Len(ops) \in T
    BY <1>l, <2>3
  <2> QED
    BY <2>4 DEF T
<1> DEFINE built == CHOOSE f : Built(f, Len(ops))
<1>4. Built(built, Len(ops))
  BY <1>3
<1>5. Only(ops, keep) = built[Len(ops)]
  BY DEF Only
<1> HIDE DEF built
<1>6. \A n \in 0..Len(ops) :
        built[n] = IF n = 0 THEN <<>>
                   ELSE IF ops[n] \in keep THEN Append(built[n - 1], ops[n]) ELSE built[n - 1]
  BY <1>4
<1>7. 0 \in 0..Len(ops) /\ \A n \in 1..Len(ops) : n \in 0..Len(ops) /\ n # 0
  BY <1>l
<1>8. built[0] = <<>>
  BY <1>6, <1>7
<1> QED
  BY <1>5, <1>6, <1>7, <1>8

\* The operations of the list part come one after the other in ops too.
InOrderOf(part, ops) ==
  \A i, j \in DOMAIN part :
    i < j => \E p, q \in DOMAIN ops : p < q /\ ops[p] = part[i] /\ ops[q] = part[j]

\* Only() keeps what it shall, in the order of the list.
LEMMA OnlyKeeps ==
  ASSUME NEW ops \in Seq(Operations), NEW keep
  PROVE  /\ Only(ops, keep) \in Seq(Operations)
         /\ ToSet(Only(ops, keep)) = ToSet(ops) \cap keep
         /\ InOrderOf(Only(ops, keep), ops)
<1>l. Len(ops) \in Nat /\ DOMAIN ops = 1..Len(ops) /\ \A n \in 1..Len(ops) : ops[n] \in Operations
  BY LenProperties, ElementOfSeq
<1>1. PICK built : /\ built[0] = <<>>
                   /\ \A n \in 1..Len(ops) :
                        built[n] = IF ops[n] \in keep THEN Append(built[n - 1], ops[n])
                                   ELSE built[n - 1]
                   /\ Only(ops, keep) = built[Len(ops)]
  BY OnlyBuilds
<1> DEFINE Kept(t, m) ==
             /\ t \in Seq(Operations)
             /\ ToSet(t) = {ops[n] : n \in 1..m} \cap keep
             /\ \A i, j \in DOMAIN t :
                  i < j => \E p, q \in 1..m : p < q /\ ops[p] = t[i] /\ ops[q] = t[j]
           T == {m \in 0..Len(ops) : Kept(built[m], m)}
<1>2. Kept(<<>>, 0)
  <2>1. ToSet(<<>>) = {} /\ <<>> \in Seq(Operations) /\ DOMAIN <<>> = {}
    BY EmptySeq DEF ToSet
  <2> QED
    BY <2>1
<1>3. ASSUME NEW m \in 1..Len(ops), NEW t, Kept(t, m - 1)
      PROVE  Kept(IF ops[m] \in keep THEN Append(t, ops[m]) ELSE t, m)
  <2>1. m \in Nat /\ m - 1 \in Nat /\ 1..m = (1..(m - 1)) \cup {m} /\ ops[m] \in Operations
    BY <1>l
  <2>2. {ops[n] : n \in 1..m} = {ops[n] : n \in 1..(m - 1)} \cup {ops[m]}
    BY <2>1
  <2>3. CASE ops[m] \notin keep
    <3>1. ToSet(t) = {ops[n] : n \in 1..m} \cap keep
      BY <1>3, <2>2, <2>3
    <3>2. \A i, j \in DOMAIN t : i < j => \E p, q \in 1..m : p < q /\ ops[p] = t[i] /\ ops[q] = t[j]
      BY <1>3, <2>1
    <3> QED
      BY <1>3, <2>3, <3>1, <3>2
  <2>4. CASE ops[m] \in keep
    <3> DEFINE u == Append(t, ops[m])
    <3>1. /\ u \in Seq(Operations) /\ Len(u) = Len(t) + 1
          /\ \A i \in 1..Len(t) : u[i] = t[i]
          /\ u[Len(t) + 1] = ops[m]
      BY <1>3, <2>1, AppendProperties
    <3>2. Len(t) \in Nat /\ DOMAIN t = 1..Len(t) /\ DOMAIN u = 1..(Len(t) + 1)
      BY <1>3, <3>1, LenProperties
    <3>3. ToSet(u) = ToSet(t) \cup {ops[m]}
      BY <1>3, <2>1, ToSetAppend
    <3>4. ToSet(u) = {ops[n] : n \in 1..m} \cap keep
      BY <1>3, <2>2, <2>4, <3>3
    <3> HIDE DEF u
    <3>5. ASSUME NEW i \in DOMAIN u, NEW j \in DOMAIN u, i < j
          PROVE  \E p, q \in 1..m : p < q /\ ops[p] = u[i] /\ ops[q] = u[j]
      <4>1. i \in 1..Len(t) /\ u[i] = t[i]
        BY <3>1, <3>2, <3>5
      <4>2. CASE j = Len(t) + 1
        <5>1. t[i] \in ToSet(t)
          BY <3>2, <4>1 DEF ToSet
        <5>2. PICK p \in 1..(m - 1) : ops[p] = t[i]
          BY <1>3, <5>1
        <5>3. p < m /\ p \in 1..m /\ m \in 1..m
          BY <2>1
        <5> QED
          BY <3>1, <4>1, <4>2, <5>2, <5>3
      <4>3. CASE j \in 1..Len(t)
        <5>1. PICK p, q \in 1..(m - 1) : p < q /\ ops[p] = t[i] /\ ops[q] = t[j]
          BY <1>3, <3>2, <3>5, <4>1, <4>3
        <5>2. p \in 1..m /\ q \in 1..m
          BY <2>1
        <5> QED
          BY <3>1, <4>1, <4>3, <5>1, <5>2
      <4> QED
        BY <3>2, <3>5, <4>2, <4>3
    <3>6. Kept(u, m)
      BY <3>1, <3>4, <3>5
    <3> QED
      BY <2>4, <3>6 DEF u
  <2> QED
    BY <2>3, <2>4
<1>4. Kept(built[Len(ops)], Len(ops))
  <2> HIDE DEF Kept
  <2>1. 0 \in T
    BY <1>1, <1>2, <1>l
  <2>2. ASSUME NEW m \in 1..Len(ops), m - 1 \in T PROVE m \in T
    <3>1. m \in 0..Len(ops)
      BY <1>l
    <3> QED
      BY <1>1, <1>3, <2>2, <3>1
  <2> HIDE DEF T
  <2>3. \A m \in 0..Len(ops) : m \in T
    BY <1>l, <2>1, <2>2, CountUp
  <2>4. Len(ops) \in T
    BY <1>l, <2>3
  <2> QED
    BY <2>4 DEF T
<1>5. ToSet(ops) = {ops[n] : n \in 1..Len(ops)}
  BY <1>l DEF ToSet
<1> HIDE DEF Kept
<1>6. Kept(Only(ops, keep), Len(ops))
  BY <1>1, <1>4
<1> QED
  BY <1>5, <1>6, <1>l DEF InOrderOf, Kept

\* A list in the order of another repeats nothing that the other does not.
LEMMA OrderKeepsInjective ==
  ASSUME NEW ops \in Seq(Operations), NEW part \in Seq(Operations), InOrderOf(part, ops),
         IsInjective(ops)
  PROVE  IsInjective(part)
<1>1. ASSUME NEW i \in DOMAIN part, NEW j \in DOMAIN part, part[i] = part[j], i < j PROVE FALSE
  <2>1. PICK p, q \in DOMAIN ops : p < q /\ ops[p] = part[i] /\ ops[q] = part[j]
    BY <1>1 DEF InOrderOf
  <2>2. p = q
    BY <1>1, <2>1 DEF IsInjective
  <2>3. p \in Nat
    BY LenProperties
  <2> QED
    BY <2>1, <2>2, <2>3
<1>2. \A i, j \in DOMAIN part : i \in Nat /\ j \in Nat
  BY LenProperties
<1>3. \A i, j \in DOMAIN part : i < j \/ j < i \/ i = j
  BY <1>2
<1> QED
  BY <1>1, <1>3 DEF IsInjective

-----------------------------------------------------------------------------
(* The sorted list                                                         *)

OperationsOf(c) == {op \in Operations : ComponentOf[op] = c}

\* What the last loop of sortOperationsBasedOnComponentDependencies() has put in the
\* list before each turn.
LEMMA SortBuilds ==
  ASSUME NEW ops \in Seq(Operations)
  PROVE  \E built : /\ built[0] = Only(ops, OperationsOf(None))
                    /\ \A n \in 1..Len(Order) :
                         built[n] = built[n - 1] \o Only(ops, OperationsOf(Order[n]))
                    /\ SortOperations(ops) = built[Len(Order)]
<1> DEFINE Of(c) == Only(ops, OperationsOf(c))
           Built(f, m) ==
             f = [n \in 0..m |-> IF n = 0 THEN Of(None) ELSE f[n - 1] \o Of(Order[n])]
           Builds(m) == \E f : Built(f, m)
           T == {m \in 0..Len(Order) : Builds(m)}
<1>l. Len(Order) \in Nat
  BY SessionAssumption, LenProperties
<1>5. SortOperations(ops) = (CHOOSE f : Built(f, Len(Order)))[Len(Order)]
  BY DEF SortOperations, OperationsOf
<1> HIDE DEF Of
<1>1. Builds(0)
  <2>1. Built([n \in 0..0 |-> Of(None)], 0)
    BY SMT
  <2> QED
    BY <2>1
<1>2. ASSUME NEW m \in 1..Len(Order), Builds(m - 1) PROVE Builds(m)
  <2>1. PICK f : Built(f, m - 1)
    BY <1>2
  <2> DEFINE g == [n \in 0..m |-> IF n = m THEN f[n - 1] \o Of(Order[n]) ELSE f[n]]
  <2>2. Built(g, m)
    <3>1. \A n \in 0..m : n # m => n \in 0..(m - 1)
      BY <1>l
    <3>2. \A n \in 0..m : n # 0 => n - 1 \in 0..m /\ n - 1 # m
      BY <1>l
    <3>3. \A n \in 0..m : n # 0 => g[n - 1] = f[n - 1]
      BY <3>2
    <3>4. \A n \in 0..(m - 1) : f[n] = IF n = 0 THEN Of(None) ELSE f[n - 1] \o Of(Order[n])
      BY <2>1
    <3>5. ASSUME NEW n \in 0..m
          PROVE  g[n] = IF n = 0 THEN Of(None) ELSE g[n - 1] \o Of(Order[n])
      <4>1. CASE n = m
        <5>1. n # 0
          BY <1>l, <4>1
        <5>2. g[n] = f[n - 1] \o Of(Order[n]) /\ g[n - 1] = f[n - 1]
          BY <3>3, <4>1, <5>1
        <5> QED
          BY <5>1, <5>2
      <4>2. CASE n # m
        BY <3>1, <3>3, <3>4, <4>2
      <4> QED
        BY <4>1, <4>2
    <3> QED
      BY <3>5
  <2> QED
    BY <2>2
<1>3. Builds(Len(Order))
  <2> HIDE DEF Builds
  <2>1. 0 \in T
    BY <1>1, <1>l
  <2>2. \A m \in 1..Len(Order) : m - 1 \in T => m \in T
    BY <1>2, <1>l
  <2> HIDE DEF T
  <2>3. \A m \in 0..Len(Order) : m \in T
    BY <1>l, <2>1, <2>2, CountUp
  <2>4. Len(Order) \in T
    BY <1>l, <2>3
  <2> QED
    BY <2>4 DEF T
<1> DEFINE built == CHOOSE f : Built(f, Len(Order))
<1>4. Built(built, Len(Order))
  BY <1>3
<1>8. SortOperations(ops) = built[Len(Order)]
  BY <1>5
<1> HIDE DEF built
<1>6. \A n \in 0..Len(Order) :
        built[n] = IF n = 0 THEN Of(None) ELSE built[n - 1] \o Of(Order[n])
  BY <1>4
<1>7. 0 \in 0..Len(Order) /\ \A n \in 1..Len(Order) : n \in 0..Len(Order) /\ n # 0
  BY <1>l
<1> QED
  BY <1>6, <1>7, <1>8 DEF Of

\* No operation of a component stands before one of a component it requires.
RequirementsFirst(ops) ==
  \A i, j \in DOMAIN ops :
    (i < j /\ ComponentOf[ops[i]] \in Components) =>
      ComponentOf[ops[j]] \notin Requires[ComponentOf[ops[i]]]

\* Sorting loses no operation and repeats none, and puts requirements first.
LEMMA SortKeeps ==
  ASSUME NEW ops \in Seq(Operations)
  PROVE  /\ SortOperations(ops) \in Seq(Operations)
         /\ ToSet(SortOperations(ops)) = ToSet(ops)
         /\ IsInjective(ops) => IsInjective(SortOperations(ops))
         /\ RequirementsFirst(SortOperations(ops))
<1>l. /\ Len(Order) \in Nat /\ DOMAIN Order = 1..Len(Order)
      /\ \A n \in 1..Len(Order) : Order[n] \in Components
  BY SessionAssumption, LenProperties, ElementOfSeq
<1>a. ComponentOf \in [Operations -> Components \cup {None}] /\ None \notin Components
  BY TransactionAssumption
<1>1. PICK built : /\ built[0] = Only(ops, OperationsOf(None))
                   /\ \A n \in 1..Len(Order) :
                        built[n] = built[n - 1] \o Only(ops, OperationsOf(Order[n]))
                   /\ SortOperations(ops) = built[Len(Order)]
  BY SortBuilds
<1> DEFINE Upto(m) == {None} \cup {Order[n] : n \in 1..m}
           Sorted(t, m) ==
             /\ t \in Seq(Operations)
             /\ ToSet(t) = {op \in ToSet(ops) : ComponentOf[op] \in Upto(m)}
             /\ IsInjective(ops) => IsInjective(t)
             /\ RequirementsFirst(t)
           T == {m \in 0..Len(Order) : Sorted(built[m], m)}
<1>o. ToSet(ops) \subseteq Operations
  BY LenProperties, ElementOfSeq DEF ToSet
<1>2. ASSUME NEW c
      PROVE  /\ Only(ops, OperationsOf(c)) \in Seq(Operations)
             /\ ToSet(Only(ops, OperationsOf(c))) = {op \in ToSet(ops) : ComponentOf[op] = c}
             /\ IsInjective(ops) => IsInjective(Only(ops, OperationsOf(c)))
  <2>1. ToSet(ops) \cap OperationsOf(c) = {op \in ToSet(ops) : ComponentOf[op] = c}
    BY <1>o DEF OperationsOf
  <2> QED
    BY <2>1, OnlyKeeps, OrderKeepsInjective
<1>3. ASSUME NEW t \in Seq(Operations), NEW i \in DOMAIN t PROVE t[i] \in ToSet(t)
  BY <1>3 DEF ToSet
<1>4. Sorted(built[0], 0)
  <2> DEFINE t == Only(ops, OperationsOf(None))
  <2>1. Upto(0) = {None}
    OBVIOUS
  <2>2. t \in Seq(Operations) /\ (IsInjective(ops) => IsInjective(t))
    BY <1>2
  <2>3. ToSet(t) = {op \in ToSet(ops) : ComponentOf[op] = None}
    BY <1>2
  <2> HIDE DEF t
  <2>4. RequirementsFirst(t)
    BY <1>3, <1>a, <2>2, <2>3 DEF RequirementsFirst
  <2>5. Sorted(t, 0)
    BY <2>1, <2>2, <2>3, <2>4
  <2> HIDE DEF Sorted
  <2> QED
    BY <1>1, <2>5 DEF t
<1>5. ASSUME NEW m \in 1..Len(Order), NEW s, Sorted(s, m - 1),
             NEW t, t = Only(ops, OperationsOf(Order[m]))
      PROVE  Sorted(s \o t, m)
  <2> DEFINE d == Order[m]
  <2>1. m \in Nat /\ m \in 1..m /\ 1..m = (1..(m - 1)) \cup {m} /\ d \in Components
    BY <1>l
  <2>2. /\ t \in Seq(Operations) /\ ToSet(t) = {op \in ToSet(ops) : ComponentOf[op] = d}
        /\ IsInjective(ops) => IsInjective(t)
    BY <1>2, <1>5
  <2>3. /\ s \in Seq(Operations)
        /\ ToSet(s) = {op \in ToSet(ops) : ComponentOf[op] \in Upto(m - 1)}
        /\ IsInjective(ops) => IsInjective(s)
        /\ RequirementsFirst(s)
    BY <1>5
  <2>4. Upto(m) = Upto(m - 1) \cup {d}
    BY <2>1
  <2>5. d \notin Upto(m - 1)
    <3>1. \A n \in 1..(m - 1) : n \in DOMAIN Order /\ n # m
      BY <1>l
    <3> QED
      BY <1>a, <1>l, <2>1, <3>1, SessionAssumption DEF IsInjective
  <2> DEFINE u == s \o t
  <2>6. u \in Seq(Operations) /\ ToSet(u) = ToSet(s) \cup ToSet(t)
    BY <2>2, <2>3, ConcatProperties, ToSetConcat
  <2>7. IsInjective(ops) => IsInjective(u)
    <3>1. ToSet(s) \cap ToSet(t) = {}
      BY <2>2, <2>3, <2>5
    <3> QED
      BY <2>2, <2>3, <3>1, InjectiveConcat
  <2>8. RequirementsFirst(u)
    <3>1. /\ Len(s) \in Nat /\ Len(t) \in Nat /\ DOMAIN s = 1..Len(s) /\ DOMAIN t = 1..Len(t)
          /\ DOMAIN u = 1..Len(s) + Len(t)
          /\ \A i \in 1..Len(s) + Len(t) : u[i] = IF i <= Len(s) THEN s[i] ELSE t[i - Len(s)]
      BY <2>2, <2>3, ConcatProperties, LenProperties
    <3> HIDE DEF u
    <3>2. ASSUME NEW i \in DOMAIN u
          PROVE  \/ i \in DOMAIN s /\ u[i] = s[i]
                 \/ i > Len(s) /\ ComponentOf[u[i]] = d
      <4>1. CASE i <= Len(s)
        BY <3>1, <3>2, <4>1
      <4>2. CASE ~(i <= Len(s))
        <5>1. i - Len(s) \in DOMAIN t /\ u[i] = t[i - Len(s)] /\ i > Len(s)
          BY <3>1, <3>2, <4>2
        <5>2. t[i - Len(s)] \in ToSet(t)
          BY <1>3, <2>2, <5>1
        <5> QED
          BY <2>2, <5>1, <5>2
      <4> QED
        BY <4>1, <4>2
    <3>3. d \notin Requires[d]
      BY <1>l, <2>1, SessionAssumption
    <3>4. \A n \in 1..(m - 1) : d \notin Requires[Order[n]]
      <4>1. \A n \in 1..(m - 1) : n \in DOMAIN Order /\ ~(m < n)
        BY <1>l
      <4> QED
        BY <1>l, <4>1, SessionAssumption
    <3>5. ASSUME NEW i \in DOMAIN u, NEW j \in DOMAIN u, i < j, ComponentOf[u[i]] \in Components
          PROVE  ComponentOf[u[j]] \notin Requires[ComponentOf[u[i]]]
      <4>1. CASE i \in DOMAIN s /\ u[i] = s[i] /\ j \in DOMAIN s /\ u[j] = s[j]
        BY <2>3, <3>5, <4>1 DEF RequirementsFirst
      <4>2. CASE i \in DOMAIN s /\ u[i] = s[i] /\ ComponentOf[u[j]] = d
        <5>1. s[i] \in ToSet(s)
          BY <1>3, <2>3, <4>2
        <5>2. ComponentOf[u[i]] \in Upto(m - 1)
          BY <2>3, <4>2, <5>1
        <5> QED
          BY <1>a, <3>4, <3>5, <4>2, <5>2
      <4>3. CASE i > Len(s) /\ ComponentOf[u[i]] = d
        <5>1. j > Len(s) /\ ~(j \in DOMAIN s)
          BY <3>1, <3>5, <4>3
        <5>2. ComponentOf[u[j]] = d
          BY <3>2, <5>1
        <5> QED
          BY <3>3, <4>3, <5>2
      <4> QED
        BY <3>2, <4>1, <4>2, <4>3
    <3> QED
      BY <3>5 DEF RequirementsFirst
  <2> HIDE DEF u, d, Upto
  <2>9. ToSet(u) = {op \in ToSet(ops) : ComponentOf[op] \in Upto(m)}
    BY <2>2, <2>3, <2>4, <2>6
  <2> QED
    BY <2>6, <2>7, <2>8, <2>9 DEF u
<1>6. Sorted(built[Len(Order)], Len(Order))
  <2> HIDE DEF Sorted
  <2>1. 0 \in T
    BY <1>4, <1>l
  <2>2. ASSUME NEW m \in 1..Len(Order), m - 1 \in T PROVE m \in T
    <3>1. m \in 0..Len(Order) /\ built[m] = built[m - 1] \o Only(ops, OperationsOf(Order[m]))
      BY <1>l, <1>1
    <3>2. Sorted(built[m - 1], m - 1)
      BY <2>2
    <3>3. Sorted(built[m], m)
      BY <1>5, <3>1, <3>2
    <3> QED
      BY <3>1, <3>3
  <2> HIDE DEF T
  <2>3. \A m \in 0..Len(Order) : m \in T
    BY <1>l, <2>1, <2>2, CountUp
  <2>4. Len(Order) \in T
    BY <1>l, <2>3
  <2> QED
    BY <2>4 DEF T
<1>7. {op \in ToSet(ops) : ComponentOf[op] \in Upto(Len(Order))} = ToSet(ops)
  <2>1. Upto(Len(Order)) = {None} \cup Components
    BY <1>l, SessionAssumption DEF ToSet
  <2> QED
    BY <1>a, <1>o, <2>1
<1> HIDE DEF Sorted
<1>8. Sorted(SortOperations(ops), Len(Order))
  BY <1>1, <1>6
<1> QED
  BY <1>7, <1>8 DEF Sorted

-----------------------------------------------------------------------------
(* The inductive invariant: control, types and effects                     *)

\* The phases in which an installation is carried out or taken back, and those of
\* a removal.
TransactionPhases == Working \cup {"ready", "installed", "rollback", "rolledBack"}
Removing == {"preparing", "undo"}

\* Outside of a transaction the runner is idle, and the main thread has an operation
\* at hand only while it undoes one, which is then the first of those to undo. The
\* lists go with the process.
OuterControl ==
  /\ phase \in TransactionPhases => Control
  /\ phase \notin TransactionPhases =>
       uncollected = {} /\ watched = {} /\ canceled = {} /\ ~looping
  /\ phase \in {"off", "preparing", "finished"} => step = "none" /\ current = None
  /\ phase = "undo" =>
       \/ step = "check" /\ current = None
       \/ /\ step \in {"perform", "succeeded", "failed"}
          /\ undoList # <<>> /\ current = Head(undoList)
  /\ phase \notin Removing => undoList = <<>> /\ kept = <<>>
  /\ phase \in Removing => mode # "Installer"
  /\ phase = "off" => old = <<>> /\ session = <<>>

\* While operations are undone: what is no longer on one of the two lists has no
\* effect any more, or was given up.
UndoInStep ==
  phase \in Removing =>
    /\ ToSet(undoList) \subseteq ToSet(old)
    /\ \A op \in ToSet(old) :
         effect[op] # "none" => op \in ToSet(kept) \cup ToSet(undoList) \cup lost

EffectsInv ==
  /\ SessionTypeOK /\ OuterControl /\ PoolInStep
  /\ phase # "off" => FailuresAccounted
  /\ EffectsTrackedAcrossProcesses
  /\ UndoInStep

-----------------------------------------------------------------------------
(* Control, types and effects across sessions                              *)

\* A step of the transaction that does not start or end a session happens in a phase
\* of its own, so that what is proved about it there holds here.
LEMMA InnerStep ==
  ASSUME TransactionStep \/ Interrupt
  PROVE  /\ TransactionNext
         /\ phase \in Working \cup {"rollback"}
         /\ phase' \in (Working \ {"prepared"}) \cup {"installed", "rollback", "rolledBack"}
<1> USE DEF Working
<1>1. TransactionNext
  BY DEF TransactionNext
<1>2. CASE \E s \in {"Running", "Canceled"} : PrepareFails(s)
  BY <1>1, <1>2 DEF PrepareFails, Throw
<1>3. CASE MainThreadUnpackStep
  BY <1>1, <1>3 DEF MainThreadUnpackStep, StartBackup, UnpackDone, CollectDone, BackupDone,
                    TakeResult, Throw, InstallNext
<1>4. CASE \E op \in UnpackOps : PoolStep(op) \/ \E ok \in BOOLEAN : UnpackOperation(op, ok)
  BY <1>1, <1>4 DEF PoolStep, UnpackOperation, flowVars
<1>5. CASE InstallStep
  BY <1>1, <1>5 DEF InstallStep, CheckOperation, ElevationRefused, BackupReturns,
                    ComponentInstalled, Throw, InstallNext
<1>6. CASE OperationLoop
  BY <1>1, <1>6 DEF OperationLoop, PerformReturns, Finish, AnswerRetry, AnswerIgnore,
                    AnswerCancel, Collected, Handled, Throw
<1>7. CASE RollbackStep
  BY <1>1, <1>7 DEF RollbackStep, UndoLast, SkipLast, RollbackDone, flowVars
<1>8. CASE Interrupt
  BY <1>1, <1>8 DEF Interrupt
<1> QED
  BY <1>2, <1>3, <1>4, <1>5, <1>6, <1>7, <1>8 DEF TransactionStep, UnpackStep

\* The transaction's invariant holds in its phases.
LEMMA InnerInv ==
  ASSUME EffectsInv, phase \in TransactionPhases
  PROVE  TransactionInv
<1>1. phase # "off"
  BY DEF TransactionPhases, Working
<1>2. FailuresAccounted /\ EffectsTracked
  BY <1>1 DEF EffectsInv, EffectsTrackedAcrossProcesses, EffectsTracked
<1> QED
  BY <1>2 DEF EffectsInv, TransactionInv, SessionTypeOK, OuterControl

\* The processes start with everything empty.
LEMMA EffectsInvInit == SessionInit => EffectsInv
<1> SUFFICES ASSUME SessionInit PROVE EffectsInv
  OBVIOUS
<1>1. TransactionTypeOK /\ Control /\ PoolInStep /\ FailuresAccounted /\ EffectsTracked
  BY TypeInit, ControlInit, PoolInit, EffectsInit DEF SessionInit
<1>2. phase = "ready" /\ \A S : <<>> \in Seq(S)
  BY EmptySeq DEF SessionInit, TransactionInit
<1>3. SessionTypeOK
  <2>1. 0 \in 0..MaxSessions /\ 0 \in 0..MaxRestarts /\ 0 \in 0..MaxCrashes
    BY SessionAssumption
  <2> QED
    BY <1>1, <1>2, <2>1 DEF SessionTypeOK, SessionInit, Modes
<1>4. OuterControl /\ UndoInStep
  BY <1>1, <1>2 DEF OuterControl, UndoInStep, SessionInit, TransactionPhases, Removing, Working
<1>5. EffectsTrackedAcrossProcesses
  BY <1>1 DEF EffectsTracked, EffectsTrackedAcrossProcesses
<1> QED
  BY <1>1, <1>3, <1>4, <1>5 DEF EffectsInv

\* The runner of a session that is gone.
LEMMA GoneTypes ==
  ASSUME LocalsGone
  PROVE  /\ toInstall' \in Seq(Components) /\ opsLeft' \in Seq(Operations \ UnpackOps)
         /\ uncollected' \in SUBSET UnpackOps /\ unpackError' \in BOOLEAN
         /\ Runner!RunnerTypeOK'
  BY EmptySeq DEF LocalsGone, Runner!RunnerTypeOK, Runner!TaskState

\* Writing the tool keeps the types of the lists.
LEMMA WriteToolTypes ==
  ASSUME SessionTypeOK, NEW outcome, WriteTool(outcome)
  PROVE  /\ old' \in Seq(Operations) /\ session' \in Seq(Operations)
         /\ hubOnDisk' \in SUBSET Components /\ tool' \in Seq(Operations) \cup {None}
         /\ needToWrite' \in BOOLEAN /\ areSorted' \in BOOLEAN
<1>1. old \o session \in Seq(Operations) /\ <<>> \in Seq(Operations)
  BY ConcatProperties, EmptySeq DEF SessionTypeOK, TransactionTypeOK
<1>2. SortOperations(old \o session) \in Seq(Operations)
  BY <1>1, SortKeeps
<1> QED
  BY <1>1, <1>2 DEF WriteTool, SessionTypeOK, TransactionTypeOK

\* Every step of a session or between sessions keeps the types.
LEMMA SessionTypeStep ==
  ASSUME EffectsInv, [SessionNext]_sessionVars
  PROVE  SessionTypeOK'
<1>t. SessionTypeOK /\ TransactionTypeOK /\ Runner!RunnerTypeOK /\ OuterControl
  BY DEF EffectsInv, SessionTypeOK, TransactionTypeOK
<1>a. /\ UnpackOps \subseteq Operations /\ TargetDirOp \in Operations
      /\ Plans \in SUBSET Seq(Components) /\ MaxRetries \in Nat
      /\ None \notin Operations /\ ComponentOf \in [Operations -> Components \cup {None}]
  BY TransactionAssumption
<1>m. MaxSessions \in Nat /\ MaxRestarts \in Nat /\ MaxCrashes \in Nat
  BY SessionAssumption
<1>e. \A S : <<>> \in Seq(S)
  BY EmptySeq
<1> USE DEF SessionTypeOK, TransactionTypeOK, Phases, Steps, Status, Modes, flowVars, workVars,
            machineVars, hubVars, poolVars, undoVars, toolVars, crashVars, countVars, outerVars
<1>b. ASSUME NEW plan \in Seq(Components), Begin(plan)
      PROVE  /\ status' \in Status /\ retries' \in 0..MaxRetries /\ toInstall' \in Seq(Components)
             /\ error' \in [Operations -> {"NoError", "InvalidArguments", "UserDefinedError"}]
             /\ UNCHANGED <<step, current, opsLeft, uncollected, unpackError, old, hubVars,
                            poolVars>>
  BY <1>t, <1>a, <1>b DEF Begin
<1>r. ASSUME UNCHANGED poolVars PROVE Runner!RunnerTypeOK'
  BY <1>t, <1>r DEF Runner!RunnerTypeOK, Runner!TaskState
\* A session that begins has the types of the transaction, when its lists have them.
<1>o. ASSUME NEW plan \in Seq(Components), Begin(plan), phase' \in Phases,
             effect' \in [Operations -> {"none", "partial", "done"}],
             session' \in Seq(Operations), lost' \in SUBSET Operations
      PROVE  TransactionTypeOK'
  <2>1. Runner!RunnerTypeOK'
    BY <1>b, <1>o, <1>r
  <2>2. /\ step' \in Steps /\ status' \in Status /\ current' \in Operations \cup {None}
        /\ toInstall' \in Seq(Components) /\ opsLeft' \in Seq(Operations \ UnpackOps)
        /\ uncollected' \in SUBSET UnpackOps /\ unpackError' \in BOOLEAN
        /\ old' \in Seq(Operations) /\ retries' \in 0..MaxRetries
        /\ hub' \in SUBSET Components /\ hubOnDisk' \in SUBSET Components
        /\ error' \in [Operations -> {"NoError", "InvalidArguments", "UserDefinedError"}]
    BY <1>t, <1>b, <1>o
  <2> QED
    BY <1>o, <2>1, <2>2
<1>n. ASSUME NewSession
      PROVE  /\ sessions' \in 0..MaxSessions
             /\ UNCHANGED <<toolVars, writeFailed, restarts, crashVars>>
  BY <1>t, <1>m, <1>n DEF NewSession
<1>1. ASSUME NEW plan \in Plans, Install(plan) PROVE SessionTypeOK'
  <2>1. /\ BeginInstaller(plan) /\ Begin(plan) /\ NewSession /\ UNCHANGED <<mode, undoVars>>
        /\ target' = (hub \ {}) \cup ToSet(plan) /\ plan \in Seq(Components)
    BY <1>1, <1>a DEF Install, Select, BeginInstaller
  <2>2. target' \in SUBSET Components
    BY <1>t, <2>1, LenProperties, ElementOfSeq DEF ToSet
  <2>3. /\ effect' \in [Operations -> {"none", "partial", "done"}] /\ session' \in Seq(Operations)
        /\ lost' \in SUBSET Operations /\ phase' = "prepared"
    BY <1>t, <1>a, <2>1, AppendProperties DEF BeginInstaller
  <2>4. TransactionTypeOK'
    BY <1>o, <2>1, <2>3
  <2>5. /\ mode' \in Modes /\ undoList' \in Seq(Operations) /\ kept' \in Seq(Operations)
        /\ deleted' \in SUBSET Operations
    BY <1>t, <2>1
  <2>6. /\ tool' \in Seq(Operations) \cup {None} /\ needToWrite' \in BOOLEAN
        /\ areSorted' \in BOOLEAN /\ writeFailed' \in BOOLEAN
        /\ sessions' \in 0..MaxSessions /\ restarts' \in 0..MaxRestarts
        /\ stray' \in SUBSET Components /\ crashes' \in 0..MaxCrashes
    BY <1>t, <1>n, <2>1
  <2> HIDE DEF TransactionTypeOK
  <2> QED
    BY <2>2, <2>4, <2>5, <2>6
<1>p. ASSUME NEW ops \in Seq(Operations), NEW keep
      PROVE  Only(ops, keep) \in Seq(Operations) /\ Reverse(Only(ops, keep)) \in Seq(Operations)
  BY OnlyKeeps, ReverseProperties
<1>2. ASSUME NEW m \in Modes, NEW plan \in Plans, NEW removed \in SUBSET Components,
             Update(m, plan, removed)
      PROVE  SessionTypeOK'
  <2>1. /\ Begin(plan) /\ NewSession /\ mode' = m /\ phase' = "preparing"
        /\ UNCHANGED <<effect, session, lost, deleted>>
        /\ target' = (hub \ removed) \cup ToSet(plan) /\ plan \in Seq(Components)
    BY <1>2, <1>a DEF Update, Select
  <2>2. target' \in SUBSET Components
    BY <1>t, <2>1, LenProperties, ElementOfSeq DEF ToSet
  <2> DEFINE ops == IF areSorted THEN old ELSE SortOperations(old)
  <2>3. ops \in Seq(Operations)
    BY <1>t, SortKeeps
  <2>4. kept' \in Seq(Operations) /\ undoList' \in Seq(Operations)
    <3>1. /\ kept' = Only(ops, {op \in Operations : Keeps(m, op, plan, removed)})
          /\ undoList' = Reverse(Only(ops, {op \in Operations : ~Keeps(m, op, plan, removed)}))
      BY <1>2 DEF Update
    <3> HIDE DEF ops
    <3> QED
      BY <1>p, <2>3, <3>1
  <2>5. TransactionTypeOK'
    BY <1>t, <1>o, <2>1
  <2>6. /\ tool' \in Seq(Operations) \cup {None} /\ needToWrite' \in BOOLEAN
        /\ areSorted' \in BOOLEAN /\ writeFailed' \in BOOLEAN /\ deleted' \in SUBSET Operations
        /\ sessions' \in 0..MaxSessions /\ restarts' \in 0..MaxRestarts
        /\ stray' \in SUBSET Components /\ crashes' \in 0..MaxCrashes
    BY <1>t, <1>n, <2>1
  <2> HIDE DEF TransactionTypeOK
  <2> QED
    BY <2>1, <2>2, <2>4, <2>5, <2>6
<1>3. ASSUME Uninstall PROVE SessionTypeOK'
  <2>1. /\ Begin(<<>>) /\ NewSession /\ mode' = "Uninstaller" /\ phase' = "preparing"
        /\ UNCHANGED <<effect, session, lost, deleted>>
        /\ undoList' = Reverse(old) /\ kept' = old /\ target' = {}
    BY <1>3 DEF Uninstall
  <2>2. undoList' \in Seq(Operations) /\ kept' \in Seq(Operations) /\ target' \in SUBSET Components
    BY <1>t, <2>1, ReverseProperties
  <2>3. TransactionTypeOK'
    BY <1>t, <1>e, <1>o, <2>1
  <2>4. /\ tool' \in Seq(Operations) \cup {None} /\ needToWrite' \in BOOLEAN
        /\ areSorted' \in BOOLEAN /\ writeFailed' \in BOOLEAN /\ deleted' \in SUBSET Operations
        /\ sessions' \in 0..MaxSessions /\ restarts' \in 0..MaxRestarts
        /\ stray' \in SUBSET Components /\ crashes' \in 0..MaxCrashes
    BY <1>t, <1>n, <2>1
  <2> HIDE DEF TransactionTypeOK
  <2> QED
    BY <1>t, <2>1, <2>2, <2>3, <2>4
<1>4. ASSUME NEW s, PreparingFails(s) PROVE SessionTypeOK'
  BY <1>t, <1>e, <1>4 DEF PreparingFails, Abandon, Throw, Runner!RunnerTypeOK, Runner!TaskState
<1>5. ASSUME StartUndo \/ UndoRetry \/ InterruptUndo PROVE SessionTypeOK'
  <2>1. /\ phase' \in Phases /\ step' \in Steps /\ status' \in Status
        /\ UNCHANGED <<current, workVars, old, session, machineVars, hubVars, poolVars, outerVars>>
    BY <1>t, <1>5 DEF StartUndo, UndoRetry, InterruptUndo
  <2>2. retries' \in 0..MaxRetries
    BY <1>t, <1>a, <1>5 DEF StartUndo, UndoRetry, InterruptUndo
  <2>3. UNCHANGED outerVars
    BY <2>1
  <2>4. TransactionTypeOK'
    <3>1. Runner!RunnerTypeOK'
      BY <1>r, <2>1
    <3> QED
      BY <1>t, <2>1, <2>2, <3>1
  <2> HIDE DEF TransactionTypeOK
  <2> QED
    BY <1>t, <2>3, <2>4
<1>6. ASSUME NEW refused, CheckUndo(refused) PROVE SessionTypeOK'
  <2>1. Head(undoList) \in Operations
    BY <1>t, <1>6, HeadTailInSeq DEF CheckUndo
  <2>2. /\ phase' \in Phases /\ step' \in Steps /\ status' \in Status
        /\ current' \in Operations \cup {None} /\ hubOnDisk' \in SUBSET Components
        /\ undoList' \in Seq(Operations) /\ kept' \in Seq(Operations)
    BY <1>t, <1>e, <1>6, <2>1 DEF CheckUndo, Abandon, Throw
  <2>3. UNCHANGED <<workVars, old, session, machineVars, hub, retries, poolVars,
                    mode, deleted, toolVars, countVars>>
    BY <1>6 DEF CheckUndo
  <2> QED
    BY <1>t, <2>2, <2>3 DEF Runner!RunnerTypeOK, Runner!TaskState
<1>u. phase = "undo" /\ step \in {"perform", "succeeded", "failed"} =>
        /\ current \in Operations /\ undoList # <<>> /\ current = Head(undoList)
        /\ Tail(undoList) \in Seq(Operations)
  BY <1>t, HeadTailInSeq DEF OuterControl
<1>7. ASSUME NEW ok, UndoReturns(ok) PROVE SessionTypeOK'
  BY <1>t, <1>u, <1>7 DEF UndoReturns, Runner!RunnerTypeOK, Runner!TaskState
<1>8. ASSUME UndoHandled PROVE SessionTypeOK'
  BY <1>t, <1>u, <1>8 DEF UndoHandled, Runner!RunnerTypeOK, Runner!TaskState
<1>9. ASSUME UndoDone \/ UninstallDone PROVE SessionTypeOK'
  <2>1. CASE UndoDone
    BY <1>t, <1>e, <2>1 DEF UndoDone, Runner!RunnerTypeOK, Runner!TaskState
  <2>2. CASE UninstallDone
    BY <1>t, <1>e, <2>2 DEF UninstallDone, Runner!RunnerTypeOK, Runner!TaskState
  <2> QED
    BY <1>9, <2>1, <2>2
<1>10. ASSUME NEW outcome, InstallerDone(outcome) PROVE SessionTypeOK'
  <2>1. WriteTool(outcome) /\ LocalsGone /\ phase' = "finished" /\ status' = "Success"
    BY <1>10 DEF InstallerDone
  <2>2. UNCHANGED <<step, current, machineVars, hub, retries, mode, undoVars,
                    target, sessions, restarts, crashVars>>
    BY <1>10 DEF InstallerDone
  <2>3. writeFailed' \in BOOLEAN
    BY <1>10 DEF InstallerDone, NoteFailure
  <2> QED
    BY <1>t, <2>1, <2>2, <2>3, GoneTypes, WriteToolTypes
<1>11. ASSUME UpdaterDone PROVE SessionTypeOK'
  <2>1. /\ LocalsGone /\ phase' = "finished" /\ status' = "Success" /\ needToWrite' = TRUE
        /\ old' = old \o session /\ session' = <<>>
        /\ UNCHANGED <<step, current, machineVars, hubVars, retries, mode, undoVars,
                       tool, areSorted, countVars>>
    BY <1>11 DEF UpdaterDone
  <2>2. old \o session \in Seq(Operations)
    BY <1>t, ConcatProperties
  <2> QED
    BY <1>t, <1>e, <2>1, <2>2, GoneTypes
<1>12. ASSUME SessionAborted \/ Launch PROVE SessionTypeOK'
  <2>1. CASE SessionAborted
    BY <1>t, <2>1 DEF SessionAborted, Runner!RunnerTypeOK, Runner!TaskState
  <2>2. CASE Launch
    BY <1>t, <2>2 DEF Launch, Runner!RunnerTypeOK, Runner!TaskState
  <2> QED
    BY <1>12, <2>1, <2>2
<1>13. ASSUME NEW outcome, Restart(outcome) PROVE SessionTypeOK'
  <2>1. /\ WriteToolIfNeeded(outcome) /\ status' = "Unfinished" /\ phase' = "ready"
        /\ UNCHANGED <<step, current, workVars, machineVars, hub, retries, poolVars,
                       mode, undoVars, target, sessions, crashVars>>
    BY <1>13 DEF Restart
  <2>2. writeFailed' \in BOOLEAN /\ restarts' \in 0..MaxRestarts
    BY <1>t, <1>m, <1>13 DEF Restart, NoteFailure
  <2>3. /\ old' \in Seq(Operations) /\ session' \in Seq(Operations)
        /\ hubOnDisk' \in SUBSET Components /\ tool' \in Seq(Operations) \cup {None}
        /\ needToWrite' \in BOOLEAN /\ areSorted' \in BOOLEAN
    <3>1. CASE needToWrite
      BY <1>t, <2>1, <3>1, WriteToolTypes DEF WriteToolIfNeeded
    <3>2. CASE ~needToWrite
      BY <1>t, <2>1, <3>2 DEF WriteToolIfNeeded
    <3> QED
      BY <3>1, <3>2
  <2> QED
    BY <1>t, <2>1, <2>2, <2>3 DEF Runner!RunnerTypeOK, Runner!TaskState
<1>14. ASSUME NEW outcome, Quit(outcome) PROVE SessionTypeOK'
  <2>1. old \o session \in Seq(Operations) /\ SortOperations(old \o session) \in Seq(Operations)
    BY <1>t, ConcatProperties, SortKeeps
  <2>2. tool' \in Seq(Operations) \cup {None} /\ hubOnDisk' \in SUBSET Components
    BY <1>t, <1>14, <2>1 DEF Quit
  <2>3. lost' \in SUBSET Operations
    <3>1. ToSet(old \o session) \subseteq Operations
      BY <2>1, LenProperties, ElementOfSeq DEF ToSet
    <3> QED
      BY <1>t, <1>14, <3>1 DEF Quit
  <2>4. writeFailed' \in BOOLEAN /\ 0 \in 0..MaxRestarts
    BY <1>m, <1>14 DEF Quit, NoteFailure
  <2>5. /\ phase' = "off" /\ status' = "Unfinished" /\ old' = <<>> /\ session' = <<>>
        /\ deleted' = {} /\ needToWrite' = FALSE /\ areSorted' = TRUE
        /\ hub' = hubOnDisk' /\ restarts' = 0
        /\ UNCHANGED <<step, current, workVars, error, effect, retries, poolVars, mode,
                       undoList, kept, target, sessions, crashVars>>
    BY <1>14 DEF Quit
  <2> QED
    BY <1>t, <1>e, <2>2, <2>3, <2>4, <2>5 DEF Runner!RunnerTypeOK, Runner!TaskState
<1>15. ASSUME NEW half \in SUBSET Operations, Crash(half) PROVE SessionTypeOK'
  <2>1. LocalsGone
    BY <1>15 DEF Crash
  <2>2. effect' \in [Operations -> {"none", "partial", "done"}]
    BY <1>t, <1>15 DEF Crash
  <2>3. lost' \in SUBSET Operations
    BY <1>t, <1>15 DEF Crash
  <2>4. stray' \in SUBSET Components
    BY <1>t, <1>15 DEF Crash
  <2>5. crashes' \in 0..MaxCrashes /\ 0 \in 0..MaxRestarts
    BY <1>t, <1>m, <1>15 DEF Crash
  <2>6. /\ phase' = "off" /\ status' = "Unfinished" /\ step' = "none" /\ current' = None
        /\ old' = <<>> /\ session' = <<>> /\ undoList' = <<>> /\ kept' = <<>> /\ deleted' = {}
        /\ needToWrite' = FALSE /\ areSorted' = TRUE /\ hub' = hubOnDisk /\ restarts' = 0
        /\ UNCHANGED <<error, hubOnDisk, retries, mode, tool, target, writeFailed, sessions>>
    BY <1>15 DEF Crash
  <2> QED
    BY <1>t, <1>e, <2>1, <2>2, <2>3, <2>4, <2>5, <2>6, GoneTypes
<1>16. ASSUME (TransactionStep \/ Interrupt) /\ UNCHANGED outerVars PROVE SessionTypeOK'
  <2>1. TransactionNext /\ Control
    BY <1>t, <1>16, InnerStep DEF OuterControl, TransactionPhases
  <2> HIDE DEF TransactionTypeOK
  <2>2. TransactionTypeOK'
    BY <1>t, <2>1, TypeStep
  <2> QED
    BY <1>t, <1>16, <2>2
<1>17. CASE UNCHANGED sessionVars
  BY <1>t, <1>17 DEF sessionVars, transactionVars, Runner!RunnerTypeOK, Runner!TaskState
<1> HIDE DEF SessionTypeOK
<1> QED
  BY <1>1, <1>2, <1>3, <1>4, <1>5, <1>6, <1>7, <1>8, <1>9, <1>10, <1>11, <1>12, <1>13, <1>14,
     <1>15, <1>16, <1>17
  DEF SessionNext, BeginSession, UndoStep, EndOfSession, EndOfProcess

\* The start of the installer is one of the transaction.
LEMMA InstallStarts ==
  ASSUME NEW plan \in Plans, Install(plan)
  PROVE  TransactionNext /\ BeginInstaller(plan) /\ phase = "ready" /\ phase' = "prepared"
                         /\ UNCHANGED <<mode, undoVars>> /\ NewSession
<1>1. BeginInstaller(plan) /\ hub = {}
  BY DEF Install, BeginInstaller
<1>2. TransactionNext
  BY <1>1 DEF TransactionNext, BeginSome
<1> QED
  BY <1>1, <1>2 DEF Install, BeginInstaller, Begin

\* The main thread is where the state says, and the runner is not left running.
LEMMA OuterControlStep ==
  ASSUME EffectsInv, [SessionNext]_sessionVars
  PROVE  OuterControl' /\ PoolInStep'
<1>t. /\ SessionTypeOK /\ TransactionTypeOK /\ OuterControl /\ PoolInStep
      /\ undoList \in Seq(Operations)
  BY DEF EffectsInv, SessionTypeOK
<1>a. None \notin Operations
  BY TransactionAssumption
<1> USE DEF TransactionPhases, Removing, Working
<1>i. phase \in {"off", "ready", "preparing", "undo", "finished", "rolledBack"} =>
        /\ watched = {} /\ canceled = {} /\ ~looping /\ uncollected = {}
        /\ phase # "undo" => step = "none" /\ current = None
  BY <1>t DEF OuterControl, PoolInStep, Control
<1>o. phase \notin {"preparing", "undo"} => undoList = <<>> /\ kept = <<>>
  BY <1>t DEF OuterControl
<1>q. ASSUME UNCHANGED poolVars, watched = {}, canceled = {}, ~looping
      PROVE  /\ PoolInStep' /\ watched' = {} /\ canceled' = {} /\ ~looping'
  BY <1>t, <1>q DEF PoolInStep, Runner!WatchedUntilOver, poolVars
<1>g. ASSUME LocalsGone
      PROVE  /\ PoolInStep' /\ watched' = {} /\ canceled' = {} /\ ~looping' /\ uncollected' = {}
  BY <1>g DEF LocalsGone, PoolInStep, Runner!WatchedUntilOver
<1>s. ASSUME PoolInStep', watched' = {}, canceled' = {}, ~looping', uncollected' = {},
             step' = "none", current' = None,
             phase' \in {"off", "preparing", "finished", "ready", "prepared", "rollback"},
             phase' = "preparing" => mode' # "Installer",
             phase' # "preparing" => undoList' = <<>> /\ kept' = <<>>,
             phase' = "off" => old' = <<>> /\ session' = <<>>
      PROVE  OuterControl' /\ PoolInStep'
  BY <1>s DEF OuterControl, Control
<1>1. ASSUME NEW plan \in Plans, Install(plan) PROVE OuterControl' /\ PoolInStep'
  <2>1. TransactionNext /\ Control /\ phase = "ready" /\ phase' = "prepared"
    BY <1>t, <1>1, InstallStarts DEF OuterControl
  <2>2. Control' /\ PoolInStep'
    BY <1>t, <2>1, ControlStep, PoolInStepStep
  <2>3. UNCHANGED <<mode, undoVars>>
    BY <1>1, InstallStarts
  <2> QED
    BY <1>o, <2>1, <2>2, <2>3 DEF OuterControl, undoVars
<1>2. ASSUME \/ Uninstall
             \/ \E m \in Modes, plan \in Plans, removed \in SUBSET Components :
                  Update(m, plan, removed)
      PROVE  OuterControl' /\ PoolInStep'
  <2>1. /\ phase = "ready" /\ phase' = "preparing" /\ mode' # "Installer"
        /\ UNCHANGED <<step, current, uncollected, poolVars>>
    BY <1>2 DEF Uninstall, Update, Begin
  <2> QED
    BY <1>i, <1>q, <1>s, <2>1
<1>4. ASSUME NEW s, PreparingFails(s) PROVE OuterControl' /\ PoolInStep'
  <2>1. /\ phase = "preparing" /\ phase' \in {"rollback", "finished"}
        /\ step' = "none" /\ current' = None /\ undoList' = <<>> /\ kept' = <<>>
        /\ UNCHANGED <<uncollected, poolVars>>
    BY <1>4 DEF PreparingFails, Abandon, Throw, workVars
  <2> QED
    BY <1>i, <1>q, <1>s, <2>1
<1>5. ASSUME phase \in {"preparing", "undo"}, phase' = "undo", UNCHANGED <<poolVars, mode>>,
             uncollected' = uncollected,
             \/ step' = "check" /\ current' = None
             \/ /\ step' \in {"perform", "succeeded", "failed"}
                /\ undoList' # <<>> /\ current' = Head(undoList')
      PROVE  OuterControl' /\ PoolInStep'
  <2>1. PoolInStep' /\ watched' = {} /\ canceled' = {} /\ ~looping' /\ uncollected' = {}
    BY <1>i, <1>q, <1>5
  <2>2. mode' # "Installer"
    BY <1>t, <1>5 DEF OuterControl
  <2> QED
    BY <1>5, <2>1, <2>2 DEF OuterControl
<1>u. phase = "undo" /\ step \in {"perform", "succeeded", "failed"} =>
        undoList # <<>> /\ current = Head(undoList)
  BY <1>t DEF OuterControl
<1>6. ASSUME StartUndo PROVE OuterControl' /\ PoolInStep'
  BY <1>5, <1>6, <1>i DEF StartUndo, outerVars, workVars
<1>7. ASSUME UndoRetry \/ InterruptUndo \/ \E ok \in BOOLEAN : UndoReturns(ok)
      PROVE  OuterControl' /\ PoolInStep'
  BY <1>5, <1>7, <1>u DEF UndoRetry, InterruptUndo, UndoReturns, outerVars, undoVars, workVars
<1>8. ASSUME UndoHandled PROVE OuterControl' /\ PoolInStep'
  BY <1>5, <1>8 DEF UndoHandled, workVars
<1>9. ASSUME NEW refused, CheckUndo(refused) PROVE OuterControl' /\ PoolInStep'
  <2>1. CASE statusCanceledOrFailed \/ refused
    <3>1. /\ phase = "undo" /\ phase' \in {"rollback", "finished"}
          /\ step' = "none" /\ current' = None /\ undoList' = <<>> /\ kept' = <<>>
          /\ UNCHANGED <<uncollected, poolVars>>
      BY <1>9, <2>1 DEF CheckUndo, Abandon, Throw, workVars
    <3> QED
      BY <1>i, <1>q, <1>s, <3>1
  <2>2. CASE ~(statusCanceledOrFailed \/ refused)
    <3>1. /\ phase = "undo" /\ phase' = "undo" /\ undoList # <<>> /\ UNCHANGED <<undoList, mode>>
          /\ current' = Head(undoList) /\ step' = "perform"
          /\ UNCHANGED <<uncollected, poolVars>>
      BY <1>9, <2>2 DEF CheckUndo, workVars
    <3> QED
      BY <1>5, <3>1
  <2> QED
    BY <2>1, <2>2
<1>10. ASSUME UndoDone \/ UninstallDone PROVE OuterControl' /\ PoolInStep'
  <2>1. /\ phase = "undo" /\ step = "check" /\ undoList = <<>> /\ undoList' = <<>> /\ kept' = <<>>
        /\ phase' \in {"prepared", "finished"} /\ step' = "none" /\ current' = current
        /\ UNCHANGED <<uncollected, poolVars>>
    BY <1>10 DEF UndoDone, UninstallDone, workVars
  <2>2. current = None
    BY <1>t, <2>1 DEF OuterControl
  <2> QED
    BY <1>i, <1>q, <1>s, <2>1, <2>2
<1>11. ASSUME UpdaterDone \/ \E outcome \in Outcomes : InstallerDone(outcome)
       PROVE  OuterControl' /\ PoolInStep'
  <2>1. /\ phase = "installed" /\ phase' = "finished" /\ LocalsGone
        /\ UNCHANGED <<step, current, undoVars>>
    BY <1>11 DEF UpdaterDone, InstallerDone
  <2>2. step = "none" /\ current = None
    BY <1>t, <2>1 DEF OuterControl, Control
  <2> QED
    BY <1>o, <1>g, <1>s, <2>1, <2>2 DEF undoVars
<1>12. ASSUME SessionAborted \/ Launch \/ \E outcome \in Outcomes : Restart(outcome) \/ Quit(outcome)
       PROVE  OuterControl' /\ PoolInStep'
  <2>1. /\ phase \in {"rolledBack", "off", "finished"} /\ phase' \in {"finished", "ready", "off"}
        /\ UNCHANGED <<step, current, uncollected, poolVars, undoList, kept>>
        /\ phase' = "off" => old' = <<>> /\ session' = <<>>
    BY <1>12 DEF SessionAborted, Launch, Restart, Quit, outerVars, undoVars, workVars
  <2> QED
    BY <1>i, <1>o, <1>q, <1>s, <2>1
<1>13. ASSUME \E half \in SUBSET Operations : Crash(half) PROVE OuterControl' /\ PoolInStep'
  <2>1. /\ phase' = "off" /\ step' = "none" /\ current' = None /\ undoList' = <<>> /\ kept' = <<>>
        /\ old' = <<>> /\ session' = <<>> /\ LocalsGone
    BY <1>13 DEF Crash
  <2> QED
    BY <1>g, <1>s, <2>1
<1>14. ASSUME (TransactionStep \/ Interrupt) /\ UNCHANGED outerVars
       PROVE  OuterControl' /\ PoolInStep'
  <2>1. TransactionNext /\ Control /\ phase \notin Removing /\ phase' \in TransactionPhases
    BY <1>t, <1>14, InnerStep DEF OuterControl
  <2>2. phase' \notin {"off", "preparing", "undo", "finished"}
    BY <1>14, InnerStep
  <2>3. Control' /\ PoolInStep'
    BY <1>t, <2>1, ControlStep, PoolInStepStep
  <2> QED
    BY <1>o, <1>14, <2>1, <2>2, <2>3 DEF OuterControl, outerVars, undoVars
<1>15. CASE UNCHANGED sessionVars
  <2>1. UNCHANGED <<flowVars, workVars, poolVars, undoList, kept, mode, old, session>>
    BY <1>15 DEF sessionVars, transactionVars, outerVars, undoVars
  <2> QED
    BY <1>t, <2>1 DEF OuterControl, Control, PoolInStep, Runner!WatchedUntilOver, flowVars,
                      workVars, poolVars
<1> QED
  BY <1>1, <1>2, <1>4, <1>6, <1>7, <1>8, <1>9, <1>10, <1>11, <1>12, <1>13, <1>14, <1>15
  DEF SessionNext, BeginSession, UndoStep, EndOfSession, EndOfProcess

\* What runPackageUpdater() undoes and what it keeps make up what it has.
LEMMA PartsOfOld ==
  ASSUME NEW ops \in Seq(Operations), NEW keep \in SUBSET Operations,
         NEW rest, rest = Operations \ keep
  PROVE  ToSet(Only(ops, keep)) \cup ToSet(Reverse(Only(ops, rest))) = ToSet(ops)
<1>1. ToSet(ops) \subseteq Operations
  BY LenProperties, ElementOfSeq DEF ToSet
<1>2. ToSet(Only(ops, keep)) = ToSet(ops) \cap keep
  BY OnlyKeeps
<1>3. ToSet(Reverse(Only(ops, rest))) = ToSet(ops) \cap rest
  BY OnlyKeeps, ReverseProperties
<1> QED
  BY <1>1, <1>2, <1>3

\* The start of runPackageUpdater() splits its list in two.
LEMMA UpdateSplits ==
  ASSUME old \in Seq(Operations), NEW m, NEW plan, NEW removed, Update(m, plan, removed)
  PROVE  \E ops \in Seq(Operations) :
           /\ ToSet(ops) = ToSet(old)
           /\ IsInjective(old) => IsInjective(ops)
           /\ RequirementsFirst(old) => RequirementsFirst(ops)
           /\ kept' = Only(ops, {op \in Operations : Keeps(m, op, plan, removed)})
           /\ undoList' = Reverse(Only(ops, {op \in Operations : ~Keeps(m, op, plan, removed)}))
           /\ ToSet(kept') \cup ToSet(undoList') = ToSet(old)
<1> DEFINE ops == IF areSorted THEN old ELSE SortOperations(old)
<1>1. /\ ops \in Seq(Operations) /\ ToSet(ops) = ToSet(old)
      /\ IsInjective(old) => IsInjective(ops)
      /\ RequirementsFirst(old) => RequirementsFirst(ops)
  BY SortKeeps
<1>2. /\ kept' = Only(ops, {op \in Operations : Keeps(m, op, plan, removed)})
      /\ undoList' = Reverse(Only(ops, {op \in Operations : ~Keeps(m, op, plan, removed)}))
  BY DEF Update
<1> HIDE DEF ops
<1> DEFINE keep == {op \in Operations : Keeps(m, op, plan, removed)}
           rest == {op \in Operations : ~Keeps(m, op, plan, removed)}
<1>3. keep \in SUBSET Operations /\ rest = Operations \ keep
  OBVIOUS
<1>4. kept' = Only(ops, keep) /\ undoList' = Reverse(Only(ops, rest))
  BY <1>2
<1> HIDE DEF keep, rest
<1>5. ToSet(kept') \cup ToSet(undoList') = ToSet(ops)
  BY <1>1, <1>3, <1>4, PartsOfOld
<1> QED
  BY <1>1, <1>2, <1>5

\* No step of a session, no end and no start of a process loses sight of what an
\* operation has done.
LEMMA EffectsAcrossStep ==
  ASSUME EffectsInv, [SessionNext]_sessionVars
  PROVE  /\ phase' # "off" => FailuresAccounted'
         /\ EffectsTrackedAcrossProcesses' /\ UndoInStep'
<1>t. /\ SessionTypeOK /\ TransactionTypeOK /\ OuterControl /\ UndoInStep
      /\ EffectsTrackedAcrossProcesses /\ effect \in [Operations -> {"none", "partial", "done"}]
      /\ old \in Seq(Operations) /\ session \in Seq(Operations) /\ undoList \in Seq(Operations)
      /\ lost \in SUBSET Operations
  BY DEF EffectsInv, SessionTypeOK, TransactionTypeOK
<1>a. BadArguments \subseteq Operations /\ UnpackOps \subseteq Operations /\ None \notin Operations
  BY TransactionAssumption
<1>e. ToSet(<<>>) = {}
  BY DEF ToSet
<1> USE DEF Removing
<1>u. phase = "undo" /\ step \in {"perform", "succeeded", "failed"} =>
        /\ current \in Operations /\ current \in ToSet(undoList)
        /\ ToSet(undoList) = {current} \cup ToSet(Tail(undoList))
  BY <1>t, HeadTailInSeq, ToSetHeadTail DEF OuterControl
<1>k. phase \in {"ready", "preparing", "undo", "installed", "rolledBack", "finished"} =>
        \A op \in Operations : effect[op] # "none" => op \in Recorded \cup lost
  <2> SUFFICES ASSUME phase \in {"ready", "preparing", "undo", "installed", "rolledBack", "finished"}
               PROVE  \A op \in Operations : effect[op] # "none" => op \in Recorded \cup lost
    OBVIOUS
  <2>1. uncollected = {} /\ (phase # "undo" => current = None)
    BY <1>t DEF OuterControl, Control, TransactionPhases, Working
  <2>2. phase = "undo" => current = None \/ current \in Recorded
    BY <1>t, <1>u DEF OuterControl, UndoInStep, Recorded
  <2> QED
    BY <1>t, <2>1, <2>2 DEF EffectsTrackedAcrossProcesses, InFlight
<1>f. ASSUME \A op \in Operations : effect'[op] # "none" => op \in Recorded' \cup lost',
             phase' \notin {"off", "unpack", "collect"},
             step' = "failed" => current' \in Operations
      PROVE  FailuresAccounted' /\ EffectsTrackedAcrossProcesses'
  BY <1>a, <1>f DEF FailuresAccounted, EffectsTrackedAcrossProcesses, SafeToDrop
<1>q. ASSUME UNCHANGED <<effect, lost, old, session>>,
             phase \in {"ready", "preparing", "undo", "installed", "rolledBack", "finished"},
             phase' \notin {"off", "unpack", "collect"},
             step' = "failed" => current' \in Operations
      PROVE  FailuresAccounted' /\ EffectsTrackedAcrossProcesses'
  BY <1>f, <1>k, <1>q DEF Recorded
<1>1. ASSUME \/ (TransactionStep \/ Interrupt) /\ UNCHANGED outerVars
             \/ \E plan \in Plans : Install(plan)
      PROVE  /\ phase' # "off" => FailuresAccounted'
             /\ EffectsTrackedAcrossProcesses' /\ UndoInStep'
  <2>1. TransactionNext /\ phase \in TransactionPhases /\ phase' \notin Removing
    BY <1>1, InnerStep, InstallStarts DEF TransactionPhases, Working
  <2>2. TransactionInv
    BY <2>1, InnerInv
  <2>3. FailuresAccounted' /\ EffectsTracked'
    BY <2>1, <2>2, EffectsStep
  <2> QED
    BY <2>1, <2>3 DEF EffectsTracked, EffectsTrackedAcrossProcesses, UndoInStep
<1>2. ASSUME NEW m \in Modes, NEW plan \in Plans, NEW removed \in SUBSET Components,
             Update(m, plan, removed)
      PROVE  FailuresAccounted' /\ EffectsTrackedAcrossProcesses' /\ UndoInStep'
  <2>1. /\ phase = "ready" /\ phase' = "preparing" /\ UNCHANGED <<effect, lost, old, session, step, current>>
    BY <1>2 DEF Update, Begin
  <2>2. step = "none"
    BY <1>t, <2>1 DEF OuterControl, Control, TransactionPhases, Working
  <2>3. ToSet(kept') \cup ToSet(undoList') = ToSet(old)
    BY <1>t, <1>2, UpdateSplits
  <2>4. UndoInStep'
    BY <2>1, <2>3 DEF UndoInStep
  <2> QED
    BY <1>q, <2>1, <2>2, <2>4
<1>3. ASSUME Uninstall
      PROVE  FailuresAccounted' /\ EffectsTrackedAcrossProcesses' /\ UndoInStep'
  <2>1. /\ phase = "ready" /\ phase' = "preparing" /\ UNCHANGED <<effect, lost, old, session, step, current>>
        /\ kept' = old /\ undoList' = Reverse(old)
    BY <1>3 DEF Uninstall, Begin
  <2>2. step = "none"
    BY <1>t, <2>1 DEF OuterControl, Control, TransactionPhases, Working
  <2>3. ToSet(undoList') = ToSet(old)
    BY <1>t, <2>1, ReverseProperties
  <2>4. UndoInStep'
    BY <2>1, <2>3 DEF UndoInStep
  <2> QED
    BY <1>q, <2>1, <2>2, <2>4
<1>4. ASSUME \/ \E s \in {"Running", "Canceled"} : PreparingFails(s)
             \/ StartUndo \/ InterruptUndo \/ UndoRetry \/ \E flag \in BOOLEAN : CheckUndo(flag)
      PROVE  FailuresAccounted' /\ EffectsTrackedAcrossProcesses' /\ UndoInStep'
  <2>1. /\ phase \in Removing /\ UNCHANGED <<effect, lost, old, session>>
        /\ phase' \in {"preparing", "undo", "rollback", "finished"} /\ step' # "failed"
        /\ phase' \in Removing => UNCHANGED <<undoList, kept>>
    BY <1>4 DEF PreparingFails, StartUndo, InterruptUndo, UndoRetry, CheckUndo, Abandon, Throw,
                machineVars, outerVars, undoVars
  <2>2. UndoInStep'
    BY <1>t, <2>1 DEF UndoInStep
  <2> QED
    BY <1>q, <2>1, <2>2
<1>5. ASSUME NEW ok \in BOOLEAN, UndoReturns(ok)
      PROVE  FailuresAccounted' /\ EffectsTrackedAcrossProcesses' /\ UndoInStep'
  <2>1. /\ phase = "undo" /\ phase' = "undo" /\ step = "perform"
        /\ UNCHANGED <<lost, old, session, undoList, kept, current>>
        /\ effect' = [effect EXCEPT ![current] = IF ok THEN "none" ELSE effect[current]]
    BY <1>5 DEF UndoReturns, outerVars, undoVars
  <2>2. \A op \in Operations : effect'[op] # "none" => effect[op] # "none"
    BY <1>t, <2>1
  <2>3. ToSet(old) \subseteq Operations
    BY <1>t, LenProperties, ElementOfSeq DEF ToSet
  <2>4. UndoInStep'
    BY <1>t, <2>1, <2>2, <2>3 DEF UndoInStep
  <2> QED
    BY <1>f, <1>k, <1>u, <2>1, <2>2, <2>4 DEF Recorded
<1>6. ASSUME UndoHandled
      PROVE  FailuresAccounted' /\ EffectsTrackedAcrossProcesses' /\ UndoInStep'
  <2>1. /\ phase = "undo" /\ phase' = "undo" /\ step \in {"succeeded", "failed"}
        /\ step' = "check" /\ undoList' = Tail(undoList)
        /\ UNCHANGED <<effect, old, session, kept>>
        /\ lost' = IF effect[current] = "none" THEN lost \ {current} ELSE lost \cup {current}
    BY <1>6 DEF UndoHandled
  <2>2. \A op \in Operations : effect[op] # "none" => (op \in lost => op \in lost')
    BY <2>1
  <2>3. ToSet(old) \subseteq Operations
    BY <1>t, LenProperties, ElementOfSeq DEF ToSet
  <2>4. UndoInStep'
    BY <1>t, <1>u, <2>1, <2>2, <2>3 DEF UndoInStep
  <2> QED
    BY <1>f, <1>k, <2>1, <2>2, <2>4 DEF Recorded
<1>7. ASSUME UndoDone
      PROVE  FailuresAccounted' /\ EffectsTrackedAcrossProcesses' /\ UndoInStep'
  <2>1. /\ phase = "undo" /\ phase' = "prepared" /\ step' = "none" /\ undoList = <<>>
        /\ UNCHANGED <<effect, lost, session>> /\ old' = kept
    BY <1>7 DEF UndoDone, machineVars
  <2>2. \A op \in Operations : effect[op] # "none" => op \in ToSet(kept) \cup ToSet(session) \cup lost
    BY <1>t, <1>e, <1>k, <2>1 DEF UndoInStep, Recorded
  <2> QED
    BY <1>f, <2>1, <2>2 DEF Recorded, UndoInStep
<1>8. ASSUME UninstallDone \/ SessionAborted
      PROVE  FailuresAccounted' /\ EffectsTrackedAcrossProcesses' /\ UndoInStep'
  <2>1. /\ phase \in {"undo", "rolledBack"} /\ phase' = "finished"
        /\ UNCHANGED <<effect, lost, old, session>>
        /\ step' = "none" \/ (phase = "rolledBack" /\ step' = step)
    BY <1>8 DEF UninstallDone, SessionAborted, machineVars
  <2>2. phase = "rolledBack" => step = "none"
    BY <1>t DEF OuterControl, Control, TransactionPhases, Working
  <2> QED
    BY <1>q, <2>1, <2>2 DEF UndoInStep
<1>9. ASSUME \/ old' = old \o session /\ session' = <<>>
             \/ UNCHANGED <<old, session>>
      PROVE  Recorded' = Recorded
  <2>1. ToSet(old \o session) = ToSet(old) \cup ToSet(session)
    BY <1>t, ToSetConcat
  <2> QED
    BY <1>9, <1>e, <2>1 DEF Recorded
<1>10. ASSUME \/ UpdaterDone
              \/ \E outcome \in Outcomes : InstallerDone(outcome) \/ Restart(outcome)
       PROVE  FailuresAccounted' /\ EffectsTrackedAcrossProcesses' /\ UndoInStep'
  <2>1. /\ phase \in {"installed", "finished"} /\ phase' \in {"finished", "ready"}
        /\ UNCHANGED <<effect, lost, step>>
        /\ \/ old' = old \o session /\ session' = <<>>
           \/ UNCHANGED <<old, session>>
    BY <1>10 DEF UpdaterDone, InstallerDone, Restart, WriteToolIfNeeded, WriteTool, machineVars
  <2>2. step = "none"
    BY <1>t, <2>1 DEF OuterControl, Control, TransactionPhases, Working
  <2> QED
    BY <1>9, <1>f, <1>k, <2>1, <2>2 DEF UndoInStep
<1>11. ASSUME NEW outcome \in Outcomes, Quit(outcome)
       PROVE  EffectsTrackedAcrossProcesses' /\ phase' = "off" /\ UndoInStep'
  <2>1. /\ phase = "finished" /\ phase' = "off" /\ effect' = effect
        /\ lost' = lost \cup {op \in ToSet(old \o session) :
             effect[op] # "none" /\ op \notin (IF tool' = None THEN {} ELSE ToSet(tool'))}
    BY <1>11 DEF Quit
  <2>2. ToSet(old \o session) = Recorded
    BY <1>t, ToSetConcat DEF Recorded
  <2>3. \A op \in Operations : effect[op] # "none" =>
          op \in lost' \cup (IF tool' = None THEN {} ELSE ToSet(tool'))
    BY <1>k, <2>1, <2>2
  <2> QED
    BY <2>1, <2>3 DEF EffectsTrackedAcrossProcesses, UndoInStep
<1>12. ASSUME NEW half \in SUBSET Operations, Crash(half)
       PROVE  EffectsTrackedAcrossProcesses' /\ phase' = "off" /\ UndoInStep'
  <2>1. /\ phase' = "off" /\ tool' = tool
        /\ lost' = lost \cup {op \in Operations :
             effect'[op] # "none" /\ op \notin (IF tool = None THEN {} ELSE ToSet(tool))}
    BY <1>12 DEF Crash
  <2> QED
    BY <2>1 DEF EffectsTrackedAcrossProcesses, UndoInStep
<1>13. ASSUME Launch
       PROVE  FailuresAccounted' /\ EffectsTrackedAcrossProcesses' /\ UndoInStep'
  <2>1. /\ phase = "off" /\ tool # None /\ old' = tool /\ phase' = "ready"
        /\ UNCHANGED <<effect, lost, session, step, current>>
    BY <1>13 DEF Launch, machineVars
  <2>2. step = "none" /\ InFlight = {}
    BY <1>t, <2>1 DEF OuterControl, InFlight, TransactionPhases, Working
  <2>4. ToSet(old) = {}
    BY <1>t, <1>e, <2>1 DEF OuterControl
  <2>3. \A op \in Operations : effect[op] # "none" => op \in ToSet(old) \cup ToSet(session) \cup lost \cup ToSet(tool)
    BY <1>t, <2>1, <2>2 DEF EffectsTrackedAcrossProcesses, Recorded
  <2> QED
    BY <1>f, <2>1, <2>2, <2>3, <2>4 DEF UndoInStep, Recorded
<1>14. CASE UNCHANGED sessionVars
  <2>1. UNCHANGED <<flowVars, workVars, old, session, machineVars, task, value, canceled, results,
                    undoList, kept, tool>>
    BY <1>14 DEF sessionVars, transactionVars, outerVars, undoVars, toolVars, poolVars
  <2> QED
    BY <1>t, <2>1 DEF EffectsInv, FailuresAccounted, SafeToDrop, EffectsTrackedAcrossProcesses,
                      UndoInStep, Recorded, InFlight, flowVars, workVars, machineVars
<1> QED
  BY <1>1, <1>2, <1>3, <1>4, <1>5, <1>6, <1>7, <1>8, <1>10, <1>11, <1>12, <1>13, <1>14
  DEF SessionNext, BeginSession, UndoStep, EndOfSession, EndOfProcess

\* The invariant about control, types and effects.
LEMMA EffectsInvStep ==
  ASSUME EffectsInv, [SessionNext]_sessionVars
  PROVE  EffectsInv'
  BY SessionTypeStep, OuterControlStep, EffectsAcrossStep DEF EffectsInv

LEMMA EffectsInvariant == SessionSpec => []EffectsInv
  BY EffectsInvInit, EffectsInvStep, PTL DEF SessionSpec

\* The state of a process keeps its types, across sessions and relaunches.
THEOREM SessionTypeCorrect == SessionSpec => []SessionTypeOK
  BY EffectsInvariant, PTL DEF EffectsInv

\* Across sessions, restarts, crashes and relaunches the effect of an operation is
\* never forgotten: it is recorded in the lists of the process or, between processes,
\* in the maintenance tool, or it is being handled, or it was given up.
THEOREM NoEffectForgottenAcross == SessionSpec => []EffectsTrackedAcrossProcesses
  BY EffectsInvariant, PTL DEF EffectsInv

-----------------------------------------------------------------------------
(* The records and their order                                             *)

\* The session's own list is empty but while a session installs, and after a tool
\* that could not be written. No list names an operation twice, and what is kept of
\* the old one is not of a component that will be installed again.
SessionLists ==
  /\ PlanInStep /\ ListsInStep
  /\ phase \in Removing => session = <<>>
  /\ phase = "finished" /\ (mode # "Installer" \/ ~writeFailed) => session = <<>>
  /\ phase \in Removing =>
       IsInjective(kept) /\ \A op \in ToSet(kept) : ComponentOf[op] \notin ToSet(toInstall)
  /\ tool # None => IsInjective(tool)

\* The list that is written into the tool names each operation once and requirements
\* first.
LEMMA WriteToolSorted ==
  ASSUME old \in Seq(Operations), session \in Seq(Operations), NEW outcome,
         WriteToolIfNeeded(outcome) \/ WriteTool(outcome),
         IsInjective(old \o session), tool # None => IsInjective(tool),
         tool # None => RequirementsFirst(tool)
  PROVE  /\ IsInjective(old' \o session') /\ (session = <<>> => session' = <<>>)
         /\ tool' # None => IsInjective(tool') /\ RequirementsFirst(tool')
<1>1. CASE /\ tool' = SortOperations(old \o session)
           /\ old' = old \o session /\ session' = <<>>
  <2>1. old \o session \in Seq(Operations)
    BY ConcatProperties
  <2>2. /\ IsInjective(SortOperations(old \o session))
        /\ RequirementsFirst(SortOperations(old \o session))
    BY <2>1, SortKeeps
  <2>3. (old \o session) \o <<>> = old \o session
    BY <2>1, ConcatEmptySeq
  <2> QED
    BY <1>1, <2>2, <2>3
<1>2. CASE UNCHANGED <<tool, old, session>>
  BY <1>2
<1> QED
  BY <1>1, <1>2 DEF WriteToolIfNeeded, WriteTool, toolVars

\* Every step of a session and between sessions keeps the lists so.
LEMMA SessionListsStep ==
  ASSUME EffectsInv, SessionLists, tool # None => RequirementsFirst(tool),
         [SessionNext]_sessionVars
  PROVE  SessionLists'
<1>t. /\ SessionTypeOK /\ OuterControl
      /\ old \in Seq(Operations) /\ session \in Seq(Operations) /\ kept \in Seq(Operations)
      /\ toInstall \in Seq(Components)
      /\ tool # None => tool \in Seq(Operations) /\ IsInjective(tool)
  BY DEF EffectsInv, SessionTypeOK, TransactionTypeOK, SessionLists
<1>i. IsInjective(old \o session) /\ IsInjective(toInstall)
  BY DEF SessionLists, ListsInStep, RecordedOnce, PlanInStep, IsInjective
<1>e. ToSet(<<>>) = {} /\ IsInjective(<<>>) /\ <<>> \in Seq(Operations)
  BY EmptySeq DEF ToSet, IsInjective
<1>o. session = <<>> => IsInjective(old)
  BY <1>t, <1>i, ConcatEmptySeq
<1> USE DEF Removing
<1>u. phase' # "collect" => uncollected' = {}
  BY OuterControlStep DEF OuterControl, Control
<1>s. ASSUME phase' \in {"off", "preparing", "undo", "finished", "ready", "rollback"},
             IsInjective(toInstall'), IsInjective(old' \o session'),
             tool' # None => IsInjective(tool'),
             phase' \in {"ready", "preparing", "undo"} => session' = <<>>,
             phase' = "finished" /\ (mode' # "Installer" \/ ~writeFailed') => session' = <<>>,
             phase' \in Removing =>
               IsInjective(kept') /\ \A op \in ToSet(kept') : ComponentOf[op] \notin ToSet(toInstall')
      PROVE  SessionLists'
  <2>1. PlanInStep'
    BY <1>s, <1>u DEF PlanInStep
  <2>2. RecordedOnce'
    BY <1>s DEF RecordedOnce, IsInjective
  <2>3. ListsInStep'
    BY <1>s, <2>2 DEF ListsInStep, Working
  <2> QED
    BY <1>s, <2>1, <2>3 DEF SessionLists
<1>1. ASSUME NEW plan \in Plans, Install(plan) PROVE SessionLists'
  <2>1. /\ TransactionNext /\ BeginInstaller(plan) /\ phase = "ready" /\ phase' = "prepared"
        /\ UNCHANGED <<tool, mode>>
    BY <1>1, InstallStarts DEF NewSession, toolVars
  <2>2. TransactionInv
    BY <2>1, InnerInv DEF TransactionPhases
  <2>3. PlanInStep'
    BY <2>1, <2>2, PlanStep DEF SessionLists
  <2>4. HubInStep
    <3>1. old = <<>> /\ session = <<>> /\ hub = {}
      BY <2>1 DEF BeginInstaller, SessionLists, PlanInStep
    <3> QED
      BY <1>e, <2>1, <3>1 DEF HubInStep, Working
  <2>5. ListsInStep'
    BY <2>1, <2>2, <2>4, ListsStep DEF SessionLists
  <2> QED
    BY <1>t, <2>1, <2>3, <2>5 DEF SessionLists
<1>2. ASSUME NEW m \in Modes, NEW plan \in Plans, NEW removed \in SUBSET Components,
             Update(m, plan, removed)
      PROVE  SessionLists'
  <2>1. /\ phase = "ready" /\ phase' = "preparing" /\ toInstall' = plan
        /\ UNCHANGED <<old, session, tool>>
    BY <1>2 DEF Update, Begin, NewSession, toolVars
  <2>2. session = <<>>
    BY <2>1 DEF SessionLists, PlanInStep
  <2>3. IsInjective(plan) /\ None \notin ToSet(plan)
    <3>1. plan \in Seq(Components) /\ None \notin Components
      BY TransactionAssumption
    <3> QED
      BY <3>1, ProductAssumption, LenProperties, ElementOfSeq DEF ToSet
  <2>4. PICK ops \in Seq(Operations) :
          /\ IsInjective(old) => IsInjective(ops)
          /\ kept' = Only(ops, {op \in Operations : Keeps(m, op, plan, removed)})
    BY <1>t, <1>2, UpdateSplits
  <2>5. /\ IsInjective(kept')
        /\ ToSet(kept') \subseteq {op \in Operations : Keeps(m, op, plan, removed)}
    BY <1>o, <2>2, <2>4, OnlyKeeps, OrderKeepsInjective
  <2>6. \A op \in ToSet(kept') : ComponentOf[op] \notin ToSet(plan)
    BY <2>3, <2>5 DEF Keeps
  <2> QED
    BY <1>i, <1>s, <1>t, <2>1, <2>2, <2>3, <2>5, <2>6
<1>3. ASSUME Uninstall PROVE SessionLists'
  <2>1. /\ phase = "ready" /\ phase' = "preparing" /\ toInstall' = <<>> /\ kept' = old
        /\ UNCHANGED <<old, session, tool>>
    BY <1>3 DEF Uninstall, Begin, NewSession, toolVars
  <2>2. session = <<>>
    BY <2>1 DEF SessionLists, PlanInStep
  <2> QED
    BY <1>e, <1>i, <1>o, <1>s, <1>t, <2>1, <2>2
<1>4. ASSUME \/ \E s \in {"Running", "Canceled"} : PreparingFails(s)
             \/ StartUndo \/ InterruptUndo \/ UndoRetry \/ UndoHandled
             \/ \E flag \in BOOLEAN : CheckUndo(flag) \/ UndoReturns(flag)
      PROVE  SessionLists'
  <2>1. /\ phase \in Removing /\ phase' \in {"preparing", "undo", "rollback", "finished"}
        /\ UNCHANGED <<old, session, toInstall, tool>>
        /\ phase' \in Removing => kept' = kept
    BY <1>4 DEF PreparingFails, StartUndo, InterruptUndo, UndoRetry, UndoHandled, CheckUndo,
                UndoReturns, Abandon, Throw, workVars, outerVars, undoVars, toolVars
  <2>2. session = <<>>
    BY <2>1 DEF SessionLists
  <2>3. phase' \in Removing =>
           IsInjective(kept') /\ \A op \in ToSet(kept') : ComponentOf[op] \notin ToSet(toInstall')
    BY <2>1 DEF SessionLists
  <2> QED
    BY <1>i, <1>s, <1>t, <2>1, <2>2, <2>3
<1>5. ASSUME UndoDone PROVE SessionLists'
  <2>1. /\ phase = "undo" /\ phase' = "prepared" /\ old' = kept
        /\ UNCHANGED <<session, toInstall, tool>>
    BY <1>5 DEF UndoDone, workVars, toolVars
  <2>2. /\ session = <<>> /\ IsInjective(kept)
        /\ \A op \in ToSet(kept) : ComponentOf[op] \notin ToSet(toInstall)
    BY <2>1 DEF SessionLists
  <2>3. PlanInStep'
    BY <1>i, <1>u, <2>1 DEF PlanInStep
  <2>4. IsInjective(kept \o <<>>)
    BY <1>t, <2>2, ConcatEmptySeq
  <2>5. RecordedOnce'
    BY <2>1, <2>2, <2>4 DEF RecordedOnce, IsInjective
  <2>6. ListsInStep'
    BY <1>e, <2>1, <2>2, <2>5 DEF ListsInStep, Working
  <2> QED
    BY <1>t, <2>1, <2>3, <2>6 DEF SessionLists
<1>6. ASSUME UninstallDone \/ SessionAborted PROVE SessionLists'
  <2>1. /\ phase \in {"undo", "rolledBack"} /\ phase' = "finished"
        /\ UNCHANGED <<old, session, toInstall>> /\ tool' \in {tool, None}
    BY <1>6 DEF UninstallDone, SessionAborted, workVars, outerVars, toolVars
  <2>2. session = <<>>
    BY <2>1 DEF SessionLists, PlanInStep
  <2> QED
    BY <1>i, <1>s, <1>t, <2>1, <2>2
<1>7. ASSUME UpdaterDone PROVE SessionLists'
  <2>1. /\ phase' = "finished" /\ toInstall' = <<>> /\ tool' = tool
        /\ old' = old \o session /\ session' = <<>>
    BY <1>7 DEF UpdaterDone, LocalsGone
  <2>2. IsInjective(old' \o session')
    <3>1. old \o session \in Seq(Operations)
      BY <1>t, ConcatProperties
    <3> QED
      BY <1>i, <2>1, <3>1, ConcatEmptySeq
  <2> QED
    BY <1>e, <1>s, <1>t, <2>1, <2>2
<1>8. ASSUME NEW outcome \in Outcomes, InstallerDone(outcome) PROVE SessionLists'
  <2>1. /\ phase' = "finished" /\ toInstall' = <<>> /\ mode = "Installer" /\ mode' = mode
        /\ WriteTool(outcome) /\ writeFailed' = (writeFailed \/ outcome # "written")
    BY <1>8 DEF InstallerDone, LocalsGone, NoteFailure
  <2>2. ~writeFailed' => session' = <<>>
    BY <2>1 DEF WriteTool
  <2>3. IsInjective(old' \o session') /\ (tool' # None => IsInjective(tool'))
    BY <1>i, <1>t, <2>1, WriteToolSorted
  <2> QED
    BY <1>e, <1>s, <2>1, <2>2, <2>3
<1>9. ASSUME NEW outcome \in Outcomes, Restart(outcome) PROVE SessionLists'
  <2>1. /\ phase = "finished" /\ phase' = "ready" /\ toInstall' = toInstall /\ mode # "Installer"
        /\ WriteToolIfNeeded(outcome)
    BY <1>9 DEF Restart, workVars
  <2>2. session = <<>>
    BY <2>1 DEF SessionLists
  <2>3. /\ IsInjective(old' \o session') /\ (tool' # None => IsInjective(tool'))
        /\ session' = <<>>
    BY <1>i, <1>t, <2>1, <2>2, WriteToolSorted
  <2> QED
    BY <1>i, <1>s, <2>1, <2>3
<1>10. ASSUME NEW outcome \in Outcomes, Quit(outcome) PROVE SessionLists'
  <2>1. /\ phase' = "off" /\ toInstall' = toInstall /\ old' = <<>> /\ session' = <<>>
        /\ tool' = tool \/ tool' = SortOperations(old \o session)
    BY <1>10 DEF Quit, workVars
  <2>2. IsInjective(SortOperations(old \o session))
    BY <1>i, <1>t, ConcatProperties, SortKeeps
  <2>3. IsInjective(old' \o session')
    BY <1>e, <2>1, ConcatEmptySeq
  <2> QED
    BY <1>i, <1>s, <1>t, <2>1, <2>2, <2>3
<1>11. ASSUME NEW half \in SUBSET Operations, Crash(half) PROVE SessionLists'
  <2>1. /\ phase' = "off" /\ toInstall' = <<>> /\ old' = <<>> /\ session' = <<>> /\ tool' = tool
    BY <1>11 DEF Crash, LocalsGone
  <2>2. IsInjective(old' \o session')
    BY <1>e, <2>1, ConcatEmptySeq
  <2> QED
    BY <1>e, <1>s, <1>t, <2>1, <2>2
<1>12. ASSUME Launch PROVE SessionLists'
  <2>1. /\ phase = "off" /\ phase' = "ready" /\ tool # None /\ old' = tool
        /\ UNCHANGED <<session, toInstall, tool>>
    BY <1>12 DEF Launch, workVars, toolVars
  <2>2. session = <<>>
    BY <1>t, <2>1 DEF OuterControl
  <2>3. IsInjective(old' \o session')
    BY <1>t, <2>1, <2>2, ConcatEmptySeq
  <2> QED
    BY <1>i, <1>s, <1>t, <2>1, <2>2, <2>3
<1>13. ASSUME (TransactionStep \/ Interrupt) /\ UNCHANGED outerVars PROVE SessionLists'
  <2>1. /\ TransactionNext /\ phase \in TransactionPhases /\ phase # "ready"
        /\ phase' \notin {"preparing", "undo", "finished"} /\ tool' = tool
    BY <1>13, InnerStep DEF TransactionPhases, Working, outerVars, toolVars
  <2>2. TransactionInv
    BY <2>1, InnerInv
  <2>3. PlanInStep' /\ ListsInStep'
    BY <2>1, <2>2, PlanStep, ListsStep DEF SessionLists
  <2> QED
    BY <1>t, <2>1, <2>3 DEF SessionLists
<1>14. CASE UNCHANGED sessionVars
  <2>1. UNCHANGED <<phase, current, toInstall, opsLeft, uncollected, old, session, task, kept, tool,
                    mode, writeFailed>>
    BY <1>14 DEF sessionVars, transactionVars, outerVars, undoVars, toolVars, poolVars, flowVars,
                 workVars, countVars
  <2> QED
    BY <2>1 DEF SessionLists, PlanInStep, ListsInStep, RecordedOnce, Working
<1> QED
  BY <1>1, <1>2, <1>3, <1>4, <1>5, <1>6, <1>7, <1>8, <1>9, <1>10, <1>11, <1>12, <1>13, <1>14
  DEF SessionNext, BeginSession, UndoStep, EndOfSession, EndOfProcess

\* The tool lists requirements first, and so does the list of a process that has just
\* been started; hence it undoes dependents first.
OrderInStep ==
  /\ tool # None => RequirementsFirst(tool)
  /\ phase = "ready" /\ mode # "Installer" /\ restarts = 0 => RequirementsFirst(old)
  /\ FirstUndoesDependentsFirst

\* What is undone comes in the reverse order of the list that it is taken from.
LEMMA ReversedDependentsFirst ==
  ASSUME NEW ops \in Seq(Operations), RequirementsFirst(ops), NEW keep, NEW part \in Seq(Operations),
         part = ops \/ part = Only(ops, keep), undoList' = Reverse(part)
  PROVE  DependentsUndoneFirst'
<1>1. RequirementsFirst(part)
  <2>1. CASE part = ops
    BY <2>1
  <2>2. CASE part = Only(ops, keep)
    <3>1. InOrderOf(part, ops)
      BY <2>2, OnlyKeeps
    <3>2. ASSUME NEW i \in DOMAIN part, NEW j \in DOMAIN part, i < j, ComponentOf[part[i]] \in Components
          PROVE  ComponentOf[part[j]] \notin Requires[ComponentOf[part[i]]]
      <4>1. PICK p, q \in DOMAIN ops : p < q /\ ops[p] = part[i] /\ ops[q] = part[j]
        BY <3>1, <3>2 DEF InOrderOf
      <4> QED
        BY <3>2, <4>1 DEF RequirementsFirst
    <3> QED
      BY <3>2 DEF RequirementsFirst
  <2> QED
    BY <2>1, <2>2
<1>2. /\ Len(part) \in Nat /\ DOMAIN part = 1..Len(part) /\ DOMAIN undoList' = 1..Len(part)
      /\ \A i \in 1..Len(part) : undoList'[i] = part[Len(part) - i + 1]
  <2>1. /\ Reverse(part) \in Seq(Operations) /\ Len(Reverse(part)) = Len(part)
        /\ \A i \in 1..Len(part) : Reverse(part)[i] = part[Len(part) - i + 1]
    BY ReverseProperties
  <2> QED
    BY <2>1, LenProperties
<1>3. ASSUME NEW i \in DOMAIN undoList', NEW j \in DOMAIN undoList', i < j,
             ComponentOf[undoList'[j]] \in Components
      PROVE  ComponentOf[undoList'[i]] \notin Requires[ComponentOf[undoList'[j]]]
  <2> DEFINE p == Len(part) - j + 1
             q == Len(part) - i + 1
  <2>1. p \in DOMAIN part /\ q \in DOMAIN part /\ p < q
    BY <1>2, <1>3
  <2>2. undoList'[j] = part[p] /\ undoList'[i] = part[q]
    BY <1>2, <1>3
  <2> HIDE DEF p, q
  <2> QED
    BY <1>1, <1>3, <2>1, <2>2 DEF RequirementsFirst
<1> QED
  BY <1>3 DEF DependentsUndoneFirst

\* The order survives everything but the Restart button.
LEMMA OrderStep ==
  ASSUME EffectsInv, SessionLists, OrderInStep, [SessionNext]_sessionVars
  PROVE  OrderInStep'
<1>t. /\ SessionTypeOK /\ OuterControl
      /\ old \in Seq(Operations) /\ session \in Seq(Operations) /\ undoList \in Seq(Operations)
      /\ tool # None => tool \in Seq(Operations) /\ IsInjective(tool)
  BY DEF EffectsInv, SessionTypeOK, TransactionTypeOK, SessionLists
<1>i. IsInjective(old \o session)
  BY DEF SessionLists, ListsInStep, RecordedOnce, IsInjective
<1>s. \A ops \in Seq(Operations) : RequirementsFirst(SortOperations(ops))
  BY SortKeeps
<1>e. ASSUME undoList' = <<>> PROVE FirstUndoesDependentsFirst'
  <2>1. DOMAIN undoList' = {}
    BY <1>e
  <2> QED
    BY <2>1 DEF FirstUndoesDependentsFirst, DependentsUndoneFirst
<1>q. ASSUME undoList' = undoList, restarts' = restarts PROVE FirstUndoesDependentsFirst'
  BY <1>q DEF OrderInStep, FirstUndoesDependentsFirst, DependentsUndoneFirst
<1>o. phase \notin Removing => undoList = <<>>
  BY <1>t DEF OuterControl
<1> USE DEF Removing
<1>1. ASSUME NEW plan \in Plans, Install(plan) PROVE OrderInStep'
  <2>1. phase = "ready" /\ phase' = "prepared" /\ UNCHANGED <<undoList, tool>>
    BY <1>1, InstallStarts DEF NewSession, undoVars, toolVars
  <2> QED
    BY <1>e, <1>o, <2>1 DEF OrderInStep
<1>2. ASSUME NEW m \in Modes, NEW plan \in Plans, NEW removed \in SUBSET Components,
             Update(m, plan, removed)
      PROVE  OrderInStep'
  <2>1. /\ phase = "ready" /\ mode # "Installer" /\ phase' = "preparing"
        /\ UNCHANGED <<tool, restarts>>
    BY <1>2 DEF Update, Begin, NewSession, toolVars
  <2>2. ASSUME restarts = 0 PROVE DependentsUndoneFirst'
    <3>1. PICK ops \in Seq(Operations) :
            /\ RequirementsFirst(old) => RequirementsFirst(ops)
            /\ undoList' = Reverse(Only(ops, {op \in Operations : ~Keeps(m, op, plan, removed)}))
      BY <1>t, <1>2, UpdateSplits
    <3>2. RequirementsFirst(ops)
      BY <2>1, <2>2, <3>1 DEF OrderInStep
    <3> DEFINE rest == {op \in Operations : ~Keeps(m, op, plan, removed)}
    <3>3. undoList' = Reverse(Only(ops, rest))
      BY <3>1
    <3> HIDE DEF rest
    <3>4. Only(ops, rest) \in Seq(Operations)
      BY OnlyKeeps
    <3> QED
      BY <3>2, <3>3, <3>4, ReversedDependentsFirst
  <2> QED
    BY <2>1, <2>2 DEF OrderInStep, FirstUndoesDependentsFirst
<1>3. ASSUME Uninstall PROVE OrderInStep'
  <2>1. /\ phase = "ready" /\ mode # "Installer" /\ phase' = "preparing" /\ undoList' = Reverse(old)
        /\ UNCHANGED <<tool, restarts>>
    BY <1>3 DEF Uninstall, Begin, NewSession, toolVars
  <2>2. ASSUME restarts = 0 PROVE DependentsUndoneFirst'
    BY <1>t, <2>1, <2>2, ReversedDependentsFirst DEF OrderInStep
  <2> QED
    BY <2>1, <2>2 DEF OrderInStep, FirstUndoesDependentsFirst
<1>4. ASSUME \/ \E s \in {"Running", "Canceled"} : PreparingFails(s)
             \/ StartUndo \/ InterruptUndo \/ UndoRetry
             \/ \E flag \in BOOLEAN : CheckUndo(flag) \/ UndoReturns(flag)
      PROVE  OrderInStep'
  <2>1. /\ phase' \in {"preparing", "undo", "rollback", "finished"}
        /\ UNCHANGED <<restarts, tool>> /\ (undoList' = <<>> \/ undoList' = undoList)
    BY <1>4 DEF PreparingFails, StartUndo, InterruptUndo, UndoRetry, CheckUndo,
                UndoReturns, Abandon, Throw, outerVars, undoVars, toolVars, countVars
  <2> QED
    BY <1>e, <1>q, <2>1 DEF OrderInStep
<1>5. ASSUME UndoHandled PROVE OrderInStep'
  <2>1. /\ phase = "undo" /\ step \in {"succeeded", "failed"} /\ phase' = "undo"
        /\ undoList' = Tail(undoList) /\ UNCHANGED <<restarts, tool>>
    BY <1>5 DEF UndoHandled, toolVars, countVars
  <2>2. undoList # <<>>
    BY <1>t, <2>1 DEF OuterControl
  <2>3. /\ Tail(undoList) \in Seq(Operations) /\ Len(Tail(undoList)) = Len(undoList) - 1
        /\ \A i \in 1..Len(undoList) - 1 : Tail(undoList)[i] = undoList[i + 1]
    BY <1>t, <2>2, HeadTailProperties
  <2>4. /\ Len(undoList) \in Nat /\ DOMAIN undoList = 1..Len(undoList)
        /\ DOMAIN undoList' = 1..Len(undoList) - 1
        /\ \A i \in DOMAIN undoList' : undoList'[i] = undoList[i + 1] /\ i + 1 \in DOMAIN undoList
    BY <1>t, <2>1, <2>3, LenProperties
  <2>5. ASSUME DependentsUndoneFirst PROVE DependentsUndoneFirst'
    <3>1. \A i, j \in DOMAIN undoList' : i < j => i + 1 < j + 1
      BY <2>4
    <3> QED
      BY <2>4, <2>5, <3>1 DEF DependentsUndoneFirst
  <2> QED
    BY <2>1, <2>5 DEF OrderInStep, FirstUndoesDependentsFirst
<1>6. ASSUME UndoDone \/ UninstallDone \/ SessionAborted \/ UpdaterDone PROVE OrderInStep'
  <2>1. /\ phase' \in {"prepared", "finished"} /\ UNCHANGED <<undoList, restarts>>
        /\ tool' \in {tool, None}
    BY <1>6 DEF UndoDone, UninstallDone, SessionAborted, UpdaterDone, outerVars, undoVars,
                toolVars, countVars
  <2> QED
    BY <1>q, <2>1 DEF OrderInStep
<1>7. ASSUME NEW outcome \in Outcomes, InstallerDone(outcome) PROVE OrderInStep'
  <2>1. phase' = "finished" /\ WriteTool(outcome) /\ UNCHANGED <<undoList, restarts>>
    BY <1>7 DEF InstallerDone, undoVars
  <2> QED
    BY <1>i, <1>q, <1>t, <2>1, WriteToolSorted DEF OrderInStep
<1>8. ASSUME NEW outcome \in Outcomes, Restart(outcome) PROVE OrderInStep'
  <2>1. /\ phase = "finished" /\ WriteToolIfNeeded(outcome) /\ undoList' = undoList
        /\ restarts' = restarts + 1
    BY <1>8 DEF Restart, undoVars
  <2>2. restarts' # 0
    BY <1>t, <2>1, SessionAssumption DEF SessionTypeOK
  <2>3. tool' # None => RequirementsFirst(tool')
    BY <1>i, <1>t, <2>1, WriteToolSorted DEF OrderInStep
  <2> QED
    BY <2>2, <2>3 DEF OrderInStep, FirstUndoesDependentsFirst
<1>9. ASSUME NEW outcome \in Outcomes, Quit(outcome) PROVE OrderInStep'
  <2>1. /\ phase = "finished" /\ phase' = "off" /\ undoList' = undoList
        /\ tool' = tool \/ tool' = SortOperations(old \o session)
    BY <1>9 DEF Quit
  <2>2. old \o session \in Seq(Operations)
    BY <1>t, ConcatProperties
  <2> QED
    BY <1>e, <1>o, <1>s, <2>1, <2>2 DEF OrderInStep
<1>10. ASSUME NEW half \in SUBSET Operations, Crash(half) PROVE OrderInStep'
  <2>1. phase' = "off" /\ undoList' = <<>> /\ tool' = tool
    BY <1>10 DEF Crash
  <2> QED
    BY <1>e, <2>1 DEF OrderInStep
<1>11. ASSUME Launch PROVE OrderInStep'
  <2>1. /\ phase = "off" /\ tool # None /\ old' = tool /\ UNCHANGED <<undoList, restarts, tool>>
    BY <1>11 DEF Launch, undoVars, toolVars, countVars
  <2> QED
    BY <1>q, <2>1 DEF OrderInStep
<1>12. ASSUME (TransactionStep \/ Interrupt) /\ UNCHANGED outerVars PROVE OrderInStep'
  <2>1. phase' # "ready" /\ UNCHANGED <<undoList, restarts, tool>>
    BY <1>12, InnerStep DEF Working, outerVars, undoVars, toolVars, countVars
  <2> QED
    BY <1>q, <2>1 DEF OrderInStep
<1>13. CASE UNCHANGED sessionVars
  <2>1. UNCHANGED <<phase, mode, old, undoList, restarts, tool>>
    BY <1>13 DEF sessionVars, transactionVars, outerVars, undoVars, toolVars, flowVars, countVars
  <2> QED
    BY <1>q, <2>1 DEF OrderInStep
<1> QED
  BY <1>1, <1>2, <1>3, <1>4, <1>5, <1>6, <1>7, <1>8, <1>9, <1>10, <1>11, <1>12, <1>13
  DEF SessionNext, BeginSession, UndoStep, EndOfSession, EndOfProcess

\* At first there is no list and no tool.
LEMMA SessionListsInit == SessionInit => SessionLists /\ OrderInStep
<1> SUFFICES ASSUME SessionInit PROVE SessionLists /\ OrderInStep
  OBVIOUS
<1>1. RecordsInv
  BY RecordsInit DEF SessionInit
<1>2. /\ phase = "ready" /\ mode = "Installer" /\ tool = None /\ undoList = <<>>
  BY DEF SessionInit, TransactionInit
<1>3. DOMAIN undoList = {}
  BY <1>2
<1> QED
  BY <1>1, <1>2, <1>3 DEF SessionLists, OrderInStep, RecordsInv, Removing,
                          FirstUndoesDependentsFirst, DependentsUndoneFirst

\* The invariant about the lists and their order.
LEMMA ListsInvariant == SessionSpec => [](SessionLists /\ OrderInStep)
<1>1. EffectsInv /\ SessionLists /\ OrderInStep /\ [SessionNext]_sessionVars
        => SessionLists' /\ OrderInStep'
  BY SessionListsStep, OrderStep DEF OrderInStep
<1> QED
  BY <1>1, SessionListsInit, EffectsInvariant, PTL DEF SessionSpec

\* A maintenance tool that was just started undoes the operations of a component
\* only when those of the components that require it are undone.
THEOREM DependentsUndoneFirstAtFirst == SessionSpec => []FirstUndoesDependentsFirst
  BY ListsInvariant, PTL DEF OrderInStep

-----------------------------------------------------------------------------
(* The packages and the operations that stand for them                     *)

\* As in a transaction; while operations are undone, a failure tells nothing.
ErrorsInStep ==
  /\ \A op \in Operations : error[op] = "InvalidArguments" => op \in BadArguments
  /\ phase # "undo" => ErrorsShown

\* The Install operations that installComponent() is done with are recorded, but for
\* those that are always refused their arguments.
HandledRecorded ==
  phase = "install" =>
    \A op \in ToSet(InstallOps[Head(toInstall)]) :
      op \in ToSet(opsLeft) \cup BadArguments \cup ToSet(session)

\* The components that a rollback of the session will take out of components.xml: the
\* undo of one of their operations will not be refused for want of admin rights.
SessionCovers == {ComponentOf[op] : op \in ToSet(session) \ Elevated}

\* As long as no write of the tool failed, the packages of the hub are those of the
\* operations on the lists; the tool, unless it is to be written, covers them as well,
\* but for those that a rollback would take out again. Packages that a process left
\* by dying are not counted.
PackagesInStep ==
  /\ HandledRecorded
  /\ ~writeFailed /\ phase # "off" =>
       /\ hub \ stray \subseteq ComponentsOf(old) \cup SessionCovers
       /\ phase \in Removing => hub \ stray \subseteq ComponentsOf(kept) \cup ComponentsOf(undoList)
       /\ tool # None /\ ~needToWrite =>
            (hub \cup hubOnDisk) \ stray \subseteq ComponentsOf(tool) \cup SessionCovers
  /\ NoPackageWithoutOperation

\* What the errors show, across sessions.
LEMMA ErrorsAcrossStep ==
  ASSUME EffectsInv, ErrorsInStep, [SessionNext]_sessionVars
  PROVE  ErrorsInStep'
<1>t. SessionTypeOK /\ OuterControl
  BY DEF EffectsInv
<1>u. OuterControl'
  BY OuterControlStep
<1> USE DEF TransactionPhases, Removing, Working
<1>s. ASSUME \A op \in Operations : error'[op] = "InvalidArguments" => op \in BadArguments,
             phase' \in {"off", "preparing", "undo", "finished", "ready", "prepared", "rollback"}
      PROVE  ErrorsInStep'
  <2>1. phase' # "undo" => step' = "none"
    BY <1>s, <1>u DEF OuterControl, Control
  <2> QED
    BY <1>s, <2>1 DEF ErrorsInStep, ErrorsShown
<1>1. ASSUME \/ (TransactionStep \/ Interrupt) /\ UNCHANGED outerVars
             \/ \E plan \in Plans : Install(plan)
      PROVE  ErrorsInStep'
  <2>1. TransactionNext /\ phase \in TransactionPhases
    BY <1>1, InnerStep, InstallStarts
  <2>2. TransactionInv /\ ErrorsShown
    BY <2>1, InnerInv DEF ErrorsInStep
  <2>3. ErrorsShown'
    BY <2>1, <2>2, ErrorsStep
  <2> QED
    BY <2>3 DEF ErrorsInStep, ErrorsShown
<1>2. ASSUME NEW plan, Begin(plan), phase' = "preparing" PROVE ErrorsInStep'
  BY <1>2, <1>s DEF Begin, ErrorsInStep
<1>3. ASSUME \/ UndoStep \/ InterruptUndo \/ EndOfSession \/ EndOfProcess
             \/ \E half \in SUBSET Operations : Crash(half)
      PROVE  ErrorsInStep'
  <2>1. CASE UndoStep \/ InterruptUndo
    <3>1. /\ error' = error
          /\ phase' \in {"preparing", "undo", "finished", "prepared", "rollback"}
      BY <2>1 DEF UndoStep, InterruptUndo, PreparingFails, StartUndo, UndoRetry, UndoHandled,
                  UndoDone, UninstallDone, CheckUndo, UndoReturns, Abandon, Throw, machineVars
    <3> QED
      BY <1>s, <3>1 DEF ErrorsInStep
  <2>2. CASE \/ EndOfSession \/ EndOfProcess \/ \E half \in SUBSET Operations : Crash(half)
    <3>1. error' = error /\ phase' \in {"finished", "ready", "off"}
      BY <2>2 DEF EndOfSession, EndOfProcess, UpdaterDone, SessionAborted, InstallerDone, Launch,
                  Restart, Quit, Crash, machineVars
    <3> QED
      BY <1>s, <3>1 DEF ErrorsInStep
  <2> QED
    BY <1>3, <2>1, <2>2
<1>4. CASE UNCHANGED sessionVars
  BY <1>4 DEF sessionVars, transactionVars, flowVars, workVars, machineVars, poolVars,
              ErrorsInStep, ErrorsShown
<1> QED
  BY <1>1, <1>2, <1>3, <1>4 DEF SessionNext, BeginSession, Update, Uninstall

\* Within the loop of installComponent(), and when it goes on to the next component.
LEMMA HandledStep ==
  ASSUME TransactionInv, PlanInStep, ErrorsShown, HandledRecorded, TransactionStep \/ Interrupt
  PROVE  HandledRecorded'
<1>t. /\ Control /\ toInstall \in Seq(Components) /\ opsLeft \in Seq(Operations \ UnpackOps)
      /\ session \in Seq(Operations)
      /\ error \in [Operations -> {"NoError", "InvalidArguments", "UserDefinedError"}]
  BY DEF TransactionInv, TransactionTypeOK
<1>1. ASSUME phase' # "install" \/ (phase = "install" /\ UNCHANGED <<toInstall, opsLeft, session>>)
      PROVE  HandledRecorded'
  BY <1>1 DEF HandledRecorded
<1>2. ASSUME NEW cs, InstallNext(cs) PROVE HandledRecorded'
  BY <1>2 DEF InstallNext, HandledRecorded
<1>3. ASSUME CollectDone \/ ComponentInstalled PROVE HandledRecorded'
  BY <1>1, <1>2, <1>3 DEF CollectDone, ComponentInstalled, Throw
<1>4. ASSUME \/ CheckOperation \/ ElevationRefused \/ BackupReturns
             \/ \E ok \in BOOLEAN : PerformReturns(ok)
             \/ AnswerRetry \/ AnswerCancel \/ Interrupt
      PROVE  HandledRecorded'
  BY <1>1, <1>4 DEF CheckOperation, ElevationRefused, BackupReturns, PerformReturns, AnswerRetry,
                    AnswerCancel, Interrupt, Throw, workVars
<1>5. ASSUME NEW ok \in BOOLEAN, NEW ignored \in BOOLEAN, step \in {"succeeded", "failed"},
             Collected(ok, ignored) \/ Handled(ok, ignored),
             ignored => step = "failed" /\ status # "Canceled"
      PROVE  HandledRecorded'
  <2>1. CASE Collected(ok, ignored)
    BY <1>1, <2>1 DEF Collected
  <2>2. CASE Handled(ok, ignored) /\ ~(ok \/ ignored)
    BY <1>1, <2>2 DEF Handled, Throw
  <2>3. CASE Handled(ok, ignored) /\ (ok \/ ignored)
    <3>1. /\ phase = "install" /\ opsLeft' = Tail(opsLeft) /\ toInstall' = toInstall
          /\ Record(current, ok)
      BY <2>3 DEF Handled
    <3>2. opsLeft # <<>> /\ current \in Operations /\ current # None
      BY <1>5, <1>t, <3>1, TransactionAssumption DEF Control
    <3>3. ToSet(opsLeft) = {current} \cup ToSet(opsLeft')
      BY <1>t, <3>1, <3>2, ToSetHeadTail DEF PlanInStep
    <3>4. current \notin BadArguments => NeedsUndo(current, ok)
      BY <1>5, <1>t, <2>3, <3>2 DEF ErrorsShown, NeedsUndo
    <3>5. /\ ToSet(session) \subseteq ToSet(session')
          /\ current \in BadArguments \cup ToSet(session')
      <4>1. ToSet(Append(session, current)) = ToSet(session) \cup {current}
        BY <1>t, <3>2, ToSetAppend
      <4> QED
        BY <3>1, <3>4, <4>1 DEF Record
    <3> QED
      BY <3>1, <3>3, <3>5 DEF HandledRecorded
  <2> QED
    BY <1>5, <2>1, <2>2, <2>3
<1>6. ASSUME Finish \/ AnswerIgnore PROVE HandledRecorded'
  BY <1>5, <1>6 DEF Finish, AnswerIgnore
<1>7. ASSUME \/ \E s \in {"Running", "Canceled"} : PrepareFails(s)
             \/ StartBackup \/ UnpackDone \/ \E refused \in BOOLEAN : BackupDone(refused)
             \/ \E op \in UnpackOps :
                  TakeResult(op) \/ PoolStep(op) \/ \E ok \in BOOLEAN : UnpackOperation(op, ok)
             \/ RollbackStep
      PROVE  HandledRecorded'
  <2>1. phase' # "install"
    BY <1>7 DEF PrepareFails, StartBackup, UnpackDone, BackupDone, TakeResult, PoolStep,
                UnpackOperation, RollbackStep, UndoLast, SkipLast, RollbackDone, Throw, flowVars
  <2> QED
    BY <1>1, <2>1
<1> QED
  BY <1>3, <1>4, <1>6, <1>7
  DEF TransactionStep, UnpackStep, MainThreadUnpackStep, InstallStep, OperationLoop

\* A package that a step of the transaction adds, or leaves, has an operation that
\* the rollback will undo, or it was there without one before.
LEMMA CoversStep ==
  ASSUME TransactionInv, PlanInStep, HandledRecorded, TransactionStep \/ Interrupt
  PROVE  /\ \A c \in hub' : c \in SessionCovers' \/ (c \in hub /\ c \notin SessionCovers)
         /\ \A c \in hubOnDisk' :
              c \in SessionCovers' \/ (c \in hub \cup hubOnDisk /\ c \notin SessionCovers)
<1> DEFINE Covered ==
             /\ \A c \in hub' : c \in SessionCovers' \/ (c \in hub /\ c \notin SessionCovers)
             /\ \A c \in hubOnDisk' :
                  c \in SessionCovers' \/ (c \in hub \cup hubOnDisk /\ c \notin SessionCovers)
<1>t. /\ Control /\ toInstall \in Seq(Components) /\ opsLeft \in Seq(Operations \ UnpackOps)
      /\ session \in Seq(Operations) /\ TransactionTypeOK
  BY DEF TransactionInv, TransactionTypeOK
<1>a. UnpackOps \subseteq Operations
  BY TransactionAssumption
<1>1. ASSUME UNCHANGED <<hub, hubOnDisk>>, SessionCovers \subseteq SessionCovers' PROVE Covered
  BY <1>1
<1>2. ASSUME UNCHANGED <<hub, hubOnDisk, session>> PROVE Covered
  BY <1>1, <1>2 DEF SessionCovers
<1>3. ASSUME \/ \E s \in {"Running", "Canceled"} : PrepareFails(s)
             \/ MainThreadUnpackStep \/ CheckOperation \/ ElevationRefused \/ BackupReturns
             \/ \E op \in UnpackOps : PoolStep(op) \/ \E ok \in BOOLEAN : UnpackOperation(op, ok)
             \/ \E ok \in BOOLEAN : PerformReturns(ok)
             \/ AnswerRetry \/ AnswerCancel \/ RollbackDone \/ Interrupt
      PROVE  Covered
  <2>1. UNCHANGED <<hub, hubOnDisk, session>>
    BY <1>3 DEF PrepareFails, MainThreadUnpackStep, StartBackup, UnpackDone, CollectDone,
                BackupDone, TakeResult, CheckOperation, ElevationRefused, BackupReturns, PoolStep,
                UnpackOperation, PerformReturns, AnswerRetry, AnswerCancel, RollbackDone,
                Interrupt, hubVars
  <2> QED
    BY <1>2, <2>1
<1>4. ASSUME NEW ok \in BOOLEAN, NEW ignored \in BOOLEAN, step \in {"succeeded", "failed"},
             Collected(ok, ignored) \/ Handled(ok, ignored), UNCHANGED hubVars
      PROVE  Covered
  <2>1. current \in Operations /\ Record(current, ok)
    BY <1>4, <1>a, <1>t DEF Collected, Handled, Control, TransactionTypeOK
  <2>2. ToSet(Append(session, current)) = ToSet(session) \cup {current}
    BY <1>t, <2>1, ToSetAppend
  <2>3. ToSet(session) \subseteq ToSet(session')
    BY <2>1, <2>2 DEF Record
  <2> QED
    BY <1>1, <1>4, <2>3 DEF SessionCovers, hubVars
<1>5. ASSUME Finish \/ AnswerIgnore PROVE Covered
  <2> HIDE DEF Covered
  <2> QED
    BY <1>4, <1>5 DEF Finish, AnswerIgnore
<1>6. ASSUME ComponentInstalled PROVE Covered
  <2> DEFINE c == Head(toInstall)
  <2>1. /\ phase = "install" /\ opsLeft = <<>> /\ toInstall # <<>> /\ session' = session
        /\ hub' = hub \cup {c} /\ hubOnDisk' = hub'
    BY <1>6, <1>t DEF ComponentInstalled, Control
  <2>2. c \in Components
    BY <1>t, <2>1, HeadTailInSeq
  <2>3. PICK op \in ToSet(InstallOps[c]) : op \notin BadArguments \cup Elevated
    BY <2>2, SessionAssumption
  <2>4. op \in ToSet(session) /\ ComponentOf[op] = c
    <3>1. ToSet(opsLeft) = {}
      BY <2>1 DEF ToSet
    <3> QED
      BY <2>1, <2>2, <2>3, <3>1, InstallOpsOwned DEF HandledRecorded
  <2>5. c \in SessionCovers
    BY <2>3, <2>4 DEF SessionCovers
  <2>6. SessionCovers' = SessionCovers
    BY <2>1 DEF SessionCovers
  <2> HIDE DEF c
  <2> QED
    BY <2>1, <2>5, <2>6
<1>7. ASSUME NEW op, op = Last(session), session # <<>>, session' = Front(session),
             \/ hub' = hub \ {ComponentOf[op]} /\ hubOnDisk' = hub'
             \/ UNCHANGED <<hub, hubOnDisk>> /\ op \in Elevated
      PROVE  Covered
  <2>1. ToSet(session) = ToSet(session') \cup {op}
    BY <1>7, <1>t, FrontLastProperties
  <2>2. SessionCovers \subseteq SessionCovers' \cup (IF op \in Elevated THEN {} ELSE {ComponentOf[op]})
    BY <2>1 DEF SessionCovers
  <2> QED
    BY <1>7, <2>2
<1>8. ASSUME SkipLast \/ \E ok \in BOOLEAN : UndoLast(ok) PROVE Covered
  <2> HIDE DEF Covered
  <2> QED
    BY <1>7, <1>8 DEF SkipLast, UndoLast, hubVars
<1> QED
  BY <1>3, <1>5, <1>6, <1>8
  DEF TransactionStep, UnpackStep, InstallStep, OperationLoop, RollbackStep

\* A step of the transaction leaves the committed operations alone.
LEMMA OldKept ==
  ASSUME TransactionStep \/ Interrupt
  PROVE  old' = old
BY DEF TransactionStep, UnpackStep, MainThreadUnpackStep, InstallStep, OperationLoop,
       RollbackStep, PrepareFails, StartBackup, UnpackDone, CollectDone, BackupDone, TakeResult,
       PoolStep, UnpackOperation, CheckOperation, ElevationRefused, BackupReturns,
       ComponentInstalled, PerformReturns, Finish, AnswerRetry, AnswerIgnore, AnswerCancel,
       UndoLast, SkipLast, RollbackDone, Interrupt

\* Whose operations a list holds.
LEMMA ComponentsOfLists ==
  ASSUME NEW ops \in Seq(Operations), NEW more \in Seq(Operations)
  PROVE  /\ ComponentsOf(ops) \subseteq Components
         /\ ComponentsOf(ops \o more) = ComponentsOf(ops) \cup ComponentsOf(more)
         /\ ComponentsOf(SortOperations(ops)) = ComponentsOf(ops)
         /\ ComponentsOf(Reverse(ops)) = ComponentsOf(ops)
<1>1. ToSet(ops) \subseteq Operations
  BY LenProperties, ElementOfSeq DEF ToSet
<1>2. ToSet(ops \o more) = ToSet(ops) \cup ToSet(more)
  BY ToSetConcat
<1>3. ToSet(SortOperations(ops)) = ToSet(ops) /\ ToSet(Reverse(ops)) = ToSet(ops)
  BY SortKeeps, ReverseProperties
<1>4. ComponentsOf(ops) \subseteq Components
  BY <1>1, TransactionAssumption DEF ComponentsOf
<1> QED
  BY <1>2, <1>3, <1>4 DEF ComponentsOf

\* What a rollback takes out is recorded, and an empty list takes out nothing.
LEMMA CoversOfSession ==
  /\ SessionCovers \subseteq ComponentsOf(session) \cup {None}
  /\ session = <<>> => SessionCovers = {}
  /\ ComponentsOf(<<>>) = {}
<1>1. ToSet(<<>>) = {}
  BY EmptySeq DEF ToSet
<1> QED
  BY <1>1 DEF SessionCovers, ComponentsOf

\* No step takes a package and its operations apart.
LEMMA PackagesStep ==
  ASSUME EffectsInv, SessionLists, ErrorsInStep, PackagesInStep, [SessionNext]_sessionVars
  PROVE  PackagesInStep'
<1>t. /\ SessionTypeOK /\ OuterControl /\ hub \in SUBSET Components
      /\ hubOnDisk \in SUBSET Components
      /\ old \in Seq(Operations) /\ session \in Seq(Operations)
      /\ kept \in Seq(Operations) /\ undoList \in Seq(Operations)
      /\ tool # None => tool \in Seq(Operations)
  BY DEF EffectsInv, SessionTypeOK, TransactionTypeOK
<1>n. None \notin hub
  BY <1>t, TransactionAssumption
<1>e. ComponentsOf(<<>>) = {}
  BY CoversOfSession
<1>c. /\ SessionCovers \subseteq ComponentsOf(session) \cup {None}
      /\ session = <<>> => SessionCovers = {}
  BY CoversOfSession
<1>d. session' = session => SessionCovers' = SessionCovers
  BY DEF SessionCovers
<1> USE DEF Removing
<1>g. ASSUME phase # "off", phase' \notin {"off", "install"},
             UNCHANGED <<old, session, tool, needToWrite, stray, writeFailed>>,
             hub' \subseteq hub, hubOnDisk' \subseteq hub \cup hubOnDisk,
             ~writeFailed /\ phase' \in Removing =>
               hub' \ stray \subseteq ComponentsOf(kept') \cup ComponentsOf(undoList')
      PROVE  PackagesInStep'
  BY <1>d, <1>g DEF PackagesInStep, HandledRecorded, NoPackageWithoutOperation
<1>1. ASSUME NEW plan \in Plans, Install(plan) PROVE PackagesInStep'
  <2>1. /\ phase = "ready" /\ phase' = "prepared" /\ hub = {} /\ old' = old
        /\ session' = Append(session, TargetDirOp)
        /\ UNCHANGED <<hub, hubOnDisk, tool, needToWrite, stray, writeFailed>>
    BY <1>1, InstallStarts DEF BeginInstaller, Begin, NewSession, hubVars, toolVars, crashVars
  <2>2. TargetDirOp \in Operations
    BY TransactionAssumption
  <2>3. ToSet(session) \subseteq ToSet(session')
    BY <1>t, <2>1, <2>2, ToSetAppend
  <2>4. SessionCovers \subseteq SessionCovers'
    BY <2>3 DEF SessionCovers
  <2> QED
    BY <2>1, <2>4 DEF PackagesInStep, HandledRecorded, NoPackageWithoutOperation
<1>2. ASSUME NEW m \in Modes, NEW plan \in Plans, NEW removed \in SUBSET Components,
             Update(m, plan, removed)
      PROVE  PackagesInStep'
  <2>1. /\ phase = "ready" /\ phase' = "preparing"
        /\ UNCHANGED <<old, session, hub, hubOnDisk, tool, needToWrite, stray, writeFailed>>
    BY <1>2 DEF Update, Begin, NewSession, hubVars, toolVars, crashVars
  <2>2. session = <<>>
    BY <2>1 DEF SessionLists, PlanInStep
  <2>3. ToSet(kept') \cup ToSet(undoList') = ToSet(old)
    BY <1>2, <1>t, UpdateSplits
  <2>4. ComponentsOf(old) = ComponentsOf(kept') \cup ComponentsOf(undoList')
    BY <2>3 DEF ComponentsOf
  <2>5. ~writeFailed => hub \ stray \subseteq ComponentsOf(old)
    BY <1>c, <2>1, <2>2 DEF PackagesInStep
  <2> QED
    BY <1>g, <2>1, <2>4, <2>5
<1>3. ASSUME Uninstall PROVE PackagesInStep'
  <2>1. /\ phase = "ready" /\ phase' = "preparing" /\ kept' = old
        /\ UNCHANGED <<old, session, hub, hubOnDisk, tool, needToWrite, stray, writeFailed>>
    BY <1>3 DEF Uninstall, Begin, NewSession, hubVars, toolVars, crashVars
  <2>2. session = <<>>
    BY <2>1 DEF SessionLists, PlanInStep
  <2>5. ~writeFailed => hub \ stray \subseteq ComponentsOf(old)
    BY <1>c, <2>1, <2>2 DEF PackagesInStep
  <2> QED
    BY <1>g, <2>1, <2>5
<1>4. ASSUME \/ \E s \in {"Running", "Canceled"} : PreparingFails(s)
             \/ StartUndo \/ UndoRetry \/ InterruptUndo
             \/ \E flag \in BOOLEAN : CheckUndo(flag) \/ UndoReturns(flag)
      PROVE  PackagesInStep'
  <2>1. /\ phase \in Removing /\ phase' \in {"preparing", "undo", "rollback", "finished"}
        /\ UNCHANGED <<old, session, hub, tool, needToWrite, stray, writeFailed>>
        /\ hubOnDisk' \in {hub, hubOnDisk}
        /\ phase' \in Removing => UNCHANGED <<undoList, kept>>
    BY <1>4 DEF PreparingFails, StartUndo, InterruptUndo, UndoRetry, CheckUndo, UndoReturns,
                Abandon, Throw, outerVars, undoVars, toolVars, countVars, crashVars, hubVars
  <2> QED
    BY <1>g, <2>1 DEF PackagesInStep
<1>5. ASSUME UndoHandled PROVE PackagesInStep'
  <2>1. /\ phase = "undo" /\ step \in {"succeeded", "failed"} /\ phase' = "undo"
        /\ undoList' = Tail(undoList) /\ hub' = hub \ {ComponentOf[current]}
        /\ UNCHANGED <<old, session, hubOnDisk, kept, tool, needToWrite, stray, writeFailed>>
    BY <1>5 DEF UndoHandled, toolVars, countVars, crashVars
  <2>2. undoList # <<>> /\ current = Head(undoList)
    BY <1>t, <2>1 DEF OuterControl
  <2>3. ToSet(undoList) = {current} \cup ToSet(undoList')
    BY <1>t, <2>1, <2>2, ToSetHeadTail
  <2>4. ComponentsOf(undoList) \subseteq ComponentsOf(undoList') \cup {ComponentOf[current]}
    BY <2>3 DEF ComponentsOf
  <2>5. ~writeFailed => hub \ stray \subseteq ComponentsOf(kept) \cup ComponentsOf(undoList)
    BY <2>1 DEF PackagesInStep
  <2> QED
    BY <1>g, <2>1, <2>4, <2>5
<1>6. ASSUME UndoDone PROVE PackagesInStep'
  <2>1. /\ phase = "undo" /\ phase' = "prepared" /\ undoList = <<>>
        /\ hubOnDisk' = hub /\ old' = kept
        /\ UNCHANGED <<session, hub, tool, needToWrite, stray, writeFailed>>
    BY <1>6 DEF UndoDone, toolVars, countVars, crashVars
  <2> QED
    BY <1>d, <1>e, <2>1 DEF PackagesInStep, HandledRecorded, NoPackageWithoutOperation
<1>7. ASSUME UninstallDone PROVE PackagesInStep'
  <2>1. /\ phase = "undo" /\ phase' = "finished" /\ tool' = None
        /\ UNCHANGED <<old, session, hub, stray, writeFailed>>
    BY <1>7 DEF UninstallDone, countVars, crashVars
  <2> QED
    BY <1>d, <2>1 DEF PackagesInStep, HandledRecorded, NoPackageWithoutOperation
<1>8. ASSUME UpdaterDone PROVE PackagesInStep'
  <2>1. /\ phase = "installed" /\ phase' = "finished" /\ old' = old \o session /\ needToWrite'
        /\ UNCHANGED <<hub, tool, stray, writeFailed>>
    BY <1>8 DEF UpdaterDone, hubVars, countVars, crashVars
  <2>2. ComponentsOf(old') = ComponentsOf(old) \cup ComponentsOf(session)
    BY <1>t, <2>1, ComponentsOfLists
  <2> QED
    BY <1>c, <1>n, <2>1, <2>2 DEF PackagesInStep, HandledRecorded, NoPackageWithoutOperation
<1>9. ASSUME SessionAborted PROVE PackagesInStep'
  <2>1. /\ phase = "rolledBack" /\ phase' = "finished"
        /\ UNCHANGED <<old, session, hub, hubOnDisk, tool, needToWrite, stray, writeFailed>>
    BY <1>9 DEF SessionAborted, hubVars, outerVars, toolVars, countVars, crashVars
  <2> QED
    BY <1>g, <2>1
<1>w. old \o session \in Seq(Operations)
  BY <1>t, ConcatProperties
<1>v. ComponentsOf(SortOperations(old \o session)) = ComponentsOf(old) \cup ComponentsOf(session)
  BY <1>t, <1>w, ComponentsOfLists
<1>x. ComponentsOf(old \o session) = ComponentsOf(old) \cup ComponentsOf(session)
  BY <1>t, ComponentsOfLists
<1>y. ASSUME NEW outcome \in Outcomes, WriteToolIfNeeded(outcome) \/ WriteTool(outcome),
             NoteFailure(outcome), phase # "off", phase' \in {"finished", "ready"},
             phase # "installed" => session = <<>> \/ writeFailed, UNCHANGED <<hub, stray>>
      PROVE  PackagesInStep'
  <2>1. CASE WriteTool(outcome) /\ outcome = "written"
    <3>1. /\ tool' = SortOperations(old \o session)
          /\ old' = old \o session /\ hubOnDisk' = hub /\ writeFailed' = writeFailed
      BY <1>t, <1>y, <2>1 DEF WriteTool, NoteFailure, SessionTypeOK
    <3>2. /\ ComponentsOf(old') = ComponentsOf(old) \cup ComponentsOf(session)
          /\ ComponentsOf(tool') = ComponentsOf(old) \cup ComponentsOf(session)
      BY <1>v, <1>x, <3>1
    <3>3. ~writeFailed => hub \ stray \subseteq ComponentsOf(old) \cup ComponentsOf(session)
      BY <1>c, <1>n, <1>y DEF PackagesInStep
    <3> QED
      BY <1>y, <3>1, <3>2, <3>3 DEF PackagesInStep, HandledRecorded, NoPackageWithoutOperation
  <2>2. CASE outcome # "written"
    <3>1. writeFailed'
      BY <2>2, <1>y DEF NoteFailure
    <3> QED
      BY <1>y, <3>1 DEF PackagesInStep, HandledRecorded, NoPackageWithoutOperation
  <2>3. CASE ~needToWrite /\ WriteToolIfNeeded(outcome)
    <3>1. /\ UNCHANGED <<old, session, hubOnDisk, tool, needToWrite, writeFailed>>
      BY <1>t, <1>y, <2>3 DEF WriteToolIfNeeded, NoteFailure, toolVars, SessionTypeOK
    <3> QED
      BY <1>g, <1>y, <3>1
  <2> QED
    BY <1>y, <2>1, <2>2, <2>3 DEF WriteToolIfNeeded
<1>10. ASSUME NEW outcome \in Outcomes, InstallerDone(outcome) PROVE PackagesInStep'
  <2>1. /\ phase = "installed" /\ phase' = "finished" /\ WriteTool(outcome)
        /\ NoteFailure(outcome) /\ UNCHANGED <<hub, stray>>
    BY <1>10 DEF InstallerDone, crashVars
  <2> QED
    BY <1>y, <2>1
<1>11. ASSUME NEW outcome \in Outcomes, Restart(outcome) PROVE PackagesInStep'
  <2>1. /\ phase = "finished" /\ phase' = "ready" /\ WriteToolIfNeeded(outcome)
        /\ NoteFailure(outcome) /\ UNCHANGED <<hub, stray>> /\ mode # "Installer"
    BY <1>11 DEF Restart, crashVars
  <2>2. session = <<>>
    BY <2>1 DEF SessionLists
  <2> QED
    BY <1>y, <2>1, <2>2
<1>12. ASSUME NEW outcome \in Outcomes, Quit(outcome) PROVE PackagesInStep'
  <2>1. /\ phase = "finished" /\ phase' = "off" /\ NoteFailure(outcome) /\ stray' = stray
        /\ IF needToWrite /\ outcome = "written"
           THEN tool' = SortOperations(old \o session) /\ hubOnDisk' = hub
           ELSE UNCHANGED <<tool, hubOnDisk>>
        /\ outcome # "written" => needToWrite
    BY <1>12 DEF Quit, crashVars
  <2>2. SUFFICES ASSUME ~writeFailed', tool' # None
                 PROVE  hubOnDisk' \ stray \subseteq ComponentsOf(tool')
    BY <2>1 DEF PackagesInStep, HandledRecorded, NoPackageWithoutOperation
  <2>3. ~writeFailed /\ outcome = "written"
    BY <2>1, <2>2 DEF NoteFailure
  <2>4. CASE needToWrite
    <3>1. ComponentsOf(tool') = ComponentsOf(old) \cup ComponentsOf(session) /\ hubOnDisk' = hub
      BY <1>v, <2>1, <2>3, <2>4
    <3>2. hub \ stray \subseteq ComponentsOf(old) \cup ComponentsOf(session)
      BY <1>c, <1>n, <2>1, <2>3 DEF PackagesInStep
    <3> QED
      BY <3>1, <3>2
  <2>5. CASE ~needToWrite
    <3>1. session = <<>> /\ UNCHANGED <<tool, hubOnDisk>>
      BY <2>1, <2>3, <2>5 DEF SessionLists
    <3> QED
      BY <1>c, <2>1, <2>2, <2>3, <2>5, <3>1 DEF PackagesInStep
  <2> QED
    BY <2>4, <2>5
<1>13. ASSUME NEW half \in SUBSET Operations, Crash(half) PROVE PackagesInStep'
  <2>1. /\ phase # "off" /\ phase' = "off" /\ UNCHANGED <<tool, hubOnDisk, writeFailed>>
        /\ stray' = IF AtRest /\ ~needToWrite THEN stray
                    ELSE stray \cup (hubOnDisk \ (IF tool = None THEN {} ELSE ComponentsOf(tool)))
    BY <1>13 DEF Crash
  <2>2. SUFFICES ASSUME ~writeFailed, tool # None
                 PROVE  hubOnDisk \ stray' \subseteq ComponentsOf(tool)
    BY <2>1 DEF PackagesInStep, HandledRecorded, NoPackageWithoutOperation, ComponentsOf
  <2>3. CASE AtRest /\ ~needToWrite
    <3>1. session = <<>>
      BY <2>1, <2>2, <2>3 DEF AtRest, SessionLists, PlanInStep
    <3> QED
      BY <1>c, <2>1, <2>2, <2>3, <3>1 DEF PackagesInStep
  <2> QED
    BY <2>1, <2>2, <2>3
<1>14. ASSUME Launch PROVE PackagesInStep'
  <2>1. /\ phase = "off" /\ tool # None /\ phase' = "ready" /\ old' = tool /\ hub' = hubOnDisk
        /\ UNCHANGED <<hubOnDisk, tool, stray, writeFailed>>
    BY <1>14 DEF Launch, toolVars, countVars, crashVars
  <2>2. ~writeFailed => hubOnDisk \ stray \subseteq ComponentsOf(tool)
    BY <2>1 DEF PackagesInStep, NoPackageWithoutOperation
  <2>3. ComponentsOf(tool') = ComponentsOf(tool) /\ ComponentsOf(old') = ComponentsOf(tool)
    BY <2>1
  <2> QED
    BY <2>1, <2>2, <2>3 DEF PackagesInStep, HandledRecorded, NoPackageWithoutOperation
<1>15. ASSUME (TransactionStep \/ Interrupt) /\ UNCHANGED outerVars PROVE PackagesInStep'
  <2>1. /\ phase \in TransactionPhases /\ phase # "off" /\ phase' \notin Removing \cup {"off"}
        /\ UNCHANGED <<tool, needToWrite, stray, writeFailed>>
    BY <1>15, InnerStep DEF TransactionPhases, Working, outerVars, toolVars, countVars, crashVars
  <2>2. TransactionInv /\ PlanInStep /\ ErrorsShown /\ HandledRecorded
    BY <2>1, InnerInv DEF SessionLists, ErrorsInStep, PackagesInStep, TransactionPhases, Working
  <2>3. HandledRecorded'
    BY <1>15, <2>2, HandledStep
  <2>4. /\ \A c \in hub' : c \in SessionCovers' \/ (c \in hub /\ c \notin SessionCovers)
        /\ \A c \in hubOnDisk' :
             c \in SessionCovers' \/ (c \in hub \cup hubOnDisk /\ c \notin SessionCovers)
    BY <1>15, <2>2, CoversStep
  <2>5. old' = old
    BY <1>15, OldKept
  <2>6. /\ ComponentsOf(old') = ComponentsOf(old)
        /\ ComponentsOf(tool') = ComponentsOf(tool)
    BY <2>1, <2>5
  <2>7. ~writeFailed => hub' \ stray \subseteq ComponentsOf(old) \cup SessionCovers'
    BY <2>1, <2>4 DEF PackagesInStep
  <2>8. ~writeFailed /\ tool # None /\ ~needToWrite =>
          (hub' \cup hubOnDisk') \ stray \subseteq ComponentsOf(tool) \cup SessionCovers'
    BY <2>1, <2>4 DEF PackagesInStep
  <2> QED
    BY <2>1, <2>3, <2>6, <2>7, <2>8 DEF PackagesInStep, NoPackageWithoutOperation
<1>16. CASE UNCHANGED sessionVars
  <2>1. UNCHANGED <<phase, opsLeft, toInstall, old, session, hub, hubOnDisk, undoList, kept, tool,
                    needToWrite, stray, writeFailed>>
    BY <1>16 DEF sessionVars, transactionVars, outerVars, undoVars, toolVars, flowVars, countVars,
                 crashVars, hubVars, workVars
  <2> QED
    BY <2>1, <1>d DEF PackagesInStep, HandledRecorded, NoPackageWithoutOperation, ComponentsOf
<1> QED
  BY <1>1, <1>2, <1>3, <1>4, <1>5, <1>6, <1>7, <1>8, <1>9, <1>10, <1>11, <1>12, <1>13, <1>14,
     <1>15, <1>16
  DEF SessionNext, BeginSession, UndoStep, EndOfSession, EndOfProcess

\* At first there are no packages.
LEMMA PackagesInit == SessionInit => ErrorsInStep /\ PackagesInStep
<1> SUFFICES ASSUME SessionInit PROVE ErrorsInStep /\ PackagesInStep
  OBVIOUS
<1>1. /\ phase = "ready" /\ step = "none" /\ hub = {} /\ tool = None
      /\ error = [op \in Operations |-> "NoError"]
  BY DEF SessionInit, TransactionInit
<1> QED
  BY <1>1 DEF ErrorsInStep, ErrorsShown, PackagesInStep, HandledRecorded, Removing,
              NoPackageWithoutOperation

\* The invariant about packages.
LEMMA PackagesInvariant == SessionSpec => [](ErrorsInStep /\ PackagesInStep)
<1>1. SessionInit => ErrorsInStep /\ PackagesInStep
  BY PackagesInit
<1>2. /\ EffectsInv /\ (SessionLists /\ OrderInStep) /\ (ErrorsInStep /\ PackagesInStep)
      /\ [SessionNext]_sessionVars
      => (ErrorsInStep /\ PackagesInStep)'
  BY ErrorsAcrossStep, PackagesStep
<1> QED
  BY <1>1, <1>2, EffectsInvariant, ListsInvariant, PTL DEF SessionSpec

\* The two lists of performed operations, m_performedOperationsOld and
\* m_performedOperationsCurrentSession, never name an operation twice, whatever
\* sessions, second writes of the tool, crashes and relaunches there were; and when a
\* maintenance tool starts, sortOperations...() and writeMaintenanceTool() have left it
\* an operation for every package of components.xml, unless a write failed or a process
\* died in between.
THEOREM NoPackageLeftAlone == SessionSpec => []RecordsInStep
<1>1. SessionLists /\ PackagesInStep => RecordsInStep
  BY DEF SessionLists, ListsInStep, PackagesInStep, RecordsInStep
<1> QED
  BY <1>1, ListsInvariant, PackagesInvariant, PTL

-----------------------------------------------------------------------------
(* What was selected                                                       *)

\* What the session has still to do is on its two lists: every selected component is
\* installed or still to be installed; and every installed one was selected or has
\* operations still to be undone. What is on the other lists is of selected components.
TargetInStep ==
  /\ phase \in {"rollback", "rolledBack"} => statusCanceledOrFailed
  /\ phase \in Removing \cup Working => ToSet(toInstall) \subseteq target
  /\ phase \in Removing \cup Working \cup {"installed"} =>
       target \subseteq hub \cup ToSet(toInstall)
  /\ phase \in Working \cup {"installed"} =>
       /\ ~writeFailed => hub \ stray \subseteq target
       /\ ComponentsOf(session) \subseteq target
       /\ mode \in {"Installer", "PackageManager"} => ComponentsOf(old) \subseteq target
  /\ phase \in Removing =>
       /\ ~writeFailed => hub \ stray \subseteq target \cup ComponentsOf(undoList)
       /\ ComponentsOf(undoList) \cap target \subseteq ToSet(toInstall)
       /\ mode = "PackageManager" => ComponentsOf(kept) \subseteq target
       /\ mode = "Uninstaller" => toInstall = <<>>

\* What a step of the transaction does to the plan: it ends it, as canceled or failed,
\* or it moves components from what is to be installed to what is, and records
\* operations of the plan.
LEMMA PlanCarriedOut ==
  ASSUME TransactionInv, PlanInStep, TransactionStep \/ Interrupt
  PROVE  \/ /\ phase' \in {"rollback", "rolledBack"}
            /\ statusCanceledOrFailed' \/ (phase = "rollback" /\ status' = status)
         \/ /\ phase \in Working /\ phase' \in Working \cup {"installed"}
            /\ ToSet(toInstall') \subseteq ToSet(toInstall)
            /\ hub \cup ToSet(toInstall) = hub' \cup ToSet(toInstall')
            /\ ComponentsOf(session') \subseteq ComponentsOf(session) \cup ToSet(toInstall)
<1> USE DEF Working
<1>t. /\ TransactionTypeOK /\ Control
      /\ toInstall \in Seq(Components) /\ session \in Seq(Operations)
  BY DEF TransactionInv, TransactionTypeOK
<1> DEFINE Ended ==
             /\ phase' \in {"rollback", "rolledBack"}
             /\ statusCanceledOrFailed' \/ (phase = "rollback" /\ status' = status)
           GoesOn ==
             /\ phase \in Working /\ phase' \in Working \cup {"installed"}
             /\ ToSet(toInstall') \subseteq ToSet(toInstall)
             /\ hub \cup ToSet(toInstall) = hub' \cup ToSet(toInstall')
             /\ ComponentsOf(session') \subseteq ComponentsOf(session) \cup ToSet(toInstall)
<1>1. ASSUME NEW s, Throw(s) PROVE Ended
  BY <1>1 DEF Throw, statusCanceledOrFailed
<1>2. ASSUME phase \in Working, phase' \in Working \cup {"installed"},
             UNCHANGED <<toInstall, hub, session>>
      PROVE  GoesOn
  BY <1>2 DEF ComponentsOf
<1> HIDE DEF Ended, GoesOn
<1>3. ASSUME \/ \E s \in {"Running", "Canceled"} : PrepareFails(s)
             \/ CheckOperation \/ ElevationRefused \/ \E refused \in BOOLEAN : BackupDone(refused)
      PROVE  Ended \/ GoesOn
  BY <1>1, <1>2, <1>3 DEF PrepareFails, CheckOperation, ElevationRefused, BackupDone, workVars,
                          hubVars
<1>4. ASSUME CollectDone PROVE Ended \/ GoesOn
  BY <1>1, <1>2, <1>4 DEF CollectDone, InstallNext, hubVars
<1>5. ASSUME \/ StartBackup \/ UnpackDone \/ BackupReturns \/ AnswerRetry \/ AnswerCancel
             \/ \E op \in UnpackOps :
                  TakeResult(op) \/ PoolStep(op) \/ \E ok \in BOOLEAN : UnpackOperation(op, ok)
             \/ \E ok \in BOOLEAN : PerformReturns(ok)
             \/ Interrupt
      PROVE  GoesOn
  BY <1>2, <1>5 DEF StartBackup, UnpackDone, BackupReturns, AnswerRetry, AnswerCancel, TakeResult,
                    PoolStep, UnpackOperation, PerformReturns, Interrupt, flowVars, workVars, hubVars
<1>6. ASSUME ComponentInstalled PROVE GoesOn
  <2>1. /\ phase = "install" /\ toInstall # <<>> /\ toInstall' = Tail(toInstall)
        /\ hub' = hub \cup {Head(toInstall)} /\ session' = session
        /\ phase' \in {"install", "installed"}
    BY <1>6, <1>t DEF ComponentInstalled, InstallNext, Control
  <2>2. ToSet(toInstall) = {Head(toInstall)} \cup ToSet(toInstall')
    BY <1>t, <2>1, ToSetHeadTail
  <2> QED
    BY <2>1, <2>2 DEF GoesOn, ComponentsOf
<1>7. ASSUME NEW ok \in BOOLEAN, NEW ignored \in BOOLEAN, step \in {"succeeded", "failed"},
             Collected(ok, ignored) \/ Handled(ok, ignored), UNCHANGED hubVars
      PROVE  Ended \/ GoesOn
  <2>1. phase \in {"collect", "install"} /\ toInstall' = toInstall /\ Record(current, ok)
    BY <1>7 DEF Collected, Handled
  <2>2. current \in Operations /\ ComponentOf[current] \in ToSet(toInstall)
    BY <1>7, <1>t, <2>1, CurrentOfPlan
  <2>3. ToSet(Append(session, current)) = ToSet(session) \cup {current}
    BY <1>t, <2>2, ToSetAppend
  <2>4. ComponentsOf(session') \subseteq ComponentsOf(session) \cup ToSet(toInstall)
    BY <2>1, <2>2, <2>3 DEF Record, ComponentsOf
  <2>5. CASE phase' = phase
    BY <1>7, <2>1, <2>4, <2>5 DEF GoesOn, hubVars
  <2>6. CASE phase' # phase
    BY <1>1, <1>7, <2>6 DEF Collected, Handled
  <2> QED
    BY <2>5, <2>6
<1>8. ASSUME Finish \/ AnswerIgnore PROVE Ended \/ GoesOn
  BY <1>7, <1>8 DEF Finish, AnswerIgnore
<1>9. ASSUME RollbackStep PROVE Ended
  BY <1>9 DEF RollbackStep, UndoLast, SkipLast, RollbackDone, flowVars, Ended
<1>10. Ended \/ GoesOn
  BY <1>3, <1>4, <1>5, <1>6, <1>8, <1>9
  DEF TransactionStep, UnpackStep, MainThreadUnpackStep, InstallStep, OperationLoop
<1> QED
  BY <1>10 DEF Ended, GoesOn

\* What runPackageUpdater() undoes and keeps, by what was selected.
LEMMA UpdateSelects ==
  ASSUME EffectsInv, SessionLists, PackagesInStep, NEW m \in Modes, NEW plan \in Plans,
         NEW removed \in SUBSET Components, Update(m, plan, removed)
  PROVE  /\ target' = (hub \ removed) \cup ToSet(plan)
         /\ ~writeFailed => hub \ stray \subseteq target' \cup ComponentsOf(undoList')
         /\ ComponentsOf(undoList') \cap target' \subseteq ToSet(plan)
         /\ m = "PackageManager" => ComponentsOf(kept') \subseteq target'
<1>t. old \in Seq(Operations) /\ hub \in SUBSET Components
  BY DEF EffectsInv, SessionTypeOK, TransactionTypeOK
<1>1. /\ phase = "ready" /\ m \in {"PackageManager", "Updater"}
      /\ m = "Updater" => removed = {}
      /\ target' = (hub \ removed) \cup ToSet(plan)
  BY DEF Update, Select, Begin
<1>2. session = <<>>
  BY <1>1 DEF SessionLists, PlanInStep
<1>3. ~writeFailed => hub \ stray \subseteq ComponentsOf(old)
  BY <1>1, <1>2, CoversOfSession DEF PackagesInStep
<1>4. PICK ops \in Seq(Operations) :
        /\ ToSet(ops) = ToSet(old)
        /\ kept' = Only(ops, {op \in Operations : Keeps(m, op, plan, removed)})
        /\ undoList' = Reverse(Only(ops, {op \in Operations : ~Keeps(m, op, plan, removed)}))
  BY <1>t, UpdateSplits
<1> DEFINE keep == {op \in Operations : Keeps(m, op, plan, removed)}
           rest == {op \in Operations : ~Keeps(m, op, plan, removed)}
<1>5. kept' = Only(ops, keep) /\ undoList' = Reverse(Only(ops, rest))
  BY <1>4
<1>6. /\ \A op \in keep : Keeps(m, op, plan, removed)
      /\ \A op \in rest : ~Keeps(m, op, plan, removed)
      /\ \A op \in Operations : op \in rest \/ op \in keep
      /\ keep \in SUBSET Operations /\ rest \in SUBSET Operations
  OBVIOUS
<1> HIDE DEF keep, rest
<1>7. ToSet(kept') = ToSet(old) \cap keep /\ ToSet(undoList') = ToSet(old) \cap rest
  BY <1>4, <1>5, <1>6, OnlyKeeps, ReverseProperties
<1>8. ~writeFailed => hub \ stray \subseteq target' \cup ComponentsOf(undoList')
  <2> SUFFICES ASSUME ~writeFailed, NEW c \in hub \ stray, c \notin target'
               PROVE  c \in ComponentsOf(undoList')
    OBVIOUS
  <2>1. PICK op \in ToSet(old) : ComponentOf[op] = c /\ c # None
    BY <1>3 DEF ComponentsOf
  <2>2. m = "PackageManager" /\ c \in removed
    BY <1>1
  <2>3. ~Keeps(m, op, plan, removed)
    BY <2>1, <2>2 DEF Keeps
  <2>4. op \in Operations
    BY <1>t, <2>1, LenProperties, ElementOfSeq DEF ToSet
  <2>5. op \in ToSet(undoList')
    BY <1>6, <1>7, <2>1, <2>3, <2>4
  <2> QED
    BY <2>1, <2>5 DEF ComponentsOf
<1>9. ComponentsOf(undoList') \cap target' \subseteq ToSet(plan)
  <2> SUFFICES ASSUME NEW c \in ComponentsOf(undoList') \cap target' PROVE c \in ToSet(plan)
    OBVIOUS
  <2>1. PICK op \in ToSet(undoList') : ComponentOf[op] = c
    BY DEF ComponentsOf
  <2>2. ~Keeps(m, op, plan, removed)
    BY <1>6, <1>7, <2>1
  <2> QED
    BY <1>1, <2>1, <2>2 DEF Keeps
<1>10. m = "PackageManager" => ComponentsOf(kept') \subseteq target'
  <2> SUFFICES ASSUME m = "PackageManager", NEW c \in ComponentsOf(kept') PROVE c \in target'
    OBVIOUS
  <2>1. PICK op \in ToSet(kept') : ComponentOf[op] = c /\ c # None
    BY DEF ComponentsOf
  <2>2. Keeps(m, op, plan, removed)
    BY <1>6, <1>7, <2>1
  <2> QED
    BY <1>1, <2>1, <2>2 DEF Keeps
<1> QED
  BY <1>1, <1>8, <1>9, <1>10

\* Every step leaves what was selected within reach, and the end has reached it.
LEMMA TargetStep ==
  ASSUME EffectsInv, SessionLists, ErrorsInStep, PackagesInStep, TargetInStep,
         SuccessMeansSelected, [SessionNext]_sessionVars
  PROVE  TargetInStep' /\ SuccessMeansSelected'
<1>t. /\ SessionTypeOK /\ OuterControl /\ hub \in SUBSET Components
      /\ old \in Seq(Operations) /\ session \in Seq(Operations)
      /\ kept \in Seq(Operations) /\ undoList \in Seq(Operations)
  BY DEF EffectsInv, SessionTypeOK, TransactionTypeOK
<1>e. ComponentsOf(<<>>) = {} /\ ToSet(<<>>) = {}
  BY CoversOfSession, EmptySeq DEF ToSet
<1>n. None \notin hub
  BY <1>t, TransactionAssumption
<1>c. /\ SessionCovers \subseteq ComponentsOf(session) \cup {None}
      /\ session = <<>> => SessionCovers = {}
  BY CoversOfSession
<1> USE DEF Removing, Working
<1>q. ASSUME phase' \in {"ready", "off"} PROVE TargetInStep' /\ SuccessMeansSelected'
  BY <1>q DEF TargetInStep, SuccessMeansSelected
<1>f. ASSUME phase' \in {"rollback", "finished"}, status' \in {"Canceled", "Failure"}
      PROVE  TargetInStep' /\ SuccessMeansSelected'
  BY <1>f DEF TargetInStep, SuccessMeansSelected, statusCanceledOrFailed
<1>1. ASSUME NEW plan \in Plans, Install(plan) PROVE TargetInStep' /\ SuccessMeansSelected'
  <2>1. /\ phase = "ready" /\ phase' = "prepared" /\ hub = {} /\ old = <<>> /\ toInstall' = plan
        /\ session' = Append(session, TargetDirOp) /\ target' = (hub \ {}) \cup ToSet(plan)
        /\ UNCHANGED <<old, hub, stray, writeFailed>>
    BY <1>1, InstallStarts DEF Install, Select, BeginInstaller, Begin, NewSession, hubVars, crashVars
  <2>2. session = <<>>
    BY <2>1 DEF SessionLists, PlanInStep
  <2>3. TargetDirOp \in Operations /\ ComponentOf[TargetDirOp] = None
    BY TransactionAssumption
  <2>4. ToSet(session') = {TargetDirOp}
    <3>1. ToSet(Append(session, TargetDirOp)) = ToSet(session) \cup {TargetDirOp}
      BY <1>t, <2>3, ToSetAppend
    <3> QED
      BY <1>e, <2>1, <2>2, <3>1
  <2>5. ComponentsOf(session') = {} /\ ComponentsOf(old') = {}
    BY <1>e, <2>1, <2>3, <2>4 DEF ComponentsOf
  <2> QED
    BY <2>1, <2>5 DEF TargetInStep, SuccessMeansSelected
<1>2. ASSUME NEW m \in Modes, NEW plan \in Plans, NEW removed \in SUBSET Components,
             Update(m, plan, removed)
      PROVE  TargetInStep' /\ SuccessMeansSelected'
  <2>1. /\ phase' = "preparing" /\ toInstall' = plan /\ mode' = m /\ m # "Uninstaller"
        /\ UNCHANGED <<hub, stray, writeFailed>>
    BY <1>2 DEF Update, Begin, NewSession, hubVars, crashVars
  <2>2. /\ target' = (hub \ removed) \cup ToSet(plan)
        /\ ~writeFailed => hub \ stray \subseteq target' \cup ComponentsOf(undoList')
        /\ ComponentsOf(undoList') \cap target' \subseteq ToSet(plan)
        /\ m = "PackageManager" => ComponentsOf(kept') \subseteq target'
    BY <1>2, UpdateSelects
  <2> QED
    BY <2>1, <2>2 DEF TargetInStep, SuccessMeansSelected
<1>3. ASSUME Uninstall PROVE TargetInStep' /\ SuccessMeansSelected'
  <2>1. /\ phase = "ready" /\ phase' = "preparing" /\ toInstall' = <<>> /\ mode' = "Uninstaller"
        /\ undoList' = Reverse(old) /\ target' = {} /\ UNCHANGED <<hub, stray, writeFailed>>
    BY <1>3 DEF Uninstall, Begin, NewSession, hubVars, crashVars
  <2>2. session = <<>>
    BY <2>1 DEF SessionLists, PlanInStep
  <2>3. ~writeFailed => hub \ stray \subseteq ComponentsOf(old)
    BY <1>c, <2>1, <2>2 DEF PackagesInStep
  <2>4. ComponentsOf(undoList') = ComponentsOf(old)
    BY <1>t, <2>1, ComponentsOfLists
  <2> QED
    BY <1>e, <2>1, <2>3, <2>4 DEF TargetInStep, SuccessMeansSelected
<1>4. ASSUME \/ \E s \in {"Running", "Canceled"} : PreparingFails(s)
             \/ StartUndo \/ UndoRetry \/ InterruptUndo
             \/ \E flag \in BOOLEAN : CheckUndo(flag) \/ UndoReturns(flag)
      PROVE  TargetInStep' /\ SuccessMeansSelected'
  <2>1. \/ phase' \in {"rollback", "finished"} /\ status' \in {"Canceled", "Failure"}
        \/ /\ phase \in Removing /\ phase' \in Removing
           /\ UNCHANGED <<toInstall, hub, undoList, kept, mode, target, stray, writeFailed>>
    BY <1>4 DEF PreparingFails, StartUndo, InterruptUndo, UndoRetry, CheckUndo, UndoReturns,
                Abandon, Throw, outerVars, undoVars, countVars, crashVars, hubVars, workVars
  <2>2. CASE /\ phase \in Removing /\ phase' \in Removing
             /\ UNCHANGED <<toInstall, hub, undoList, kept, mode, target, stray, writeFailed>>
    BY <2>2 DEF TargetInStep, SuccessMeansSelected, ComponentsOf
  <2> QED
    BY <1>f, <2>1, <2>2
<1>5. ASSUME UndoHandled PROVE TargetInStep' /\ SuccessMeansSelected'
  <2>1. /\ phase = "undo" /\ step \in {"succeeded", "failed"} /\ phase' = "undo"
        /\ undoList' = Tail(undoList) /\ hub' = hub \ {ComponentOf[current]}
        /\ UNCHANGED <<toInstall, kept, mode, target, stray, writeFailed>>
    BY <1>5 DEF UndoHandled, countVars, crashVars, workVars
  <2>2. undoList # <<>> /\ current = Head(undoList)
    BY <1>t, <2>1 DEF OuterControl
  <2>3. ToSet(undoList) = {current} \cup ToSet(undoList')
    BY <1>t, <2>1, <2>2, ToSetHeadTail
  <2>4. /\ ComponentsOf(undoList) \subseteq ComponentsOf(undoList') \cup {ComponentOf[current]}
        /\ ComponentsOf(undoList') \subseteq ComponentsOf(undoList)
        /\ ComponentOf[current] # None => ComponentOf[current] \in ComponentsOf(undoList)
    BY <2>3 DEF ComponentsOf
  <2>5. ComponentsOf(kept') = ComponentsOf(kept) /\ ToSet(toInstall') = ToSet(toInstall)
    BY <2>1
  <2>6. target \subseteq hub' \cup ToSet(toInstall)
    BY <1>n, <2>1, <2>4 DEF TargetInStep
  <2> QED
    BY <2>1, <2>4, <2>5, <2>6 DEF TargetInStep, SuccessMeansSelected
<1>6. ASSUME UndoDone PROVE TargetInStep' /\ SuccessMeansSelected'
  <2>1. /\ phase = "undo" /\ phase' = "prepared" /\ undoList = <<>> /\ old' = kept
        /\ mode \notin {"Installer", "Uninstaller"}
        /\ UNCHANGED <<toInstall, session, hub, mode, target, stray, writeFailed>>
    BY <1>6, <1>t DEF UndoDone, OuterControl, countVars, crashVars, workVars
  <2>2. session = <<>>
    BY <2>1 DEF SessionLists
  <2>3. /\ ComponentsOf(session') = {} /\ ComponentsOf(old') = ComponentsOf(kept)
        /\ ComponentsOf(undoList) = {} /\ ToSet(toInstall') = ToSet(toInstall)
    BY <1>e, <2>1, <2>2
  <2> QED
    BY <2>1, <2>3 DEF TargetInStep, SuccessMeansSelected
<1>7. ASSUME UninstallDone PROVE TargetInStep' /\ SuccessMeansSelected'
  <2>1. /\ phase = "undo" /\ phase' = "finished" /\ undoList = <<>> /\ mode = "Uninstaller"
        /\ UNCHANGED <<mode, hub, target, stray, writeFailed>>
    BY <1>7 DEF UninstallDone, countVars, crashVars
  <2>2. target \subseteq hub /\ (~writeFailed => hub \ stray \subseteq target)
    BY <1>e, <2>1 DEF TargetInStep
  <2> QED
    BY <2>1, <2>2 DEF TargetInStep, SuccessMeansSelected
<1>r. ASSUME phase = "installed", phase' = "finished", ToSet(old' \o session') = ToSet(old \o session),
             UNCHANGED <<mode, hub, target, stray>>, writeFailed => writeFailed'
      PROVE  TargetInStep' /\ SuccessMeansSelected'
  <2>1. toInstall = <<>>
    BY <1>r DEF SessionLists, PlanInStep
  <2>2. ComponentsOf(old' \o session') = ComponentsOf(old) \cup ComponentsOf(session)
    <3>1. ComponentsOf(old \o session) = ComponentsOf(old) \cup ComponentsOf(session)
      BY <1>t, ComponentsOfLists
    <3> QED
      BY <1>r, <3>1 DEF ComponentsOf
  <2>3. target \subseteq hub
    BY <1>e, <1>r, <2>1 DEF TargetInStep
  <2>4. ~writeFailed => /\ hub \ stray \subseteq target
                        /\ hub \ stray \subseteq ComponentsOf(old) \cup ComponentsOf(session)
    BY <1>c, <1>n, <1>r DEF TargetInStep, PackagesInStep
  <2>5. /\ ComponentsOf(session) \subseteq target
        /\ mode \in {"Installer", "PackageManager"} => ComponentsOf(old) \subseteq target
    BY <1>r DEF TargetInStep
  <2> QED
    BY <1>r, <2>2, <2>3, <2>4, <2>5 DEF TargetInStep, SuccessMeansSelected
<1>w. old \o session \in Seq(Operations) /\ (old \o session) \o <<>> = old \o session
  BY <1>t, ConcatProperties, ConcatEmptySeq
<1>8. ASSUME UpdaterDone PROVE TargetInStep' /\ SuccessMeansSelected'
  <2>1. /\ phase = "installed" /\ phase' = "finished" /\ old' = old \o session /\ session' = <<>>
        /\ UNCHANGED <<mode, hub, target, stray, writeFailed>>
    BY <1>8 DEF UpdaterDone, hubVars, countVars, crashVars
  <2> QED
    BY <1>r, <1>w, <2>1
<1>9. ASSUME SessionAborted PROVE TargetInStep' /\ SuccessMeansSelected'
  <2>1. phase = "rolledBack" /\ phase' = "finished" /\ status' = status
    BY <1>9 DEF SessionAborted
  <2> QED
    BY <1>f, <2>1 DEF TargetInStep, statusCanceledOrFailed
<1>10. ASSUME NEW outcome \in Outcomes, InstallerDone(outcome)
       PROVE  TargetInStep' /\ SuccessMeansSelected'
  <2>1. /\ phase = "installed" /\ phase' = "finished" /\ WriteTool(outcome)
        /\ NoteFailure(outcome) /\ UNCHANGED <<mode, hub, target, stray>>
    BY <1>10 DEF InstallerDone, crashVars
  <2>2. \/ old' = old \o session /\ session' = <<>>
        \/ UNCHANGED <<old, session>>
    BY <2>1 DEF WriteTool
  <2>3. writeFailed => writeFailed'
    BY <2>1 DEF NoteFailure
  <2> QED
    BY <1>r, <1>w, <2>1, <2>2, <2>3
<1>11. ASSUME \/ \E outcome \in Outcomes : Restart(outcome) \/ Quit(outcome)
              \/ \E half \in SUBSET Operations : Crash(half)
              \/ Launch
       PROVE  TargetInStep' /\ SuccessMeansSelected'
  <2>1. phase' \in {"ready", "off"}
    BY <1>11 DEF Restart, Quit, Crash, Launch
  <2> QED
    BY <1>q, <2>1
<1>12. ASSUME (TransactionStep \/ Interrupt) /\ UNCHANGED outerVars
       PROVE  TargetInStep' /\ SuccessMeansSelected'
  <2>1. /\ phase \in TransactionPhases
        /\ UNCHANGED <<mode, target, stray, writeFailed>>
    BY <1>12, InnerStep DEF TransactionPhases, outerVars, countVars, crashVars
  <2>2. TransactionInv /\ PlanInStep
    BY <2>1, InnerInv DEF SessionLists
  <2>3. old' = old
    BY <1>12, OldKept
  <2>4. CASE /\ phase' \in {"rollback", "rolledBack"}
             /\ statusCanceledOrFailed' \/ (phase = "rollback" /\ status' = status)
    BY <2>4 DEF TargetInStep, SuccessMeansSelected, statusCanceledOrFailed
  <2>5. CASE /\ phase \in Working /\ phase' \in Working \cup {"installed"}
             /\ ToSet(toInstall') \subseteq ToSet(toInstall)
             /\ hub \cup ToSet(toInstall) = hub' \cup ToSet(toInstall')
             /\ ComponentsOf(session') \subseteq ComponentsOf(session) \cup ToSet(toInstall)
    <3>1. ComponentsOf(old') = ComponentsOf(old)
      BY <2>3
    <3> QED
      BY <2>1, <2>5, <3>1 DEF TargetInStep, SuccessMeansSelected
  <2> QED
    BY <1>12, <2>2, <2>4, <2>5, PlanCarriedOut
<1>13. CASE UNCHANGED sessionVars
  <2>1. UNCHANGED <<phase, status, toInstall, old, session, hub, undoList, kept, mode, target,
                    stray, writeFailed>>
    BY <1>13 DEF sessionVars, transactionVars, outerVars, undoVars, flowVars, countVars, crashVars,
                 hubVars, workVars
  <2> QED
    BY <2>1 DEF TargetInStep, SuccessMeansSelected, ComponentsOf, statusCanceledOrFailed
<1> QED
  BY <1>1, <1>2, <1>3, <1>4, <1>5, <1>6, <1>7, <1>8, <1>9, <1>10, <1>11, <1>12, <1>13
  DEF SessionNext, BeginSession, UndoStep, EndOfSession, EndOfProcess

\* Nothing is selected at first.
LEMMA TargetInit == SessionInit => TargetInStep /\ SuccessMeansSelected
BY DEF SessionInit, TransactionInit, TargetInStep, SuccessMeansSelected, Removing, Working

\* The invariant about what was selected.
LEMMA TargetInvariant == SessionSpec => [](TargetInStep /\ SuccessMeansSelected)
<1>1. SessionInit => TargetInStep /\ SuccessMeansSelected
  BY TargetInit
<1>2. /\ EffectsInv /\ (SessionLists /\ OrderInStep) /\ (ErrorsInStep /\ PackagesInStep)
      /\ (TargetInStep /\ SuccessMeansSelected)
      /\ [SessionNext]_sessionVars
      => (TargetInStep /\ SuccessMeansSelected)'
  BY TargetStep
<1> QED
  BY <1>1, <1>2, EffectsInvariant, ListsInvariant, PackagesInvariant, PTL DEF SessionSpec

\* When runInstaller(), runPackageUpdater() or runUninstaller() reports Success, what is
\* installed is what was selected, with the operations that its removal will need, as
\* long as no write of the tool failed: for every product, every selection, and every
\* sequence of sessions before it.
THEOREM SuccessfulAsSelected == SessionSpec => []SuccessMeansSelected
  BY TargetInvariant, PTL
=============================================================================
