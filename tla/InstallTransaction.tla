-------------------------- MODULE InstallTransaction --------------------------
(***************************************************************************)
(* PackageManagerCorePrivate::unpackAndInstallComponents() and             *)
(* PackageManagerCore::rollBackInstallation(): the part of a session that  *)
(* runs the operations of the components, and takes them back when one of  *)
(* them fails or the user cancels.                                         *)
(*                                                                         *)
(* The main thread walks through the phases.  It spins an event loop while *)
(* an operation runs in another thread, and there, and only there, the     *)
(* user can press Cancel (Interrupt).  The Unpack operations of all        *)
(* components run in the thread pool of ConcurrentOperationRunner; the     *)
(* Install operations then run one at a time, component by component.      *)
(***************************************************************************)
EXTENDS Naturals, Sequences, FiniteSets, SequencesExt

CONSTANTS
  Components,      \* the components of the product
  None,            \* no component, no operation
  Operations,      \* the operation objects of all components
  ComponentOf,     \* value("component"): a component, or None
  UnpackOps,       \* the operations of the Unpack group (Extract)
  InstallOps,      \* component -> its operations of the Install group
  TargetDirOp,     \* the "uninstall-only" Mkdir of the target directory
  Plans,           \* the lists orderedComponentsToInstall() may return
  Fragile,         \* operations whose perform or undo may fail half way
  BadArguments,    \* operations that always fail with InvalidArguments
  Elevated,        \* operations with "admin" set: elevation may be refused
  MaxThreadCount,  \* maxConcurrentOperations()
  MaxRetries       \* bound: Retry answers per session

ASSUME TransactionAssumption ==
  /\ None \notin Components /\ None \notin Operations
  /\ ComponentOf \in [Operations -> Components \cup {None}]
  /\ UnpackOps \in SUBSET Operations
  /\ InstallOps \in [Components -> Seq(Operations \ UnpackOps)]
  /\ TargetDirOp \in Operations \ UnpackOps /\ ComponentOf[TargetDirOp] = None
  /\ Plans \in SUBSET Seq(Components)
  /\ {Fragile, BadArguments, Elevated} \subseteq SUBSET Operations
  /\ MaxThreadCount \in Nat \ {0} /\ MaxRetries \in Nat

\* An operation is created by its component, which notes its own name in it and
\* puts it in one place of its list; an operation without a component is of no
\* list. Among the Install operations is one that cannot fail for its arguments:
\* Component::operations() adds a MinimumProgress operation to every component.
\* A component is installed once in a session.
ASSUME ProductAssumption ==
  /\ \A c \in Components :
       /\ \A op \in Operations \ UnpackOps :
            op \in ToSet(InstallOps[c]) <=> ComponentOf[op] = c
       /\ IsInjective(InstallOps[c])
       /\ \E op \in ToSet(InstallOps[c]) : op \notin BadArguments
  /\ \A plan \in Plans : IsInjective(plan)

VARIABLES
  phase,       \* where the main thread is in the session
  step,        \* where it is with the operation at hand
  status,      \* m_status
  current,     \* the operation at hand
  toInstall,   \* components left to install, the first one is being installed
  opsLeft,     \* its operations left to perform
  uncollected, \* operations whose result of the runner is not yet handled
  unpackError, \* the error text remembered for the end of the loop is not empty
  old,         \* m_performedOperationsOld
  session,     \* m_performedOperationsCurrentSession
  error,       \* error() of each operation
  effect,      \* what each operation has done to the machine
  lost,        \* operations that no undo will reach, their effect in place
  hub,         \* the packages of the LocalPackageHub
  hubOnDisk,   \* the packages of components.xml
  retries,     \* Retry answers given in this session
  watched, task, value, canceled, results, looping  \* the runner's

Runner == INSTANCE ConcurrentOperationRunner WITH Operations <- UnpackOps

flowVars == <<phase, step, status, current>>
workVars == <<toInstall, opsLeft, uncollected, unpackError>>
machineVars == <<error, effect, lost>>
hubVars == <<hub, hubOnDisk>>
poolVars == <<watched, task, value, canceled, results, looping>>
transactionVars == <<flowVars, workVars, old, session, machineVars, hubVars,
                     retries, poolVars>>

\* "off", "preparing", "undo" and "finished" are used by PackageManagerSession.
Phases == {"off", "ready", "preparing", "undo", "prepared", "backup", "unpack",
           "collect", "install", "installed", "rollback", "rolledBack", "finished"}
Steps == {"none", "check", "backup", "perform", "succeeded", "failed"}
Status == {"Unfinished", "Running", "Success", "Canceled", "Failure"}

TransactionTypeOK ==
  /\ phase \in Phases /\ step \in Steps /\ status \in Status
  /\ current \in Operations \cup {None}
  /\ toInstall \in Seq(Components) /\ opsLeft \in Seq(Operations \ UnpackOps)
  /\ uncollected \in SUBSET UnpackOps /\ unpackError \in BOOLEAN
  /\ old \in Seq(Operations) /\ session \in Seq(Operations)
  /\ error \in [Operations -> {"NoError", "InvalidArguments", "UserDefinedError"}]
  /\ effect \in [Operations -> {"none", "partial", "done"}]
  /\ lost \in SUBSET Operations
  /\ hub \in SUBSET Components /\ hubOnDisk \in SUBSET Components
  /\ retries \in 0..MaxRetries
  /\ Runner!RunnerTypeOK

TransactionInit ==
  /\ phase = "ready" /\ step = "none" /\ status = "Unfinished" /\ current = None
  /\ toInstall = <<>> /\ opsLeft = <<>> /\ uncollected = {} /\ unpackError = FALSE
  /\ old = <<>> /\ session = <<>>
  /\ error = [op \in Operations |-> "NoError"]
  /\ effect = [op \in Operations |-> "none"] /\ lost = {}
  /\ hub = {} /\ hubOnDisk = {}
  /\ retries = 0
  /\ Runner!RunnerInit

-----------------------------------------------------------------------------
(* Helpers                                                                 *)

statusCanceledOrFailed == status \in {"Canceled", "Failure"}

\* throw Error(), caught by runInstaller() or runPackageUpdater() with the
\* status s: Canceled stays, anything else becomes Failure; then roll back.
Throw(s) ==
  /\ status' = IF s = "Canceled" THEN s ELSE "Failure"
  /\ phase' = "rollback" /\ step' = "none" /\ current' = None

\* Mutation: only what succeeded is recorded.
NeedsUndoIfOk(op, ok) == ok

\* The condition on addPerformed(): ok || error() > InvalidArguments.
NeedsUndo(op, ok) == ok \/ error[op] = "UserDefinedError"

UnpackOpsOf(I) == {op \in UnpackOps : ComponentOf[op] \in I}

\* performOperation() ran to its end: it succeeded, it was refused its
\* arguments before it did anything, or it broke off half way.
Performed(op, ok) ==
  /\ ok = TRUE => op \notin BadArguments
  /\ ok = FALSE => op \in BadArguments \cup Fragile
  /\ effect' = [effect EXCEPT ![op] =
       IF ok THEN "done" ELSE IF op \in BadArguments THEN effect[op] ELSE "partial"]
  /\ error' = [error EXCEPT ![op] =
       IF ok THEN error[op]
       ELSE IF op \in BadArguments THEN "InvalidArguments" ELSE "UserDefinedError"]

\* addPerformed(operation), or not. After a cancel an operation may be left
\* out with its effect in place: no undo will reach it.
Record(op, ok) ==
  /\ session' = IF NeedsUndo(op, ok) THEN Append(session, op) ELSE session
  /\ lost' = IF NeedsUndo(op, ok) THEN lost \ {op}
             ELSE IF status = "Canceled" /\ effect[op] # "none"
             THEN lost \cup {op} ELSE lost

\* The local variables and the runner of unpackAndInstallComponents() go.
LocalsGone ==
  /\ toInstall' = <<>> /\ opsLeft' = <<>> /\ uncollected' = {} /\ unpackError' = FALSE
  /\ watched' = {} /\ canceled' = {} /\ looping' = FALSE
  /\ task' = [op \in UnpackOps |-> "none"]
  /\ value' = [op \in UnpackOps |-> FALSE]
  /\ results' = [op \in UnpackOps |-> "none"]

\* Go on with the components of the sequence cs.
InstallNext(cs) ==
  /\ toInstall' = cs
  /\ IF cs = <<>>
     THEN phase' = "installed" /\ step' = "none" /\ opsLeft' = <<>>
     ELSE phase' = "install" /\ step' = "check" /\ opsLeft' = InstallOps[Head(cs)]

-----------------------------------------------------------------------------
(* The start of a session                                                  *)

\* Common to runInstaller() and runPackageUpdater(): the operation objects of
\* the components to install are new.
Begin(plan) ==
  /\ phase = "ready"
  /\ status' = "Running" /\ retries' = 0
  /\ toInstall' = plan
  /\ error' = [op \in Operations |->
                 IF ComponentOf[op] \in ToSet(plan) THEN "NoError" ELSE error[op]]
  /\ UNCHANGED <<step, current, opsLeft, uncollected, unpackError, old, hubVars,
                 poolVars>>

\* runInstaller(): creates the target directory and records that (the value
\* RemoveTargetDir is set). clearPackageInfos() starts from an empty hub.
BeginInstaller(plan) ==
  /\ old = <<>> /\ hub = {}
  /\ Begin(plan) /\ phase' = "prepared"
  /\ effect' = [effect EXCEPT ![TargetDirOp] = "done"]
  /\ session' = Append(session, TargetDirOp)
  /\ lost' = lost \ {TargetDirOp}

\* runPackageUpdater() with nothing to remove first.
BeginUpdater(plan) ==
  /\ Begin(plan) /\ phase' = "prepared"
  /\ UNCHANGED <<effect, session, lost>>

\* stopProcessesForUpdates(), gainAdminRights(), downloadNeededArchives() or
\* the creation of the operations fails, or is canceled (s = "Canceled").
PrepareFails(s) ==
  /\ phase = "prepared"
  /\ Throw(s)
  /\ UNCHANGED <<workVars, old, session, machineVars, hubVars, retries, poolVars>>

-----------------------------------------------------------------------------
(* unpackComponents()                                                      *)

StartBackup ==
  /\ phase = "prepared"
  /\ Runner!Run(UnpackOpsOf(ToSet(toInstall)))
  /\ phase' = "backup"
  /\ UNCHANGED <<step, status, current, workVars, old, session, machineVars,
                 hubVars, retries>>

\* The threads of the pool, and the event loop of run().
PoolStep(op) ==
  /\ phase \in {"backup", "unpack"}
  /\ \/ Runner!StartTask(op) \/ Runner!SkipTask(op) \/ Runner!HandleFinished(op)
     \/ phase = "backup" /\ Runner!EndTask(op, TRUE)
  /\ UNCHANGED <<flowVars, workVars, old, session, machineVars, hubVars, retries>>

UnpackOperation(op, ok) ==
  /\ phase = "unpack"
  /\ Runner!EndTask(op, ok) /\ Performed(op, ok)
  /\ UNCHANGED <<flowVars, workVars, old, session, lost, hubVars, retries>>

\* A backup may have found that admin rights are needed, and gainAdminRights()
\* may throw (refused).
BackupDone(refused) ==
  /\ phase = "backup" /\ ~looping
  /\ refused => Elevated \cap UnpackOpsOf(ToSet(toInstall)) # {}
  /\ IF statusCanceledOrFailed \/ refused
     THEN Throw(status) /\ UNCHANGED poolVars
     ELSE /\ Runner!Run(UnpackOpsOf(ToSet(toInstall)))
          /\ phase' = "unpack" /\ UNCHANGED <<step, status, current>>
  /\ UNCHANGED <<workVars, old, session, machineVars, hubVars, retries>>

UnpackDone ==
  /\ phase = "unpack" /\ ~looping
  /\ phase' = "collect" /\ unpackError' = FALSE
  /\ uncollected' = {op \in UnpackOps : results[op] # "none"}
  /\ UNCHANGED <<step, status, current, toInstall, opsLeft, old, session,
                 machineVars, hubVars, retries, poolVars>>

\* The next result, in the order of the hash: it needs the user's decision
\* only if it is a failure and nothing was canceled.
TakeResult(op) ==
  /\ phase = "collect" /\ current = None /\ op \in uncollected
  /\ current' = op
  /\ step' = IF results[op] = "true" THEN "succeeded" ELSE "failed"
  /\ UNCHANGED <<phase, status, workVars, old, session, machineVars, hubVars,
                 retries, poolVars>>

\* The end of the loop body; ignored: the user chose Ignore.
Collected(ok, ignored) ==
  /\ phase = "collect"
  /\ Record(current, ok)
  /\ unpackError' = (unpackError \/ (~ok /\ ~ignored /\ error[current] # "NoError"))
  /\ uncollected' = uncollected \ {current}
  /\ current' = None /\ step' = "none"
  /\ UNCHANGED <<phase, status, toInstall, opsLeft>>

CollectDone ==
  /\ phase = "collect" /\ uncollected = {}
  /\ IF unpackError
     THEN Throw(status) /\ UNCHANGED <<toInstall, opsLeft>>
     ELSE InstallNext(toInstall) /\ UNCHANGED <<status, current>>
  /\ UNCHANGED <<uncollected, unpackError, old, session, machineVars, hubVars,
                 retries, poolVars>>

-----------------------------------------------------------------------------
(* installComponent()                                                      *)

\* Mutation: a cancel is not looked at before the next operation.
CheckNothing ==
  /\ phase = "install" /\ step = "check" /\ opsLeft # <<>>
  /\ current' = Head(opsLeft) /\ step' = "backup"
  /\ UNCHANGED <<phase, status, workVars, old, session, machineVars, hubVars,
                 retries, poolVars>>

CheckOperation ==
  /\ phase = "install" /\ step = "check" /\ opsLeft # <<>>
  /\ IF statusCanceledOrFailed
     THEN Throw(status)
     ELSE /\ current' = Head(opsLeft) /\ step' = "backup"
          /\ UNCHANGED <<phase, status>>
  /\ UNCHANGED <<workVars, old, session, machineVars, hubVars, retries, poolVars>>

\* gainAdminRights() throws.
ElevationRefused ==
  /\ phase = "install" /\ step = "check" /\ opsLeft # <<>>
  /\ ~statusCanceledOrFailed /\ Head(opsLeft) \in Elevated
  /\ Throw(status)
  /\ UNCHANGED <<workVars, old, session, machineVars, hubVars, retries, poolVars>>

BackupReturns ==
  /\ phase = "install" /\ step = "backup"
  /\ step' = "perform"
  /\ UNCHANGED <<phase, status, current, workVars, old, session, machineVars,
                 hubVars, retries, poolVars>>

\* The end of the loop body, the next operation or the throw included.
Handled(ok, ignored) ==
  /\ phase = "install"
  /\ Record(current, ok)
  /\ IF ok \/ ignored
     THEN /\ opsLeft' = Tail(opsLeft) /\ step' = "check" /\ current' = None
          /\ UNCHANGED <<phase, status>>
     ELSE Throw(status) /\ UNCHANGED opsLeft
  /\ UNCHANGED <<toInstall, uncollected, unpackError>>

\* Mutations: the package is named by the wrong variable; the component is
\* marked as installed before its operations have run.
InstalledCurrent ==
  /\ phase = "install" /\ step = "check" /\ opsLeft = <<>>
  /\ hub' = hub \cup {current} /\ hubOnDisk' = hub'
  /\ InstallNext(Tail(toInstall))
  /\ UNCHANGED <<status, current, uncollected, unpackError, old, session,
                 machineVars, retries, poolVars>>
InstalledEarly ==
  /\ phase = "install" /\ step = "check"
  /\ hub' = hub \cup {Head(toInstall)} /\ hubOnDisk' = hub'
  /\ InstallNext(Tail(toInstall))
  /\ UNCHANGED <<status, current, uncollected, unpackError, old, session,
                 machineVars, retries, poolVars>>

ComponentInstalled ==
  /\ phase = "install" /\ step = "check" /\ opsLeft = <<>>
  /\ hub' = hub \cup {Head(toInstall)} /\ hubOnDisk' = hub'
  /\ InstallNext(Tail(toInstall))
  /\ UNCHANGED <<status, current, uncollected, unpackError, old, session,
                 machineVars, retries, poolVars>>

-----------------------------------------------------------------------------
(* The loop around a failed operation, in both phases                      *)

PerformReturns(ok) ==
  /\ phase \in {"collect", "install"} /\ step = "perform"
  /\ Performed(current, ok)
  /\ step' = IF ok THEN "succeeded" ELSE "failed"
  /\ UNCHANGED <<phase, status, current, workVars, old, session, lost, hubVars,
                 retries, poolVars>>

\* Success, or a failure that nobody is asked about since the user canceled.
Finish ==
  /\ \/ step = "succeeded" /\ (Collected(TRUE, FALSE) \/ Handled(TRUE, FALSE))
     \/ /\ step = "failed" /\ status = "Canceled"
        /\ Collected(FALSE, FALSE) \/ Handled(FALSE, FALSE)
  /\ UNCHANGED <<old, error, effect, hubVars, retries, poolVars>>

\* Mutation: the operation is recorded at each attempt.
RetryAndRecord ==
  /\ phase \in {"collect", "install"}
  /\ step = "failed" /\ status # "Canceled"
  /\ retries < MaxRetries /\ retries' = retries + 1
  /\ step' = "perform"
  /\ Record(current, FALSE)
  /\ UNCHANGED <<phase, status, current, workVars, old, error, effect, hubVars,
                 poolVars>>

AnswerRetry ==
  /\ phase \in {"collect", "install"}
  /\ step = "failed" /\ status # "Canceled"
  /\ retries < MaxRetries /\ retries' = retries + 1
  /\ step' = "perform"
  /\ UNCHANGED <<phase, status, current, workVars, old, session, machineVars,
                 hubVars, poolVars>>

AnswerIgnore ==
  /\ step = "failed" /\ status # "Canceled"
  /\ Collected(FALSE, TRUE) \/ Handled(FALSE, TRUE)
  /\ UNCHANGED <<old, error, effect, hubVars, retries, poolVars>>

AnswerCancel ==
  /\ phase \in {"collect", "install"}
  /\ step = "failed" /\ status # "Canceled"
  /\ status' = "Canceled"
  /\ UNCHANGED <<phase, step, current, workVars, old, session, machineVars,
                 hubVars, retries, poolVars>>

\* interrupt() from the GUI, while the main thread is in an event loop.
Interrupt ==
  /\ status = "Running"
  /\ \/ phase \in {"backup", "unpack"} /\ looping
     \/ phase \in {"collect", "install"} /\ step \in {"backup", "perform"}
  /\ status' = "Canceled"
  /\ Runner!Cancel
  /\ UNCHANGED <<phase, step, current, workVars, old, session, machineVars,
                 hubVars, retries>>

-----------------------------------------------------------------------------
(* rollBackInstallation() and the end of the session                       *)

\* Mutations: the package stays in the hub; the undo starts with the first.
UndoButKeep(ok) ==
  LET op == Last(session) IN
  /\ phase = "rollback" /\ session # <<>> /\ (ok \/ op \in Fragile)
  /\ session' = Front(session)
  /\ effect' = [effect EXCEPT ![op] = IF ok THEN "none" ELSE effect[op]]
  /\ lost' = IF ok THEN lost \ {op} ELSE lost \cup {op}
  /\ UNCHANGED <<flowVars, workVars, old, error, hubVars, retries, poolVars>>
UndoFirst(ok) ==
  LET op == Head(session) IN
  /\ phase = "rollback" /\ session # <<>> /\ (ok \/ op \in Fragile)
  /\ session' = Tail(session)
  /\ effect' = [effect EXCEPT ![op] = IF ok THEN "none" ELSE effect[op]]
  /\ lost' = IF ok THEN lost \ {op} ELSE lost \cup {op}
  /\ hub' = hub \ {ComponentOf[op]} /\ hubOnDisk' = hub'
  /\ UNCHANGED <<flowVars, workVars, old, error, retries, poolVars>>

\* Undo of the last recorded operation. Its result is not looked at. The
\* target directory goes only when nothing is left in it (forceremoval).
UndoLast(ok) ==
  LET op == Last(session) IN
  /\ phase = "rollback" /\ session # <<>>
  /\ op = TargetDirOp => (ok <=> \A o \in Operations \ {op} : effect[o] = "none")
  /\ op # TargetDirOp => (ok \/ op \in Fragile)
  /\ session' = Front(session)
  /\ effect' = [effect EXCEPT ![op] = IF ok THEN "none" ELSE effect[op]]
  /\ lost' = IF ok THEN lost \ {op} ELSE lost \cup {op}
  /\ hub' = hub \ {ComponentOf[op]} /\ hubOnDisk' = hub'
  /\ UNCHANGED <<flowVars, workVars, old, error, retries, poolVars>>

\* gainAdminRights() throws: the operation is already off the list.
SkipLast ==
  LET op == Last(session) IN
  /\ phase = "rollback" /\ session # <<>>
  /\ op \in Elevated
  /\ session' = Front(session)
  /\ lost' = lost \cup {op}
  /\ UNCHANGED <<flowVars, workVars, old, error, effect, hubVars, retries, poolVars>>

RollbackDone ==
  /\ phase = "rollback" /\ session = <<>>
  /\ phase' = "rolledBack"
  /\ LocalsGone
  /\ UNCHANGED <<step, status, current, old, session, machineVars, hubVars, retries>>

\* commitSessionOperations() and setStatus(Success).
Commit ==
  /\ phase = "installed"
  /\ old' = old \o session /\ session' = <<>>
  /\ status' = "Success" /\ phase' = "ready"
  /\ LocalsGone
  /\ UNCHANGED <<step, current, machineVars, hubVars, retries>>

AbortEnds ==
  /\ phase = "rolledBack"
  /\ phase' = "ready"
  /\ UNCHANGED <<step, status, current, workVars, old, session, machineVars,
                 hubVars, retries, poolVars>>

-----------------------------------------------------------------------------
MainThreadUnpackStep ==
  \/ StartBackup \/ UnpackDone \/ CollectDone
  \/ \E refused \in BOOLEAN : BackupDone(refused)
  \/ \E op \in UnpackOps : TakeResult(op)

UnpackStep ==
  \/ MainThreadUnpackStep
  \/ \E op \in UnpackOps :
       PoolStep(op) \/ \E ok \in BOOLEAN : UnpackOperation(op, ok)

InstallStep ==
  CheckOperation \/ ElevationRefused \/ BackupReturns \/ ComponentInstalled

OperationLoop ==
  \/ \E ok \in BOOLEAN : PerformReturns(ok)
  \/ Finish \/ AnswerRetry \/ AnswerIgnore \/ AnswerCancel

RollbackStep ==
  (\E ok \in BOOLEAN : UndoLast(ok)) \/ SkipLast \/ RollbackDone

TransactionStep ==
  \/ \E s \in {"Running", "Canceled"} : PrepareFails(s)
  \/ UnpackStep \/ InstallStep \/ OperationLoop \/ RollbackStep

\* A product without maintenance sessions: every component is installed once.
BeginSome ==
  \E plan \in Plans :
    ToSet(plan) \cap hub = {} /\ (BeginInstaller(plan) \/ BeginUpdater(plan))

TransactionNext ==
  BeginSome \/ TransactionStep \/ Interrupt \/ Commit \/ AbortEnds

\* The threads of the pool and of performOperationThreaded() end, events are
\* delivered, and the user answers message boxes (MaxRetries bounds Retry).
\* Nothing makes the user start a session or press Cancel.
TransactionFairness ==
  /\ \A op \in UnpackOps :
       /\ WF_transactionVars(PoolStep(op))
       /\ WF_transactionVars(\E ok \in BOOLEAN : UnpackOperation(op, ok))
  /\ WF_transactionVars(MainThreadUnpackStep)
  /\ WF_transactionVars(InstallStep \/ OperationLoop \/ RollbackStep \/ Commit \/ AbortEnds)

TransactionSpec ==
  TransactionInit /\ [][TransactionNext]_transactionVars /\ TransactionFairness

-----------------------------------------------------------------------------
(* Properties                                                              *)

Recorded == ToSet(old) \cup ToSet(session)

\* The operations some code still holds in its hands: the one at hand, those
\* of the pool, those whose result is still to be looked at.
InFlight ==
  ({current} \ {None}) \cup uncollected
    \cup {op \in UnpackOps : phase = "unpack" /\ task[op] \in {"running", "ended"}}

\* Whatever an operation did to the machine, it is either recorded for undo,
\* or still being handled, or its undo was tried in vain, or it was dropped in
\* a canceled session: without a cancel nothing is ever forgotten. This is what
\* the remarks on addPerformed() promise for a failed operation that "still
\* needs an undo call to cleanup".
EffectsTracked ==
  \A op \in Operations :
    effect[op] # "none" => op \in Recorded \cup InFlight \cup lost

\* No operation is recorded twice, so none is undone twice.
RecordedOnce ==
  LET all == old \o session IN
  \A i, j \in DOMAIN all : all[i] = all[j] => i = j

\* A component enters components.xml only with all its operations run: each
\* is recorded for its removal, or the user chose to ignore its failure, or
\* its undo was tried and did not work out.
InstalledMeansRun ==
  \A op \in Operations :
    ComponentOf[op] \in hub => op \in Recorded \cup lost \/ error[op] = "InvalidArguments"

\* When a session is over nothing is left to be undone, and a session that
\* was rolled back leaves none of its components in components.xml, except
\* where an undo was not possible.
RolledBackIsGone ==
  phase = "rolledBack" =>
    /\ session = <<>>
    /\ \A c \in hub : \E op \in ToSet(old) \cup lost : ComponentOf[op] = c

\* The records agree with each other in these three ways.
RecordsAgree == RecordedOnce /\ InstalledMeansRun /\ RolledBackIsGone

\* Rollback takes the installation apart from the top: the files of an
\* archive stay until every operation that ran after the unpacking, on top of
\* these files, has been undone or given up.
InstallUndoneBeforeUnpack ==
  [][\A op \in UnpackOps :
       effect[op] # "none" /\ effect'[op] = "none" =>
         \A c \in Components : \A p \in ToSet(InstallOps[c]) :
           effect[p] # "none" => p \in ToSet(old) \cup lost]_transactionVars

\* After Cancel no new operation is begun: not by a thread of the pool, nor by
\* installComponent(), which lets the one operation it has at hand finish.
CancelStopsNewWork ==
  [][status = "Canceled" /\ status' = "Canceled" =>
       /\ \A op \in UnpackOps : task[op] = "queued" => task'[op] # "running"
       /\ phase = "install" => current' \in {current, None}]_transactionVars

\* rollBackInstallation(): "Cancels the installation and performs the UNDO
\* step of all already executed operations."
RollbackUndoesAll ==
  phase = "rolledBack" =>
    \A op \in Operations : effect[op] # "none" => op \in ToSet(old)
=============================================================================
