------------------------ MODULE PackageManagerSession ------------------------
(***************************************************************************)
(* The installer and the maintenance tool over their whole life: sessions  *)
(* of runInstaller(), runPackageUpdater() and runUninstaller(), several of *)
(* them in one process (the Restart button), and processes that hand over  *)
(* to each other through components.xml (the local package hub) and the    *)
(* operation list written into the maintenance tool.                       *)
(*                                                                         *)
(* The installation half of a session is InstallTransaction; this module   *)
(* puts the removal half before it and the bookkeeping around it.  A       *)
(* process may die at any moment: it leaves components.xml, the tool and   *)
(* what its operations have done so far.                                   *)
(***************************************************************************)
EXTENDS InstallTransaction

CONSTANTS
  Order,            \* the components, requirements first
  Requires,         \* component -> the components it depends on
  MaxSessions,      \* bound: sessions in all
  MaxRestarts,      \* bound: uses of the Restart button per process
  ToolWriteMayFail, \* whether writing the maintenance tool may fail
  MayCancelRemoval, \* whether the user presses Cancel while removing
  MaxCrashes        \* bound: processes that die

\* Graph::sort() over components(All): every component is in the order, once, after
\* those it depends on. The MinimumProgress operation that Component::operations()
\* adds to every component needs no arguments and no admin rights.
ASSUME SessionAssumption ==
  /\ Order \in Seq(Components) /\ ToSet(Order) = Components /\ IsInjective(Order)
  /\ \A i, j \in DOMAIN Order : Order[j] \in Requires[Order[i]] => j < i
  /\ \A c \in Components :
       \E op \in ToSet(InstallOps[c]) : op \notin BadArguments \cup Elevated
  /\ Requires \in [Components -> SUBSET Components]
  /\ MaxSessions \in Nat /\ MaxRestarts \in Nat /\ MaxCrashes \in Nat
  /\ ToolWriteMayFail \in BOOLEAN /\ MayCancelRemoval \in BOOLEAN

VARIABLES
  mode,        \* m_magicBinaryMarker: which program is running
  undoList,    \* undoOperations left to run
  kept,        \* nonRevertedOperations
  deleted,     \* the operations of m_performedOperationsOld that were deleted
  tool,        \* the operations listed in the maintenance tool; None: no tool
  needToWrite, \* m_needToWriteMaintenanceTool
  areSorted,   \* the value "installedOperationAreSorted"
  target,      \* the components that are to be installed after this session
  writeFailed, \* some write of the maintenance tool has failed
  stray,       \* the packages that processes which died left without operations
  sessions, restarts, crashes  \* counters for the bounds

undoVars == <<undoList, kept, deleted>>
toolVars == <<tool, needToWrite, areSorted>>
crashVars == <<stray, crashes>>
countVars == <<target, writeFailed, sessions, restarts, crashVars>>
outerVars == <<mode, undoVars, toolVars, countVars>>
sessionVars == <<transactionVars, outerVars>>

Modes == {"Installer", "PackageManager", "Updater", "Uninstaller"}

SessionTypeOK ==
  /\ TransactionTypeOK
  /\ mode \in Modes
  /\ undoList \in Seq(Operations) /\ kept \in Seq(Operations)
  /\ deleted \in SUBSET Operations
  /\ tool \in Seq(Operations) \cup {None}
  /\ needToWrite \in BOOLEAN /\ areSorted \in BOOLEAN
  /\ target \in SUBSET Components /\ writeFailed \in BOOLEAN
  /\ sessions \in 0..MaxSessions /\ restarts \in 0..MaxRestarts
  /\ stray \in SUBSET Components /\ crashes \in 0..MaxCrashes

SessionInit ==
  /\ TransactionInit
  /\ mode = "Installer"
  /\ undoList = <<>> /\ kept = <<>> /\ deleted = {}
  /\ tool = None /\ needToWrite = FALSE /\ areSorted = FALSE
  /\ target = {} /\ writeFailed = FALSE /\ sessions = 0 /\ restarts = 0
  /\ stray = {} /\ crashes = 0

-----------------------------------------------------------------------------
(* Helpers                                                                 *)

\* No session is going on.
AtRest == phase \in {"ready", "finished", "off"}

ComponentsOf(ops) == {ComponentOf[op] : op \in ToSet(ops)} \ {None}

\* Mutation: the list is left as it is.
SortNothing(ops) == ops

\* The operations of the list that are among those to keep, in their order.
Only(ops, keep) ==
  LET only[n \in 0..Len(ops)] ==
        IF n = 0 THEN <<>>
        ELSE IF ops[n] \in keep THEN Append(only[n - 1], ops[n]) ELSE only[n - 1]
  IN only[Len(ops)]

\* sortOperationsBasedOnComponentDependencies(): operations of no component
\* first, then component by component in the order of the sorted graph.
SortOperations(ops) ==
  LET Of(c) == Only(ops, {op \in Operations : ComponentOf[op] = c})
      sorted[n \in 0..Len(Order)] ==
        IF n = 0 THEN Of(None) ELSE sorted[n - 1] \o Of(Order[n])
  IN sorted[Len(Order)]

\* What the calculators hand over: the components to install (or update) and
\* to remove, such that what is installed afterwards has what it requires.
Select(plan, removed) ==
  LET after == (hub \ removed) \cup ToSet(plan) IN
  /\ removed \in SUBSET (hub \ ToSet(plan))
  /\ \A c \in after : Requires[c] \in SUBSET after
  /\ target' = after

\* Mutation: the selection of the user is not looked at.
KeepsInstalled(m, op, plan, removed) ==
  LET c == ComponentOf[op] IN c = None \/ c \in hub \ ToSet(plan)

\* Whether the loop of runPackageUpdater() keeps a performed operation.
Keeps(m, op, plan, removed) ==
  LET c == ComponentOf[op] IN
  \/ c = None
  \/ m = "Updater" /\ c \notin ToSet(plan)
  \/ m = "PackageManager" /\ c \in hub \ removed /\ c \notin ToSet(plan)

-----------------------------------------------------------------------------
(* The start of a session                                                  *)

NewSession ==
  /\ sessions < MaxSessions /\ sessions' = sessions + 1
  /\ UNCHANGED <<toolVars, writeFailed, restarts, crashVars>>

\* runInstaller(), up to the creation of the target directory.
Install(plan) ==
  /\ mode = "Installer" /\ plan # <<>> /\ Select(plan, {})
  /\ BeginInstaller(plan)
  /\ NewSession /\ UNCHANGED <<mode, undoVars>>

\* runPackageUpdater(): splits the performed operations in those to undo, in
\* reverse order, and those to keep. The updater removes nothing, and may bring
\* components along that an update has come to need. Reading an operation that
\* was deleted is undefined, nothing is modelled beyond that point.
Update(m, plan, removed) ==
  /\ mode # "Installer" /\ m \in {"PackageManager", "Updater"} /\ mode' = m
  /\ m = "Updater" => removed = {} /\ ToSet(plan) \cap hub # {}
  /\ Select(plan, removed) /\ (plan # <<>> \/ removed # {})
  /\ ToSet(old) \cap deleted = {}
  /\ Begin(plan) /\ phase' = "preparing"
  /\ LET ops == IF areSorted THEN old ELSE SortOperations(old) IN
       /\ kept' = Only(ops, {op \in Operations : Keeps(m, op, plan, removed)})
       /\ undoList' = Reverse(Only(ops, {op \in Operations : ~Keeps(m, op, plan, removed)}))
  /\ UNCHANGED <<effect, session, lost, deleted>>
  /\ NewSession

\* runUninstaller(): undoes everything, in reverse order of the list as it is.
Uninstall ==
  /\ mode # "Installer" /\ mode' = "Uninstaller"
  /\ ToSet(old) \cap deleted = {}
  /\ Begin(<<>>) /\ phase' = "preparing"
  /\ undoList' = Reverse(old) /\ kept' = old /\ target' = {}
  /\ UNCHANGED <<effect, session, lost, deleted>>
  /\ NewSession

\* The catch block of runUninstaller() ends the session without a rollback.
Abandon(s) ==
  IF mode = "Uninstaller"
  THEN /\ status' = (IF s = "Canceled" THEN s ELSE "Failure")
       /\ phase' = "finished" /\ step' = "none" /\ current' = None
  ELSE Throw(s)

\* Admin rights, processes to stop or downloads fail, or are canceled.
PreparingFails(s) ==
  /\ phase = "preparing"
  /\ Abandon(s)
  /\ undoList' = <<>> /\ kept' = <<>>
  /\ UNCHANGED <<workVars, old, session, machineVars, hubVars, retries, poolVars,
                 mode, deleted, toolVars, countVars>>

-----------------------------------------------------------------------------
(* runUndoOperations()                                                     *)

StartUndo ==
  /\ phase = "preparing"
  /\ phase' = "undo" /\ step' = "check"
  /\ UNCHANGED <<status, current, workVars, old, session, machineVars, hubVars,
                 retries, poolVars, outerVars>>

\* The next operation, unless the session was canceled or elevation is refused:
\* components.xml is written before the exception goes on.
CheckUndo(refused) ==
  /\ phase = "undo" /\ step = "check" /\ undoList # <<>>
  /\ refused => Head(undoList) \in Elevated /\ ~statusCanceledOrFailed
  /\ IF statusCanceledOrFailed \/ refused
     THEN /\ Abandon(status) /\ hubOnDisk' = hub
          /\ undoList' = <<>> /\ kept' = <<>>
     ELSE /\ current' = Head(undoList) /\ step' = "perform"
          /\ UNCHANGED <<phase, status, hubOnDisk, undoList, kept>>
  /\ UNCHANGED <<workVars, old, session, machineVars, hub, retries, poolVars,
                 mode, deleted, toolVars, countVars>>

UndoReturns(ok) ==
  /\ phase = "undo" /\ step = "perform"
  /\ ok \/ current \in Fragile
  /\ effect' = [effect EXCEPT ![current] = IF ok THEN "none" ELSE effect[current]]
  /\ step' = IF ok \/ ComponentOf[current] = None THEN "succeeded" ELSE "failed"
  /\ UNCHANGED <<phase, status, current, workVars, old, session, error, lost,
                 hubVars, retries, poolVars, outerVars>>

UndoRetry ==
  /\ phase = "undo" /\ step = "failed" /\ status # "Canceled"
  /\ retries < MaxRetries /\ retries' = retries + 1
  /\ step' = "perform"
  /\ UNCHANGED <<phase, status, current, workVars, old, session, machineVars,
                 hubVars, poolVars, outerVars>>

\* Mutations: the name of the component is noted in place of the operation; a
\* failure waits for an answer that is not asked for after a cancel.
UndoHandledByName ==
  /\ phase = "undo" /\ step \in {"succeeded", "failed"}
  /\ deleted' = deleted \cup {ComponentOf[current]}
  /\ undoList' = Tail(undoList)
  /\ current' = None /\ step' = "check"
  /\ UNCHANGED <<phase, status, workVars, old, session, machineVars, hubVars,
                 retries, poolVars, mode, kept, toolVars, countVars>>
UndoHandledUncanceled ==
  /\ phase = "undo"
  /\ step = "succeeded" \/ (step = "failed" /\ status # "Canceled")
  /\ undoList' = Tail(undoList)
  /\ current' = None /\ step' = "check"
  /\ UNCHANGED <<phase, status, workVars, old, session, machineVars, hubVars,
                 retries, poolVars, mode, kept, deleted, toolVars, countVars>>

\* Success, Ignore, or a failure after a cancel: the component counts as
\* uninstalled; runPackageUpdater() has the operation deleted.
UndoHandled ==
  /\ phase = "undo" /\ step \in {"succeeded", "failed"}
  /\ hub' = hub \ {ComponentOf[current]}
  /\ lost' = IF effect[current] = "none" THEN lost \ {current} ELSE lost \cup {current}
  /\ deleted' = IF mode = "Uninstaller" THEN deleted ELSE deleted \cup {current}
  /\ undoList' = Tail(undoList)
  /\ current' = None /\ step' = "check"
  /\ UNCHANGED <<phase, status, workVars, old, session, error, effect, hubOnDisk,
                 retries, poolVars, mode, kept, toolVars, countVars>>

InterruptUndo ==
  /\ MayCancelRemoval
  /\ phase = "undo" /\ step = "perform" /\ status = "Running"
  /\ status' = "Canceled"
  /\ UNCHANGED <<phase, step, current, workVars, old, session, machineVars,
                 hubVars, retries, poolVars, outerVars>>

\* runPackageUpdater() goes on to install.
UndoDone ==
  /\ phase = "undo" /\ step = "check" /\ undoList = <<>> /\ mode # "Uninstaller"
  /\ hubOnDisk' = hub
  /\ old' = kept /\ kept' = <<>> /\ deleted' = {}
  /\ phase' = "prepared" /\ step' = "none"
  /\ UNCHANGED <<status, current, workVars, session, machineVars, hub, retries,
                 poolVars, mode, undoList, toolVars, countVars>>

\* runUninstaller() removes the maintenance tool with everything it wrote.
UninstallDone ==
  /\ phase = "undo" /\ step = "check" /\ undoList = <<>> /\ mode = "Uninstaller"
  /\ hubOnDisk' = hub
  /\ tool' = None /\ needToWrite' = FALSE
  /\ status' = "Success"
  /\ phase' = "finished" /\ step' = "none" /\ kept' = <<>>
  /\ UNCHANGED <<current, workVars, old, session, machineVars, hub, retries,
                 poolVars, mode, undoList, deleted, areSorted, countVars>>

-----------------------------------------------------------------------------
(* writeMaintenanceTool() and the end of a session                         *)

Outcomes == {"written", "failed", "refused"}

\* Mutation: the list of the session is not cleared when it is committed.
WriteToolAgain(outcome) ==
  /\ needToWrite' = (outcome # "written")
  /\ tool' = SortOperations(old \o session) /\ areSorted' = TRUE
  /\ old' = old \o session /\ hubOnDisk' = hub
  /\ UNCHANGED session

\* PackageManagerCore::writeMaintenanceTool(): the list in the tool is sorted.
\* An error is only shown in a message box. Admin rights that are refused leave
\* the request to write standing, any later error takes it back.
WriteTool(outcome) ==
  /\ outcome # "written" => ToolWriteMayFail
  /\ needToWrite' = (outcome = "refused")
  /\ \/ /\ outcome = "written"
        /\ tool' = SortOperations(old \o session) /\ areSorted' = TRUE
        /\ old' = old \o session /\ session' = <<>>
        /\ hubOnDisk' = hub
     \/ /\ outcome = "failed"
        /\ areSorted' \in {areSorted, TRUE}
        /\ UNCHANGED <<tool, old, session, hubOnDisk>>
     \/ /\ outcome = "refused"
        /\ UNCHANGED <<areSorted, tool, old, session, hubOnDisk>>

WriteToolIfNeeded(outcome) ==
  IF needToWrite
  THEN WriteTool(outcome)
  ELSE outcome = "written" /\ UNCHANGED <<toolVars, old, session, hubOnDisk>>

NoteFailure(outcome) == writeFailed' = (writeFailed \/ outcome # "written")

\* runInstaller() writes the tool at once, and succeeds whatever comes of it.
InstallerDone(outcome) ==
  /\ phase = "installed" /\ mode = "Installer"
  /\ WriteTool(outcome) /\ NoteFailure(outcome)
  /\ status' = "Success"
  /\ phase' = "finished" /\ LocalsGone
  /\ UNCHANGED <<step, current, machineVars, hub, retries, mode, undoVars,
                 target, sessions, restarts, crashVars>>

\* Mutations: the session is cleared, not committed; the tool is not marked to
\* be written.
UpdaterForgets ==
  /\ phase = "installed" /\ mode # "Installer"
  /\ session' = <<>> /\ needToWrite' = TRUE
  /\ status' = "Success"
  /\ phase' = "finished" /\ LocalsGone
  /\ UNCHANGED <<step, current, old, machineVars, hubVars, retries, mode, undoVars,
                 tool, areSorted, countVars>>
UpdaterDoneUnmarked ==
  /\ phase = "installed" /\ mode # "Installer"
  /\ old' = old \o session /\ session' = <<>>
  /\ status' = "Success"
  /\ phase' = "finished" /\ LocalsGone
  /\ UNCHANGED <<step, current, machineVars, hubVars, retries, mode, undoVars,
                 toolVars, countVars>>

\* runPackageUpdater() leaves the writing to the owner of the process.
UpdaterDone ==
  /\ phase = "installed" /\ mode # "Installer"
  /\ old' = old \o session /\ session' = <<>>
  /\ needToWrite' = TRUE
  /\ status' = "Success"
  /\ phase' = "finished" /\ LocalsGone
  /\ UNCHANGED <<step, current, machineVars, hubVars, retries, mode, undoVars,
                 tool, areSorted, countVars>>

SessionAborted ==
  /\ phase = "rolledBack"
  /\ phase' = "finished"
  /\ UNCHANGED <<step, status, current, workVars, old, session, machineVars,
                 hubVars, retries, poolVars, outerVars>>

\* TabController::restartWizard(): the button the last page of a maintenance
\* session offers, whatever the outcome.
Restart(outcome) ==
  /\ phase = "finished" /\ mode # "Installer" /\ tool # None
  /\ restarts < MaxRestarts /\ restarts' = restarts + 1
  /\ WriteToolIfNeeded(outcome) /\ NoteFailure(outcome)
  /\ status' = "Unfinished" /\ phase' = "ready"
  /\ UNCHANGED <<step, current, workVars, machineVars, hub, retries, poolVars,
                 mode, undoVars, target, sessions, crashVars>>

\* The destructor of TabController writes once more. The lists in memory go with
\* the process: what is not in the tool by then is lost.
Quit(outcome) ==
  /\ phase = "finished"
  /\ outcome # "written" => needToWrite /\ ToolWriteMayFail
  /\ IF needToWrite /\ outcome = "written"
     THEN tool' = SortOperations(old \o session) /\ hubOnDisk' = hub
     ELSE UNCHANGED <<tool, hubOnDisk>>
  /\ NoteFailure(outcome)
  /\ lost' = lost \cup
       {op \in ToSet(old \o session) :
          effect[op] # "none" /\ op \notin (IF tool' = None THEN {} ELSE ToSet(tool'))}
  /\ phase' = "off" /\ status' = "Unfinished"
  /\ old' = <<>> /\ session' = <<>> /\ deleted' = {}
  /\ needToWrite' = FALSE /\ areSorted' = TRUE
  /\ hub' = hubOnDisk' /\ restarts' = 0
  /\ UNCHANGED <<step, current, workVars, error, effect, retries, poolVars, mode,
                 undoList, kept, target, sessions, crashVars>>

\* The process dies: what is performed or undone at that moment stays half done,
\* what the tool does not list is lost, and components.xml may be ahead of the
\* tool, since it is written for each component and the tool at the end. (Bounds:
\* MaxCrashes, and a session is left to follow.)
Crash(half) ==
  /\ phase # "off" /\ sessions < MaxSessions
  /\ crashes < MaxCrashes /\ crashes' = crashes + 1
  /\ half \subseteq {op \in UnpackOps : phase = "unpack" /\ task[op] = "running"}
                     \cup (IF step = "perform" THEN {current} ELSE {})
  /\ effect' = [op \in Operations |-> IF op \in half THEN "partial" ELSE effect[op]]
  /\ lost' = lost \cup {op \in Operations :
       effect'[op] # "none" /\ op \notin (IF tool = None THEN {} ELSE ToSet(tool))}
  /\ stray' = IF AtRest /\ ~needToWrite THEN stray
              ELSE stray \cup (hubOnDisk \ (IF tool = None THEN {} ELSE ComponentsOf(tool)))
  /\ phase' = "off" /\ status' = "Unfinished" /\ step' = "none" /\ current' = None
  /\ old' = <<>> /\ session' = <<>>
  /\ undoList' = <<>> /\ kept' = <<>> /\ deleted' = {}
  /\ needToWrite' = FALSE /\ areSorted' = TRUE
  /\ hub' = hubOnDisk /\ restarts' = 0
  /\ LocalsGone
  /\ UNCHANGED <<error, hubOnDisk, retries, mode, tool, target, writeFailed, sessions>>

\* The maintenance tool starts from what it finds on disk.
Launch ==
  /\ phase = "off" /\ tool # None
  /\ mode' = "PackageManager"
  /\ old' = tool /\ hub' = hubOnDisk /\ phase' = "ready"
  /\ UNCHANGED <<step, status, current, workVars, session, machineVars, hubOnDisk,
                 retries, poolVars, undoVars, toolVars, countVars>>

-----------------------------------------------------------------------------
BeginSession ==
  \/ \E plan \in Plans :
       \/ Install(plan)
       \/ \E m \in Modes, removed \in SUBSET Components : Update(m, plan, removed)
  \/ Uninstall

UndoStep ==
  \/ \E s \in {"Running", "Canceled"} : PreparingFails(s)
  \/ StartUndo \/ UndoRetry \/ UndoHandled \/ UndoDone \/ UninstallDone
  \/ \E flag \in BOOLEAN : CheckUndo(flag) \/ UndoReturns(flag)

EndOfSession ==
  \/ UpdaterDone \/ SessionAborted
  \/ \E outcome \in Outcomes : InstallerDone(outcome)

EndOfProcess ==
  Launch \/ \E outcome \in Outcomes : Restart(outcome) \/ Quit(outcome)

SessionNext ==
  \/ BeginSession \/ UndoStep \/ InterruptUndo \/ EndOfSession \/ EndOfProcess
  \/ \E half \in SUBSET Operations : Crash(half)
  \/ (TransactionStep \/ Interrupt) /\ UNCHANGED outerVars

\* As for the transaction; the user need not start, quit or cancel anything.
SessionFairness ==
  /\ \A op \in UnpackOps :
       /\ WF_sessionVars(PoolStep(op) /\ UNCHANGED outerVars)
       /\ WF_sessionVars((\E ok \in BOOLEAN : UnpackOperation(op, ok))
                          /\ UNCHANGED outerVars)
  /\ WF_sessionVars(MainThreadUnpackStep /\ UNCHANGED outerVars)
  /\ WF_sessionVars((InstallStep \/ OperationLoop \/ RollbackStep)
                     /\ UNCHANGED outerVars)
  /\ WF_sessionVars(UndoStep \/ EndOfSession)

SessionSpec == SessionInit /\ [][SessionNext]_sessionVars /\ SessionFairness

-----------------------------------------------------------------------------
(* Properties                                                              *)

\* Between processes the maintenance tool takes the place of the two lists:
\* across sessions, restarts and relaunches no effect is forgotten, but for
\* undos that did not work out, operations dropped in a canceled session, and
\* a process that ended without being able to write the tool.
EffectsTrackedAcrossProcesses ==
  \A op \in Operations :
    effect[op] # "none" =>
      op \in Recorded \cup InFlight \cup lost
               \cup (IF phase = "off" /\ tool # None THEN ToSet(tool) ELSE {})

\* A session that reports Success has installed, updated and removed what was
\* selected and left the rest alone, and the operations recorded for later are
\* those of the installed components, as long as no write of the tool failed.
\* What the sessions before it left undone by dying is set right by that, but for
\* the packages that have no operation. (The updater also keeps operations of
\* components that are not installed, left behind by a canceled removal.)
SuccessMeansSelected ==
  ~writeFailed /\ phase = "finished" /\ status = "Success" =>
    /\ hub \ stray = target \ stray
    /\ mode # "Uninstaller" => target \ stray \subseteq ComponentsOf(old \o session)
    /\ mode \in {"Installer", "PackageManager"} =>
         ComponentsOf(old \o session) \subseteq target

\* The sanity check at startup, first half: packages of components.xml without
\* an operation in the maintenance tool. Only a failed write leaves such, or a
\* process that died in a session or before it wrote the tool, and then only what
\* it had added.
NoPackageWithoutOperation ==
  ~writeFailed /\ phase = "off" /\ tool # None =>
    hubOnDisk \ stray \subseteq ComponentsOf(tool)

\* Through sessions, second writes of the tool and relaunches the operation list
\* names no operation twice, and the tool one for each package of components.xml.
RecordsInStep == RecordedOnce /\ NoPackageWithoutOperation

\* The order of removal: while operations are undone, those of a component are
\* not undone before those of the components that require it.
DependentsUndoneFirst ==
  \A i, j \in DOMAIN undoList :
    (i < j /\ ComponentOf[undoList[j]] \in Components) =>
      ComponentOf[undoList[i]] \notin Requires[ComponentOf[undoList[j]]]

\* A maintenance tool that was just started has the order of removal right.
FirstUndoesDependentsFirst == restarts = 0 => DependentsUndoneFirst

\* A session always comes to its end.
SessionComesToEnd == ~AtRest ~> AtRest

\* The sanity check at startup, second half: "Orphaned operations", listed in
\* the maintenance tool for components that are not installed.
NoOrphanedOperation ==
  phase = "off" /\ tool # None => ComponentsOf(tool) \subseteq hubOnDisk
=============================================================================
