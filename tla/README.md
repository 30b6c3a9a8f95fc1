# TLA+ models of the Qt Installer Framework

The Qt Installer Framework builds installers. One program, a generic binary with
data appended to it, is the *installer* when it is first run and the
*maintenance tool* (package manager, updater, uninstaller) afterwards. These
modules model how it fetches what the repositories offer, decides what to install
and remove, fetches and extracts archives, runs and undoes operations, keeps its
records and its cache, works with admin rights, and replaces its own executable. They
are translated from the C++ sources; `PROJECT.json` maps each definition to the
lines it stands for (paths below are relative to `src/src/libs/installer` unless
they say otherwise).

Run any model with `tlc -config X.cfg MCX.tla` and any proof with
`tlapm XProofs.tla`, in this directory.

## 1. Inventory

| component | code | state it keeps | operations | talks to |
|---|---|---|---|---|
| Sessions and processes | `packagemanagercore*.cpp`, `sdk/tabcontroller.cpp` | status, which program it is, performed operations (old, of this session), "write the tool" flag | runInstaller, runPackageUpdater, runUninstaller, writeMaintenanceTool, Restart, quit, launch | everything below, by calls; the GUI by signals and nested event loops |
| Installation transaction | `packagemanagercore_p.cpp` (unpack/installComponent), `packagemanagercore.cpp` (rollback) | the operation at hand, operations performed so far | backup, perform, retry/ignore/cancel, record, roll back | operation runner, components.xml, the user |
| Concurrent operation runner | `concurrentoperationrunner.cpp` | futures, watchers, results | run, cancel | thread pool (QtConcurrent) |
| Dependency calculation | `installercalculator.cpp`, `uninstallercalculator.cpp`, `component.cpp`, parts of the core | resolved lists, visited pairs, hashes of dependents | solve, solveComponent, automatic and virtual components | component tree, components.xml |
| Component tree | `component*.cpp`, `componentmodel.cpp` | check states, install states, scripts | build, check, uncheck, create operations | calculators, GUI, scripts |
| Archive download | `downloadarchivesjob.cpp`, `libs/kdtools/filedownloader.cpp` | downloader, posted events, retries, registered files | fetch hash, fetch archive, register, retry, cancel | network, disk, message boxes |
| Maintenance tool files | `packagemanagercore_p.cpp`, `binarycontent.cpp`, `sdk/sdkapp.h` | executable, `.dat`, `.new` files, `installer.dat` | write, rename, start | disk, operating system |
| Record of installed packages | `libs/kdtools/localpackagehub.cpp` | components.xml | add, remove, write | sessions, calculators |
| Archive extraction and file locks | `extractarchiveoperation*`, `fileguard.cpp` | extracted files, backups, global list of locked paths | backup, perform, undo, lock, retry | the runner's threads, a worker thread for each, disk |
| Metadata fetching | `metadatajob.cpp`, `unziptask.cpp`, `downloadfiletask.cpp` | stage, tasks in flight, fetched repositories | start, reset, restart, cancel | tasks in other threads, cache, the core that waits for it |
| Metadata cache | `genericdatacache.cpp`, `metadatacache.cpp` | manifest, items, directories, lock | initialize, register, remove, sync, clear | disk, other processes with the same directory |
| Elevated server | `remoteclient*`, `remoteserver*`, `remoteobject.cpp` | sockets, connection threads, watchdog; active, started | start, authorize, serve, keep alive, shut down | a second process, over local sockets |
| Single instance, lock files | `libs/kdtools/lockfile*`, `runoncechecker.cpp` | a lock file | lock, unlock | other processes |
| Operations | `*operation.cpp`, `libs/kdtools/updateoperations.cpp` | values, backups | backup, perform, undo | disk, registry, desktop |
| Updates, settings, scripting, GUI, command line, binary format, archive handlers, progress, other downloaders, repository tools | see `PROJECT.json` | | | |

What makes each of them correct, and what makes that hard:

* **Transaction.** Whatever an operation did is recorded for undo exactly once;
  a rollback leaves nothing behind and goes from the top; a package is in
  components.xml only with its operations run. Hard because operations fail half
  way, admin rights are refused at any of them, archives unpack in several
  threads, and Cancel arrives in any nested event loop.
* **Sessions.** The operation list, components.xml and the selection stay in
  step, across sessions of one process and across processes, although they are
  written at different moments.
* **Runner.** run() returns when, and only when, all operations are over, and
  tells the truth about each.
* **Calculation.** It ends; what is installed has what it requires, and it comes
  in an order in which requirements are first; nothing changes without a reason.
  Hard because the repository moves on between two runs, requirements carry
  versions, removal and installation are calculated one after the other with the
  same check states, and Qt's hashes give the lists any order.
* **Download.** A registered archive is the whole one; an error is not lost; the
  job ends. Hard because message boxes run event loops inside event handlers.
* **Tool files.** However a process dies, the performed operations are in some
  file, and a tool that starts does not act on an outdated list.
* **Extraction.** A file of the user is in its place or in a copy that is known; no
  two threads hold the guard of a path; a file that two archives share ends up whole;
  undo removes all that was extracted. Hard because one operation is three threads of
  control (the runner's thread with its event loop, the worker, and the main thread
  that cancels), and several operations extract the same files.
* **Metadata.** A fetch that succeeds leaves every repository that can be used in use
  and nothing running; what a task reads is not deleted under it; the wait for the
  job ends. Hard because errors, cancels and restarts come in the middle of stages
  with tasks in flight.
* **Cache and locks.** One process at a time uses a cache directory; what it takes
  for valid is whole. Hard because a process dies between any two changes of the
  directory, and because the lock is itself a file that is unlinked.
* **Elevated server.** While admin rights are active a server accepts connections,
  every call comes to an end, and no server outlives the program. Hard because time
  (a watchdog, a keep-alive, a deadline for the start) is all that ties two processes
  together, and because either may be killed.

The hazards of the code, each at its line, are listed in `PROJECT.json`.

## 2. The modules

```
OperationBatch            what run() promises
   ^ refined by
ConcurrentOperationRunner <- ExtractArchiveOperation <- ExtractArchiveProofs (of both,
   ^ INSTANCE                  (with FileGuard)            with SequenceLemmas)
InstallTransaction <- PackageManagerSession <- PackageManagerSessionProofs (of both,
                                                  with SequenceLemmas)
ComponentSet <- InstallerCalculator <- UninstallerCalculator <- ComponentChanges
                 <- ComponentChangesProofs (of all four, with SequenceLemmas)
HttpDownloader <- DownloadArchivesJob <-+- FetchedFilesProofs (with SequenceLemmas)
LockFile <- MetadataCache <-------------+
MaintenanceToolFile <- MaintenanceToolFileProofs
MetadataJob <- MetadataJobProofs
RemoteServer <- RemoteClient <- RemoteClientProofs
```

`MC*` modules and `.cfg` files are the instances TLC checks.

**ConcurrentOperationRunner.** `Run` is run() up to its event loop; `StartTask`,
`SkipTask` and `EndTask` are the threads of the pool, `HandleFinished` is
onOperationfinished(), `Cancel` is cancel(). `task` and `value` are what Qt's
futures know, `watched` are the watchers, `results` is m_results. That a canceled
future which is already running still runs to its end, and that its result is
reported as failed, are in the code and the model. **OperationBatch** is the same
without threads, watchers and cancel: operations end once and are then reported.

**InstallTransaction.** `phase` is where the main thread is in
unpackAndInstallComponents(), `step` where it is with the operation `current`.
`effect` is what an operation has really done to the machine, which the program
does not see; `old` and `session` are the two lists of performed operations.
`Record` has the condition `ok || error() > InvalidArguments` of the code. The
variable `lost` names the operations that no undo will reach although they had an
effect: those whose undo failed or was refused, and those dropped after a cancel.
`Interrupt` happens only where the code runs an event loop.

**PackageManagerSession** puts runUndoOperations() before, and the bookkeeping of
writeMaintenanceTool() after it. `Update` splits the list of performed operations
as runPackageUpdater() does; `Restart`, `Quit` and `Launch` are the Restart button,
the end of the process and the start of the next, which knows only what is in the
tool and in components.xml. `Crash` is a process that dies at any step, with the
operation at hand done, half done or not: what is not in the tool is lost, and
packages that were added to components.xml and have no operation there are `stray`. `SortOperations` is the order by dependencies, which
is applied to the copy that is written.

**ComponentSet, InstallerCalculator, UninstallerCalculator, ComponentChanges.**
solve() and solveComponent() call each other, so each calculator is a stack of
frames and each action is one pass of one loop: `visited`, `toInstall` and
`toCheck` are read in the middle of recursion as in the code. The questions a
calculator asks of a component are in `ComponentSet`. `ComponentChanges` is what
surrounds them: the tree check of buildComponentTree() (which resolves *all*
components before the user can select any), the selection, the two calculations
of recalculateAllComponents(), and the change carried out. Versions are numbers,
0 is "none"; the dependencies in components.xml are those of the installed
version. A dependent that is entered again while it is being solved repeats itself
until the stack is used up; `RemoveForever` takes that step at once.

**HttpDownloader, DownloadArchivesJob.** The downloader is a record, `events` is
the queue of the thread it lives in. Signals that are queued are posted, the
others are called. `boxes` is the stack of open message boxes: while one is open
events are delivered inside the handler that opened it. `disk` is what is really
in a file.

**MaintenanceToolFile.** writeMaintenanceTool() as the build for Linux has it,
one action per file operation, each of which may fail if it is in `MayFail`, in a
process that may die between any two. A list of operations is a generation number.
`stage` tells which call of writeMaintenanceToolBinary() is being made. `unnoticed` is
history, which no step reads: it names the failures that went by without an error,
because the code does not look at the result (`RemoveData`, `RenameData`, `RemoveTool`,
`RenameTool`) or because an older `.dat.new` file passes for the new one (`staleData`).

**FileGuard, ExtractArchiveOperation** extend the runner by what its tasks do when
they extract archives: the main thread takes the backups of all operations, runs them
in the pool, and collects the results, with Retry, Cancel and the rollback around
them, as unpackComponents() does. Each operation has its thread of the pool (`at`),
whose event loop receives from `inbox` what the worker thread posts; the worker goes
through the entries of the archive, locks a path, moves the user's file aside, and
writes in two steps, so that another thread can come in between. A 7z archive has a
callback that opens a file under the guard and writes it after that. The files are a
function from paths to who wrote what is there.

**MetadataJob** is one process with a queue of ends: `xml`, `meta`, `unzip`, `unpack`
and `update` tasks run in other threads and post their end, which the main thread
handles in any order they come, as long as the handler does. The two fetches of a run
use the lists the first one left. `tainted` records that the code has left the state in
which its own checks mean something, see section 5.

**LockFile, MetadataCache.** LockFile goes system call by system call: an inode is a
number, the flock() belongs to the inode (`handle`, `locked`), the path leads to one or
to none (`name`). The cache
EXTENDS it: initialize() takes the lock, and every directory move and the two writes
of the manifest are steps between which a process may die.

**RemoteServer, RemoteClient.** RemoteServer has the processes of the server (main
thread with the watchdog in `process`, the accepting thread in `acceptor`, a thread
for each connection in `thread`) and the sockets; RemoteClient the program that uses
them. A tick is five seconds, the interval of KeepAlive; the watchdog and the deadline
of the start are numbers of ticks. `Tick` waits until threads that have something to
do have done it: they need less than five seconds, except for a server that starts.
What they have to do is said by the guards of their steps (`ProcessDue`, `SocketDue`,
`ClientDue`, `ObjectDue`; TLC agrees that each is ENABLED of the step it is for).
Two processes may listen at the same path; `name` is where it leads.

## 3. What is checked

| run | question | bounds |
|---|---|---|
| `transaction` | Is nothing forgotten, nothing recorded twice, the rollback complete and from the top, is Cancel obeyed? | 2 components (app requires lib), an archive and an operation each, one more with bad arguments, 2 threads, one Retry per session |
| `session` | Do operation list, components.xml and selection stay in step over sessions, processes and a crash? | 3 sessions, 1 restart per process, 1 crash, one fragile and one elevated operation, the tool may not be writable |
| `session_orphans` | finding | the same, nothing fails, no crash |
| `download` | Is a checked archive whole, no error lost, does the job end? | 3 archives (checked, without a downloader, unchecked), every fault, offline once, 2 answers Retry |
| `tool_file` | Do the operations survive crashes, and does a tool that starts know them? | 3 sessions, 2 crashes, each of the 13 file operations may fail, each time |
| `tool_file_append` | finding | no crash, the temporary file fails |
| `dependencies` | Do the calculators end; do they install in order, change for a reason only, and keep what is required? | about 100 products of 3 components in 2 releases, 3 sessions |
| `extraction` | Do the guards exclude, are the user's files accounted for and shared files whole, does undo remove everything, and does the runner under it all still implement the batch? | 3 archives (one 7z) that share 2 files, a file of the user, 2 threads, one archive may fail, one Retry |
| `metadata` | Does success mean that all is fetched, is nothing deleted under a task without a cancel, does the caller's wait end? | 2 fetches, a default, a categorized and two compressed repositories, every failure, restarts, a cancel |
| `cache` | Is what a process takes for valid whole, over failures and crashes? | 2 processes, 2 items, 3 lock files, 2 crashes |
| `cache_owners` | finding | the same: one process opens the lock file before the other removes it, and that one comes back |
| `remote_server` | Do active admin rights mean a server that serves, does every call end, and is no server left behind? | 2 server processes, 2 objects and the client's own socket, watchdog and patience of 2 ticks, either side may be killed |

More configurations are for use by hand, `tlc -config X.cfg MCM.tla` with M the module
the name begins with. Each shows, within seconds, a violation that section 5 explains;
all but one are of a property that a passing run has with an exception:

| configuration | property | in the run above it is excused by |
|---|---|---|
| `InstallTransactionLeftover` | `RollbackUndoesAll` | `lost` of `EffectsTracked` |
| `PackageManagerSessionUndoOrder` | `DependentsUndoneFirst` | "no restart yet" of `FirstUndoesDependentsFirst` |
| `DownloadArchivesJobGone` | `CompletedHasDownloader` | nothing: no passing property speaks of it |
| `DownloadArchivesJobDiskFull` | `RegisteredIsDownloaded` | "with a checksum" of `CheckedIsWhole` |
| `MaintenanceToolFileStale` | `NeverStartsFromOlder` | `Outdating` of `StartsFromCommitted` |
| `ComponentChangesVersions` | `DependentsRemoved` | the first way out of `DependenciesKept` |
| `ComponentChangesUpdated` | `ReplacedWithDependencies` | the third way out of `DependenciesKept` |
| `ExtractArchiveOperationRetry` | `UndoRemovesEveryAttempt` | `earlier` of `UndoRemovesAll` |
| `MetadataJobAgain` | `FetchedIsInUse` | `tainted` of `SuccessMeansFetched` |
| `MetadataJobUpdate` | `RefreshedAfterUpdate` | `tainted` of `SuccessMeansFetched` |
| `RemoteClientLate` | `GainedIsServed` | the late servers of `ActiveIsServed` |

**Why these bounds.** Two components with one requirement are the smallest product
in which order matters, and two operations each the smallest in which an archive
and what is built on it differ; the runner needs three operations on two threads so
that one waits, one runs and one is over. Three sessions are needed to install,
change in a process and change in the next. For the calculators, a chain and a fork
of dependencies, a circle, a virtual, a forced and an automatic component each fit
in three components; two releases make every version either too old or not (an
instance with three releases and three components, and one with four sessions, were
checked as well and hold). For downloads, the retry counter (unsigned, of width
`MaxUInt` + 1) and two retries reach its limit. Two crashes let a process die while
it repairs what the one before it left.

For extraction, a third archive is needed for a thread that finds a path locked while
the holder of the lock and a writer are two others; one of each kind of archive and
one file that is the user's make the guards differ. Two fetches show what the first
leaves to the second. For the cache, two items tell "the item" from "the others", and
two crashes one that damages from one that comes while another process recovers. Two
server processes are one that is late and its successor; a watchdog of two ticks lets
KeepAlive come once too late and once in time (in the code it is six to one).

For the tool's files, all thirteen operations may fail in the run. One of the five
failures that pass without an error, `renameData`, makes `CommittedSurvives` false with
five sessions only (the new .dat file and what was appended to the executable must
both be replaced before a start repairs it); with five sessions and one crash TLC finds
that, and with all five excused it holds there as well.

**Fairness.** Threads of the pool end, event loops deliver what is posted, and a
message box is answered; retries are bounded in the window version by `MaxRetries`
or `MaxAnswers` (the user stops) and on the command line by the code. Nothing
obliges a user to start a session, cancel or quit, and no file operation or process
is fair. The network is: if it comes back again and again, a download gets through
(strong fairness of a whole reply); without that the code retries for as long as
the user does. The calculators are loops of one thread: weak fairness. Of the
extraction, threads and workers are fair, each by itself, and polling for a guard that
is held is no step, so that a lock that is kept would be found. Tasks of a fetch end.
Of the server, its threads run, those of the client answer to what they receive, and
time goes by; a client that stops running with a socket open is not covered, see
section 5.

**Properties worth a comment.**

* `EffectsTracked` and `EffectsTrackedAcrossProcesses` relate what has happened to
  the machine to what any list still knows. Their exception, `lost`, is exact: it
  says which operations an undo can no longer reach and is the subject of a finding.
* `SuccessMeansSelected` and the part of `RecordsInStep` about packages without
  operations exclude runs in which a write of the tool failed (`writeFailed`):
  PackageManagerCore::writeMaintenanceTool() shows the error and goes on to Success,
  so nothing can be promised there. They also exclude the `stray` packages of a
  process that died.
* `RecordsAgree` (transaction) puts together that nothing is recorded twice, that an
  installed package has all its operations run, and that a rollback leaves no package;
  `RecordsInStep` is the like for sessions.
* `FirstUndoesDependentsFirst` is restricted to the first session of a process; the
  unrestricted form, `DependentsUndoneFirst`, is violated (`PackageManagerSessionUndoOrder`).
* `CommittedSurvives` and `StartsFromCommitted` let every file operation fail. The first
  excuses the failures the code does not notice (`unnoticed`); the second only the two
  of them which can break it (`Outdating`), and each of these does: without the excuse
  it is `NeverStartsFromOlder`, which is violated (`MaintenanceToolFileStale`).
* `CheckedComponentsResolve`: since the tree is refused when all components
  together cannot be resolved, no selection can make the calculation fail later,
  and the assertion against adding a component twice is never reached. It
  holds although `visited` and `toInstall` depend on the order of the lists.
* `ResolvedWithDependencies`, `ChangedForReason` and the part of `DependenciesKept`
  about requirements assume that nothing was outdated before: no installed component
  was older than another installed one wants it (`Outdated`; that one is missing
  altogether is allowed). `requiredDependencyVersion` leaks from one dependency to its
  siblings and to the component itself (installercalculator.cpp:217, 252), which does
  no harm then; otherwise section 5 says what it does. `CheckedComponentsResolve` and
  `CalculationsEnd` have no such exception.
* `DependenciesKept` names the three ways in which a session leaves a requirement
  open; any other one is a violation. See section 5 (`ComponentChangesVersions` and
  `ComponentChangesUpdated`).
* `CalculationsEnd` counts a stack that is used up (`Overflow`) as an end: it says that
  nothing else keeps a calculation from ending.
* `ChangedForReason` lets a component go for one of four reasons, and says nothing of
  a removal that a forced component stopped half way (section 5).
* `UserFilesAccounted`: a file of the user is where it was, or in a copy that is in
  the list of an operation. `UndoRemovesAll` excuses what an earlier attempt wrote, which stays
  (`ExtractArchiveOperationRetry`).
* `SuccessMeansFetched` and `FetchEnds` hold up to the first event after which the
  code's flags (`"flags"`) or its tasks (`"tasks"`) belong to an earlier fetch.
  A fetch amid tasks of an earlier one leaves such flags too, if it has set any;
  `MetadataJobAgain` shows what a fetch does that trusts them.
  `DeletedInUseAfterCancel` is exact: reset() deletes what the update of the cache is
  reading after a cancel, and only then.
* `RestingCacheIsWhole` holds without crashes, `ActiveIsWhole` with them, as long as
  no second process got in (`LockedByOne`, the finding `cache_owners`).
* `ActiveIsServed` excuses a server that came too late or was killed, for good: the
  client remembers that a server was started and does not look again. `GainedIsServed`
  has no exception for servers that came too late, and is violated (`RemoteClientLate`).
* `EveryServerAndCallEnds` needs the watchdog and KeepAlive, closing of sockets on both
  sides, and the order in which a connection ends before shutdown() waits for it.

## 4. What is proved

TLAPS proves, for every value of the constants:

| theorem | statement |
|---|---|
| `RunnerTypeCorrect`, `RunReturnsWhenAllOver`, `TrueResultsAreTrue`, `ResultsStay` | the safety of the runner |
| `RunnerIsBatch` | the runner implements `OperationBatch` (initial state and every step) |
| `TransactionTypeCorrect`, `NoEffectForgotten`, `NoNewWorkAfterCancel` | types, `EffectsTracked` and `CancelStopsNewWork` of the transaction |
| `RecordsAlwaysAgree`, `UndoneFromTheTop` | `RecordsAgree` and `InstallUndoneBeforeUnpack` of the transaction |
| `SessionTypeCorrect`, `NoEffectForgottenAcross` | types and `EffectsTrackedAcrossProcesses` of the sessions |
| `NoPackageLeftAlone`, `DependentsUndoneFirstAtFirst` | `RecordsInStep` and `FirstUndoesDependentsFirst`: what the lists hold, and in which order |
| `SuccessfulAsSelected` | `SuccessMeansSelected`: a session that succeeds has done what was asked of it |
| `FileTypeCorrect`, `CommittedListSurvives`, `StartIsUpToDate` | types and both crash properties of the tool's files, whichever file operations fail |
| `GuardsAlwaysExclude` | no path is held by two threads, and FileGuard's list is what threads hold |
| `ExtractionTypeCorrect`, `UserFilesAlwaysAccounted`, `ExtractedFilesWhole`, `UndoAlwaysRemoves` | types and the properties of the extraction about files |
| `ExtractionIsBatch` | the runner still implements `OperationBatch` with extraction threads under it (initial state and every step) |
| `LockExcludes`, `CacheImplementsLock`, `CacheHasOneOwner` | the lock file keeps others out until the first overtaken unlink; each step of the cache is a step of its lock or none |
| `CheckedStaysWhole` | `CheckedIsWhole` of the download, if no archive is listed twice |
| `JobTypeCorrect`, `SuccessIsComplete` | types and `SuccessMeansAll` of the download, for any list |
| `MetadataTypeCorrect`, `DeletedAfterCancelOnly`, `SuccessIsFetched` | types and both safety properties of the metadata job |
| `CacheTypeCorrect`, `ActiveStaysWhole`, `RestingStaysWhole` | types and both properties of the cache |
| `ChangesTypeCorrect` | types of both calculators and the sessions around them |
| `ListsInOrder`, `ChangesHaveReasons`, `SessionsKeepDependencies` | `ResolvedWithDependencies`, `ChangedForReason` and `DependenciesKept`, for any product |
| `TreeStandsForSelections` | `CheckedComponentsResolve`, as long as nothing installed is outdated |
| `RemoteTypeCorrect`, `RightsAreServed`, `OneServerAtATime` | types and `ActiveIsServed` of the elevated server; until a start is given up or a server killed, there is one server, which alone listens |

*Runner.* `WatchedUntilOver` is the inductive part: the event loop is on exactly
while a watcher is left, an unwatched operation of the batch is over and has a
result, a watched one has none. `ReturnsWhenAllOver` alone is not inductive: it says
nothing while the loop runs. With the invariant each step of the runner is mapped:
starting a task and cancel() stutter, the end of a task is `End`, onOperationfinished()
is `Report`.

*Transaction.* `EffectsTracked` is not inductive because it says nothing of where
the main thread is. `Control` ties `phase`, `step` and `current` together and says
which local variables are in use; `PoolInStep` says that only a cancel of the session
cancels futures, and that a result of FALSE of an operation that succeeded means just
that. Then an operation with an effect that is not recorded is in some hand at each
step, and when it leaves the hand it is recorded or the session is canceled.
`SequenceLemmas` has the facts about ToSet, Append, Front, Last, Reverse and sequences
without repetitions.

For `RecordsAgree` the invariant (`RecordsInv`) says what is on the lists. `PlanInStep`
keeps plan, pool and the rest of the operation list together; `ListsInStep` says that
the session's list has operations of the plan only, of those that are handled, so that
the one at hand is on no list; `HubInStep` says which components of the plan are in
components.xml already; `ErrorsShown` that a failed operation that did something has
an error which has it recorded; `InstallationAccounted` that of an installed component
each operation is recorded, given up, or was refused its arguments. `UnpackedFirst`
(archives come first in the list) with "a rollback starts when nothing is in the pool"
gives the order of undo. The theorems assume `ProductAssumption`: an operation is in
the list of its own component only, once; no component is twice in a plan; and each
component has one operation that is not refused its arguments, which is the
MinimumProgress operation that Component::operations() appends (with
autoCreateOperations off, a component without operations enters components.xml with
nothing to take it out again).

*Sessions.* The proofs use those of the transaction: `InnerStep` says that a step of
the transaction within a session is a step of InstallTransaction in one of its phases,
`InnerInv` that the invariant proved there holds in them. Around this,

* `EffectsInv` has `OuterControl` (what is in use between and before transactions) and
  `UndoInStep`: of the operations that a removal started from, those with an effect are
  still to be undone, kept, or given up;
* `SessionLists`: the session's own list is empty unless a session installs, or a write
  of the tool failed; no list repeats an operation; and what a removal keeps is not of a
  component that is about to be installed. `OrderInStep`: the tool lists requirements
  first, and so does memory until Restart is used. `SortKeeps` and `OnlyKeeps` prove
  what sorting and splitting a list keep;
* `PackagesInStep`: the packages in memory are those of the operations on the lists,
  and a tool that is not waiting to be written has those of components.xml, but for
  what a rollback would take out again (`SessionCovers`). For this a component must have
  been handled in full when it is added (`HandledRecorded`), and one of its operations
  must be neither refused its arguments nor in need of admin rights, again the
  MinimumProgress operation;
* `TargetInStep`: what is selected is installed or still to be installed, what is
  installed and not selected still has operations to undo.

`SessionAssumption` says that the sorted graph has every component once and after what
it requires. A component of the tool that no repository knows any more is outside of
it: sortOperationsBasedOnComponentDependencies() drops its operations.

While this was proved, the model was found to be wrong in one place: the answers Retry
and Cancel of the box of an installation (packagemanagercore_p.cpp:2506, 2580) were not
restricted to it, and the model could cancel from the box of an undo, which has Retry
and Ignore only (2898). `AnswerRetry` and `AnswerCancel` now name their phases.

*Tool files.* The theorems hold for any `MayFail`. `FileInv` has three layers. What holds
whatever went by unnoticed are the types (`FilesOK`, `ProcessOK`) and `Control`: what a
process that runs has to write (`Running`), and how far a write has come (`Writing`: the
old .dat file is removed only when the new one or an executable with the list in it is
there). As long as neither of the two failures of `Outdating` happened, `Current`: the
.dat file in place is a whole one and not older than the committed list, and so is what
a process has in memory. As long as nothing went by unnoticed, `Kept`: the committed
list is in one of the two files in place, or, from the removal of the .dat file on, the
new list is in one of the new files. A crash keeps all of this, but between the two
renames only because the new list is complete then (`CompleteInWindows`).

An earlier version of these theorems assumed that six of the file operations do not
fail. `unnoticed` takes the place of that assumption: the failures that the code notices
are proved to be harmless, and of the five it does not notice the properties name those
that are not.

*Download.* `CheckedIsWhole` says nothing of who may still write to a file. In
`DownloadInv` the queue of events is in order (`InOrder`): one downloader at most is
still to begin, it is the one there is, and those it replaced before they began come
before it. So once its sum is right, nothing is posted that opens a file; and what is
still posted is for an archive that is not registered (`Unwritten`). The theorem
assumes that the names in the list are different. They are if
Component::downloadableArchives(), which appends to its list at every call, is
called once per component, as its comment asks (component.cpp:1028). The other two
theorems need no such assumption: `SuccessInv` says that an archive of the list is
still to be fetched, or registered, or has no downloader (`Settled`).

That `downloadCompleted` finds a downloader, the Q_ASSERT of downloadarchivesjob.cpp:286,
was part of the type invariant and could not be proved: it holds in the instance of the
run and is false in another. See section 5.

*Extraction.* `GuardInv` joins the invariant of the runner (`RunnerInv`), `ThreadsOK`
(a task of the pool that runs is in one of the program places of its thread, and only
there does it hold a path) and `GuardsExclude`. Without the runner's invariant a task
could begin twice. `ExtractInv` adds what is in the files: `PlacesInStep` and
`ResultsInStep` tie a thread's place to stage, task and result; `MessagesInStep` the
worker's messages to it; `BackupInv` says that a name for a copy which a thread has
picked stays free while it holds the guard, and that every copy is in one list;
`ListsInStep` and `TracesTold` that what was written was told to the operation, so that
the data file undo reads has it; `WholeInStep` that a half written file belongs to the
thread which opened it last and is still in place. The theorems assume that an archive
does not name a file twice (otherwise the second entry would overwrite the first, which
is not in the model), and that the operations are finitely many.

*Metadata.* Neither property is inductive: they say nothing of a fetch that is under
way. `StagesOK` says that a fetch which began at rest is in exactly one of seven stages
(`Live`: at rest, doStart() queued, Updates.xml files, archives, unzips, the update,
unpacked archives), with nothing of another stage running, or `Dead`: an error has
ended it and what still runs can begin nothing, unless there was a cancel, which leaves
archives and updates running. From this `DeletedAfterCancelOnly`. `NothingLost` follows
the repositories: what is promised, and what the job's flags count as fetched, is in
`Pipe`, the lists of the stage, or in use, or unusable; where an error ends a fetch
without a reset() the flags claim more than that, and `tainted` says so. `AlwaysInv` is
what a later fetch may still rely on when it began amid tasks of an earlier one.

The proof corrected the excuse `tainted`: it was forgotten by the next fetch that began
at rest. But what a fetch amid leftovers loses (its Updates.xml task is overwritten, or
ends in an error without reset()) stays in the flags, and a third fetch reported success
without it: with `MaxFetches` = 3 TLC shows it in 12 steps. `FetchAll` now keeps the
excuse unless the job is as new (`AsNew`); checked with three fetches, too.

*Cache.* The lock is proved alone first. Its exception, `slipped`, is set by the
step in which unlock() removes a path that another process has opened; until then
"what a process has opened is at the path" (`OpenIsNamed`) is inductive. Each step of the cache
either is one of the lock or leaves its variables alone, so the theorem carries over.
For `ActiveStaysWhole` the invariant follows an item through remove(), registerItem()
and toDisk(), and says what a reader of the manifest may rely on at each.

*Calculators.* None of the properties is inductive: they speak of a list when it is
complete, and the calculation is a recursion. Its steps have few shapes (`InstallerSteps`,
`UninstallerSteps`): the frame at the top changes, calls, or returns, and a component is
added or not. `SessionInv` says of each frame of the stack what its loop has done so far:

* `DependenciesInStep`: each requirement that a loop has passed names something that was
  added, or is installed as required, or is the component of the call above, which will
  add it; and the list has everything after what it requires (`OrderOK`). That the call
  above *will* add it (`WillAdd`) is where the leaking version comes in;
* `ReasonsInStep`: what was added, or will be by a call in progress, has its reason
  among those; solve() was given only what was selected or follows an update;
* `AutomaticInStep`: an automatic component that is due was added, is in some frame, or
  one of those it depends on is still in `toCheck`, so that the next check finds it;
* `RemovalInStep` and `GoingInStep`: the same of the calls of the removal, whose
  dependents go too and whose components have a reason;
* `PhasesOK`: what the program knows in each phase, and that no version goes back.

`SessionsKeep` then compares what was installed before with what is afterwards. For
`TreeStandsForSelections` the invariant has a function from components to numbers
(`RankOK`: what a component needs has a lower one): it is taken from the places in the
list when the tree is built, it does not depend on the selection, and in every later
calculation the calls go down (`CallsRanked`) and a pair that was visited is being
solved, or was added (`VisitsOK`), so that no recursion is detected. Components must be
finitely many, for the orders in which a hash gives them.

These proofs found that `ResolvedWithDependencies`, `ChangedForReason` and
`DependenciesKept`, as they were, hold in the instance of the run and are false in other
products. The cases are among the observations of section 5, and the properties
exclude them now.

*Elevated server.* `ActiveIsServed` says nothing of servers that were started before.
`RemoteInv` says that, until a start was given up or a server killed, a server is
started only when there is none (`OneServer`), so that the one there is gets the name of
the socket, is reached by each connection of KeepAlive, and has its watchdog at zero
after every tick; that only a client which leaves asks it to stop (`LeaversStop`); and
that the client does not take a server for started before it was authorized by it
(`ServerKnown`). `Tick` used to say by ENABLED that threads run before time goes by,
which the prover cannot use; now it has their guards. The proof also showed a server
that was killed while it waited in shutdown() come back to end regularly: `Die` and
`End` now take the thread of LocalServer along.

Liveness (`ImplementsBatch` in full, `SessionComesToEnd`, `JobEnds`, `CalculationsEnd`,
`FetchEnds`, `EveryServerAndCallEnds`) is checked by TLC only. So is
`CheckedComponentsResolve` for a product in which something installed is outdated:
what the leaking version drops is not in the list, whose order the proof uses.

## 5. Where code and documentation differ

Three runs reproduce a difference; `PROJECT.json` quotes the line each contradicts.

1. `session_orphans`: a removal that is canceled writes components.xml and not the
   tool; the next start reports a corrupted installation.
2. `tool_file_append`: the fallback that appends the data to the executable leaves a
   tool that cannot start.
3. `cache_owners`: LockFile::unlock() gives up the flock() before it unlinks the path;
   a process that opened the file in between locks a file without a name, and the next
   lock() creates and locks another: two processes own the cache directory.

The configurations for use by hand show these:

4. `InstallTransactionLeftover`: an archive whose unpacking succeeds after Cancel counts
   as failed without an error, is not recorded, and stays on disk.
5. `PackageManagerSessionUndoOrder`: after Restart the operations in memory count as
   sorted, but only the written copy is; a required component is undone before its
   dependents (the comment packagemanagercore_p.cpp:2053 asks for "the right component
   dependency order").
6. `ComponentChangesVersions`: a component that requires a *version* of another is not
   found among its dependents and stays when the other is removed (compare
   doc/installerfw-using.qdoc:442).
7. `DownloadArchivesJobDiskFull`: a download that failed when its last bytes were written
   is reported as completed while the message box of the failure is open.
8. `ExtractArchiveOperationRetry`: a Retry writes the list of extracted files anew
   (extractarchiveoperation.cpp:205), and what only an earlier attempt wrote is never
   removed.
9. `MetadataJobUpdate`: a RepositoryUpdate in a compressed fetch ends in a success with
   nothing active (compare the comment metadatajob.cpp:910-911).
10. `RemoteClientLate`: a server that comes after the 30 s of the client shares its socket
   name with the next one; the end of the first removes the file of both, and admin
   rights count as active while no object can connect (compare
   packagemanagercore.cpp:3258).
11. `DownloadArchivesJobGone`: the assertion that a completed download has a downloader
   (downloadarchivesjob.cpp:286). A file cannot be opened and the download is aborted;
   its message box is answered Retry, and the end of the download that was replaced
   arrives when its successor is at work and takes the archive off the list. The
   successor completes when the list has gone on to an archive of an unknown scheme.
12. `MaintenanceToolFileStale`: a `.dat.new` file that a dead process left replaces the
   `.dat` file when the next data file cannot be written; the write reports success, and
   the tool starts with an older list (compare the comment packagemanagercore_p.cpp:1543).
13. `ComponentChangesUpdated`: a component pulled in at a newer version by another
   component is resolved with the dependencies of its *installed* version
   (component.cpp:1470), so that what only the new one needs is not installed. The updater
   takes app 2, which needs lib 2, which needs ext (compare the comment
   component.cpp:1464: "correct dependencies are calculated").
14. `MetadataJobAgain`: an archive of a compressed fetch cannot be unpacked while another
   is being unpacked. That one fails in the middle of the next fetch and ends it without
   reset() (metadatajob.cpp:473); the default repositories count as fetched since
   getRepositories() named them (1019), and the third fetch reports success without them.

Seen while modelling, in the models, and without a run of their own:

* the result of a canceled unpack is `false` whatever the operation returned; a Cancel
  after the last operation is overwritten by Success;
* after a canceled removal, m_performedOperationsOld has pointers to deleted operations;
  the model stops there (`deleted`);
* the results of four removals and renames of the tool's files are ignored, so that with
  failures the code does not notice even a committed list can be lost; if the
  replacement of `installer.dat` cannot be renamed the error is only logged;
* UninstallerCalculator::solveComponent() keeps no record of what it has visited. If a
  new release turns a dependency round (app needed lib, now lib needs app) and only
  lib is replaced, the two installed components depend on each other, and
  unchecking one recurses until the stack is used up (`Overflow`; three sessions);
* a new component may be selected together with the removal of one it needs: the
  calculation of the installation sees the old one as installed, and the removal does
  not look at what will be installed, unless the component is virtual; and of virtual
  ones only the selected components are asked, not those the calculation pulled in;
* automatic components follow the components of the argument of solve() only: one
  that depends automatically on a component that is removed as a *dependent* stays;
* an automatic component that is itself removed as a dependent, in the session that
  installs what it follows, is not installed again: when it is looked at it is still
  installed (`before[a] = 0` in `AutomaticInstalled`);
* a forced component goes with the ones it follows automatically, without the check
  that keeps it otherwise: the first of the reasons in `ReasonToRemove`;
* the result of the solve() that removes automatic and virtual components is ignored
  (uninstallercalculator.cpp:131): if a forced dependent stops it, the removal counts as
  calculated, with only a part of those components in it;
* when something installed is older than another installed component wants it (as after
  a partial update), `requiredDependencyVersion` of the one decides about the next: an
  update that is needed may be dropped, because the component is installed in the version
  that was required of its own last dependency, and one that nobody needs may be made
  (installercalculator.cpp:217, 252, 262);
* in the updater a removal that was calculated is never carried out (`Removed`);
* the list of components to remove may name one twice, which does no harm;
* a package added in a session whose process dies before the tool is written stays in
  components.xml without operations for good, while operations that the dead process
  had undone are undone again by the next session; the Success page of a maintenance
  session is shown before the tool is written (it is written at the Restart button or
  the end of the process);
* extraction: whether a file exists is looked at before its path is locked
  (extractarchiveoperation.cpp:315); files of the user are moved aside and never moved
  back (322; the TODO in 226); the guard of a file of a 7z archive is released before its
  data is written (lib7z_facade.cpp:629-658); `a.7z` and `a.zip` share the name of
  their data file (195);
* metadata: an error of an unzip or of the cache ends the job without reset(), so that
  repositories count as fetched and a retry reports success without fetching; the
  watcher of a failed unzip stays, and a later fetch waits for it for ever; reset()
  stops neither unzip nor cache tasks, whose ends act on the next fetch; it deletes
  metadata that the cache task reads (748); resetCompressedFetch() deletes running
  tasks; unzipRepositoryTaskFinished() reports an error while others unpack, and
  waits for ever if its directory cannot be created; a cancel between start() and
  doStart() leaves a job nobody waits for; archives stay disabled (327) after a failed
  unpack; a restart from findCachedUpdatesFile() loses categorized repositories;
* cache: an item is removed before its replacement is moved into place (457); a
  manifest cut short by a crash (638) is an empty cache over full directories, which
  are fetched again; the PID is written into the lock file before flock() and overwrites
  that of the owner; a LockFile that did not get the lock never closes its handle;
* elevated server: calls over an open connection do not restart the watchdog, only new
  connections do (remoteserver.cpp:91; "30 seconds without usage", line 72, is about
  those); a server that ends while a client keeps a socket open and does not run waits
  in shutdown() and serves nobody, and a client of it waits in waitForReadyRead(-1);
  a server that starts after the client gave up lives as long as KeepAlive connects;
  an exception while authorizing from the timer ends the program (SDKApp::notify);
  rollBackInstallation() drops admin rights only if no exception comes
  (packagemanagercore.cpp:1003).

## 6. What is not modelled

Aliases, replacements (`Replaces`), children in the tree, unstable components,
essential updates and comparisons other than `>=` in the calculation; scripts; the
XML and ini formats; authentication, SSL and redirects in downloads; the offline
generator; Windows and macOS variants; directories, links and permissions in archives;
the contents of Updates.xml; copying between file systems in the cache; the inheritance
of file descriptors by children; the commands of the elevated server beyond "a call",
its debug mode and RemoteClient::shutdown() (used in tests); RunOnceChecker's search
for processes (its lock file is LockFile); components.xml cut short by a crash while it
is written; the GUI beyond the events it sends; the repository tools, archive libraries
and single file operations. Reasons are in `PROJECT.json`.

## 7. Plan

Written so far, in the order of importance: transaction, sessions (with crashes),
runner, downloads, tool files, dependencies, extraction, metadata, cache and lock
files, the elevated server. Left:

1. Composing PackageManagerSession with MaintenanceToolFile, and components.xml as a
   file that is truncated and then written.
2. Aliases and Graph::sort() as recursive functions against a reference closure.
3. A client of the elevated server that stops running, and the process and archive
   objects whose signals are polled over the connection.
4. Contents of Updates.xml: repository priorities and the choice among versions.

To be stated as abstract specifications: an installation as a set of components with
their effects (refined by PackageManagerSession up to `lost`), and the tool's list as
a register with atomic writes (refined by MaintenanceToolFile up to `unnoticed`).

To be proved next: `CheckedComponentsResolve` when something installed is outdated. Its
invariant needs, beside the list, the components that were solved and dropped.
