----------------------- MODULE ExtractArchiveOperation -----------------------
(***************************************************************************)
(* QInstaller::ExtractArchiveOperation as the Unpack group runs it: the    *)
(* archives of all components are backed up by one batch of the            *)
(* ConcurrentOperationRunner and extracted by the next, on several         *)
(* threads, into the same target directory; failed ones may be retried,    *)
(* and what was recorded is undone one operation at a time.                *)
(*                                                                         *)
(* An extraction is two threads: a worker thread walks over the entries    *)
(* and posts an event for each, and the pool thread that called            *)
(* performOperation() handles these events, the last of them "finished".   *)
(* Files are guarded by FileGuard, but a 7z archive only holds the guard   *)
(* while it opens a file and not while it writes it.                       *)
(***************************************************************************)
EXTENDS ConcurrentOperationRunner, FileGuard, Sequences

CONSTANTS
  Files,       \* the file names that archives and the user may have
  Entries,     \* operation -> the sequence of files in its archive
  SevenZip,    \* the operations whose archive is read by Lib7zArchive
  ListOf,      \* operation -> its data file below installerResources
  Fragile,     \* operations that may fail at any entry
  User,        \* who wrote the files that were there before
  UserFiles,   \* these files
  None,        \* nobody has written this part of the file yet
  Leftovers,   \* files with a .tmpUpdate copy left by an earlier session
  MaxRetries   \* bound: Retry answers

EntriesOf(op) == {Entries[op][i] : i \in DOMAIN Entries[op]}

ASSUME ExtractionAssumption ==
  /\ IsFiniteSet(Operations) /\ Entries \in [Operations -> Seq(Files)]
  /\ \A op \in Operations : \A i, j \in DOMAIN Entries[op] :
       Entries[op][i] = Entries[op][j] => i = j
  /\ {"finished", "failed"} \cap Files = {}
  /\ SevenZip \subseteq Operations /\ Fragile \subseteq Operations
  /\ UserFiles \subseteq Files /\ Leftovers \subseteq Files /\ MaxRetries \in Nat
  /\ {User, None} \cap Operations = {} /\ User # None

VARIABLES
  stage,       \* where unpackAndInstallComponents() is
  interrupted, \* status() is Canceled
  at,          \* where the thread that works for an operation is
  entry,       \* the index of its entry at hand
  stop,        \* the statusChanged() event of its worker: "no", "posted", "seen"
  inbox,       \* events the worker has posted to the pool thread
  extracted,   \* the files of the Callback
  backups,     \* m_backupFiles, pairs of a file and the number of a backup name
  picked,      \* the backup name just generated
  attached,    \* the file a 7z stream writes to is still the one at its path
  failed,      \* operations with error() set
  succeeded,   \* operations whose last extraction succeeded
  earlier,     \* files extracted by attempts before the last one
  file,        \* the two halves of the file at each path, by who wrote them
  aside,       \* the same for the backup names of each path
  list,        \* the data files: the files named in each
  left,        \* operations whose result is not collected yet
  recorded,    \* operations that will be undone
  undone,      \* operations that were undone
  retries

sessionVars == <<stage, interrupted, left, recorded, undone, retries>>
threadVars == <<at, entry, stop, inbox, extracted, picked, attached>>
outcomeVars == <<backups, failed, succeeded, earlier>>
diskVars == <<file, aside, list>>
extractionVars == <<runnerVars, paths, sessionVars, threadVars, outcomeVars, diskVars>>

Backing == {"look", "guard", "pick", "rename"}
Writing == {"entry", "wait", "header", "data", "open", "first", "rest", "done"}
\* where a thread has the guard of its file
Holding == {"pick", "rename", "header", "data", "open"}

NoFile == <<>>
By(x) == <<x, x>>
Contents == {NoFile} \cup ({User, None} \cup Operations) \X ({User, None} \cup Operations)
BackupNumbers == 0..Cardinality(Operations)
Names == {ListOf[op] : op \in Operations}
Events == Files \cup {"finished", "failed"}

FileOf(op) == Entries[op][entry[op]]
More(op) == entry[op] <= Len(Entries[op])

ExtractionTypeOK ==
  /\ RunnerTypeOK /\ paths \in SUBSET Files
  /\ stage \in {"ready", "backup", "unpack", "collect", "retry", "unpacked", "undo", "over"}
  /\ interrupted \in BOOLEAN
  /\ at \in [Operations -> Backing \cup Writing \cup {"idle"}]
  /\ entry \in [Operations -> Nat] /\ \A op \in Operations : entry[op] \in 1..(Len(Entries[op]) + 1)
  /\ stop \in [Operations -> {"no", "posted", "seen"}]
  /\ inbox \in [Operations -> Seq(Events)]
  /\ extracted \in [Operations -> SUBSET Files]
  /\ earlier \in [Operations -> SUBSET Files]
  /\ backups \in [Operations -> SUBSET (Files \X BackupNumbers)]
  /\ picked \in [Operations -> BackupNumbers]
  /\ attached \in [Operations -> BOOLEAN]
  /\ failed \in SUBSET Operations /\ succeeded \in SUBSET Operations
  /\ file \in [Files -> Contents]
  /\ aside \in [Files -> [BackupNumbers -> Contents]]
  /\ list \in [Names -> SUBSET Files]
  /\ {left, recorded, undone} \subseteq SUBSET Operations
  /\ retries \in 0..MaxRetries

ExtractionInit ==
  /\ RunnerInit /\ paths = {}
  /\ stage = "ready" /\ interrupted = FALSE /\ retries = 0
  /\ left = {} /\ recorded = {} /\ undone = {}
  /\ at = [op \in Operations |-> "idle"] /\ entry = [op \in Operations |-> 1]
  /\ stop = [op \in Operations |-> "no"] /\ inbox = [op \in Operations |-> <<>>]
  /\ extracted = [op \in Operations |-> {}] /\ earlier = [op \in Operations |-> {}]
  /\ backups = [op \in Operations |-> {}] /\ picked = [op \in Operations |-> 0]
  /\ attached = [op \in Operations |-> FALSE]
  /\ failed = {} /\ succeeded = {}
  /\ file = [f \in Files |-> IF f \in UserFiles THEN By(User) ELSE NoFile]
  /\ aside = [f \in Files |-> [i \in BackupNumbers |->
                IF i = 0 /\ f \in Leftovers THEN By(None) ELSE NoFile]]
  /\ list = [n \in Names |-> {}]

-----------------------------------------------------------------------------
(* The main thread                                                         *)

Idle == UNCHANGED <<paths, threadVars, outcomeVars, diskVars>>

BackupAll ==
  /\ stage = "ready" /\ stage' = "backup" /\ Run(Operations)
  /\ Idle /\ UNCHANGED <<interrupted, left, recorded, undone, retries>>

\* The runner came back with the backups: perform, or throw.
UnpackAll ==
  /\ stage = "backup" /\ ~looping
  /\ IF interrupted THEN stage' = "unpacked" /\ UNCHANGED runnerVars
     ELSE stage' = "unpack" /\ Run(Operations)
  /\ Idle /\ UNCHANGED <<interrupted, left, recorded, undone, retries>>

CollectAll ==
  /\ stage = "unpack" /\ ~looping /\ stage' = "collect" /\ left' = Operations
  /\ Idle /\ UNCHANGED <<runnerVars, interrupted, recorded, undone, retries>>

\* One turn of the loop over the results that ends with an operation handled:
\* it succeeded, or the user chose Ignore or canceled.
Collect(op) ==
  /\ stage = "collect" /\ op \in left /\ left' = left \ {op}
  /\ recorded' = IF results[op] = "true" \/ op \in failed THEN recorded \cup {op}
                 ELSE recorded
  /\ \/ results[op] = "true" /\ UNCHANGED interrupted
     \/ results[op] # "true" /\ interrupted' \in {interrupted, TRUE}
  /\ Idle /\ UNCHANGED <<runnerVars, stage, undone, retries>>

\* The thread that serves an operation begins at a place.
Enter(op, place) ==
  /\ at' = [at EXCEPT ![op] = place]
  /\ earlier' = [earlier EXCEPT ![op] = @ \cup extracted[op]]
  /\ extracted' = [extracted EXCEPT ![op] = {}]
  /\ UNCHANGED <<entry, stop, inbox, picked, attached, backups, failed, succeeded>>

Retry(op) ==
  /\ stage = "collect" /\ op \in left /\ results[op] # "true" /\ ~interrupted
  /\ retries < MaxRetries /\ retries' = retries + 1
  /\ stage' = "retry" /\ Enter(op, "entry")
  /\ UNCHANGED <<runnerVars, paths, diskVars, interrupted, left, recorded, undone>>

Unpacked ==
  /\ stage = "collect" /\ left = {} /\ stage' = "unpacked"
  /\ Idle /\ UNCHANGED <<runnerVars, interrupted, left, recorded, undone, retries>>

\* The session fails or is canceled later, or a later one uninstalls.
RollBack ==
  /\ stage = "unpacked" /\ stage' = "undo"
  /\ Idle /\ UNCHANGED <<runnerVars, interrupted, left, recorded, undone, retries>>

\* undoOperation(): the files that the data file names, then the data file.
Undo(op) ==
  /\ stage = "undo" /\ op \in recorded
  /\ recorded' = recorded \ {op} /\ undone' = undone \cup {op}
  /\ file' = [f \in Files |-> IF f \in list[ListOf[op]] THEN NoFile ELSE file[f]]
  /\ list' = [list EXCEPT ![ListOf[op]] = {}] /\ UNCHANGED aside
  /\ UNCHANGED <<runnerVars, paths, threadVars, outcomeVars,
                 stage, interrupted, left, retries>>

RolledBack ==
  /\ stage = "undo" /\ recorded = {} /\ stage' = "over"
  /\ Idle /\ UNCHANGED <<runnerVars, interrupted, left, recorded, undone, retries>>

\* The user cancels: the runner's futures, and a statusChanged() for the workers.
Interrupt ==
  /\ stage \in {"backup", "unpack", "retry"} /\ ~interrupted
  /\ interrupted' = TRUE
  /\ IF looping THEN Cancel ELSE UNCHANGED runnerVars
  /\ stop' = [op \in Operations |-> IF at[op] \in Writing THEN "posted" ELSE stop[op]]
  /\ UNCHANGED <<paths, outcomeVars, diskVars, stage, left, recorded, undone, retries,
                 at, entry, inbox, extracted, picked, attached>>

-----------------------------------------------------------------------------
(* The threads                                                             *)

At(op, place) == at' = [at EXCEPT ![op] = place]
\* Mutation: the loop counts twice.
NextButOne(op) == entry' = [entry EXCEPT ![op] = @ + 2]

NextEntry(op) == entry' = [entry EXCEPT ![op] = @ + 1]

\* Mutation: the newest event is delivered first.
PostFirst(op, e) == inbox' = [inbox EXCEPT ![op] = <<e>> \o @]

Post(op, e) == inbox' = [inbox EXCEPT ![op] = Append(@, e)]
Write(op, half) == [file EXCEPT ![FileOf(op)] = [@ EXCEPT ![half] = op]]

Start(op) ==
  /\ StartTask(op) /\ Enter(op, IF stage = "backup" THEN "look" ELSE "entry")
  /\ UNCHANGED <<paths, sessionVars, diskVars>>

Skip(op) ==
  /\ SkipTask(op)
  /\ UNCHANGED <<paths, sessionVars, threadVars, outcomeVars, diskVars>>

Handle(op) ==
  /\ HandleFinished(op)
  /\ UNCHANGED <<paths, sessionVars, threadVars, outcomeVars, diskVars>>

\* The thread is done: its stack, worker and events go.
Leave(op) ==
  /\ at' = [at EXCEPT ![op] = "idle"] /\ entry' = [entry EXCEPT ![op] = 1]
  /\ stop' = [stop EXCEPT ![op] = "no"] /\ inbox' = [inbox EXCEPT ![op] = <<>>]
  /\ picked' = [picked EXCEPT ![op] = 0]

\* backup() has gone through all entries.
BackedUp(op) ==
  /\ at[op] = "look" /\ ~More(op) /\ Leave(op) /\ EndTask(op, TRUE)
  /\ UNCHANGED <<paths, sessionVars, outcomeVars, diskVars, extracted, attached>>

\* backup() cannot read the archive.
CannotBackUp(op) ==
  /\ at[op] = "look" /\ entry[op] = 1 /\ op \in Fragile
  /\ Leave(op) /\ EndTask(op, TRUE) /\ failed' = failed \cup {op}
  /\ UNCHANGED <<paths, sessionVars, diskVars, backups, succeeded, earlier,
                 extracted, attached>>

\* prepareForFile(): is there a file?  It is looked for before it is locked.
Look(op) ==
  /\ at[op] = "look" /\ More(op)
  /\ IF file[FileOf(op)] = NoFile THEN NextEntry(op) /\ UNCHANGED at
     ELSE At(op, "guard") /\ UNCHANGED entry
  /\ UNCHANGED <<runnerVars, paths, sessionVars, outcomeVars, diskVars,
                 stop, inbox, extracted, picked, attached>>

\* generateBackupName(): the first that does not exist.
FreeName(f) == CHOOSE i \in BackupNumbers :
                 aside[f][i] = NoFile /\ \A j \in 0..(i - 1) : aside[f][j] # NoFile

\* Mutation: the backup does not use the guard.
BackupUnlocked(op) ==
  /\ at[op] = "guard" /\ At(op, "pick") /\ UNCHANGED paths
  /\ UNCHANGED <<runnerVars, sessionVars, outcomeVars, diskVars,
                 entry, stop, inbox, extracted, picked, attached>>

LockBackup(op) ==
  /\ at[op] = "guard" /\ TryLock(FileOf(op)) /\ At(op, "pick")
  /\ UNCHANGED <<runnerVars, sessionVars, outcomeVars, diskVars,
                 entry, stop, inbox, extracted, picked, attached>>

Pick(op) ==
  /\ at[op] = "pick" /\ At(op, "rename")
  /\ picked' = [picked EXCEPT ![op] = FreeName(FileOf(op))]
  /\ UNCHANGED <<runnerVars, paths, sessionVars, outcomeVars, diskVars,
                 entry, stop, inbox, extracted, attached>>

\* QFile::rename(), which does not overwrite; a file that is gone by now, and
\* not moved, is noted as well.  One that cannot be moved stays.
Rename(op) ==
  LET f == FileOf(op) i == picked[op] IN
  /\ at[op] = "rename" /\ At(op, "look") /\ NextEntry(op) /\ Release(f)
  /\ picked' = [picked EXCEPT ![op] = 0]
  /\ \/ /\ file[f] # NoFile /\ aside[f][i] = NoFile
        /\ file' = [file EXCEPT ![f] = NoFile]
        /\ aside' = [aside EXCEPT ![f][i] = file[f]]
        /\ backups' = [backups EXCEPT ![op] = @ \cup {<<f, i>>}]
     \/ /\ file[f] = NoFile /\ UNCHANGED <<file, aside>>
        /\ backups' = [backups EXCEPT ![op] = @ \cup {<<f, i>>}]
     \/ /\ file[f] # NoFile /\ (op \in Fragile \/ aside[f][i] # NoFile)
        /\ UNCHANGED <<file, aside, backups>>
  /\ UNCHANGED <<runnerVars, sessionVars, failed, succeeded, earlier, list,
                 stop, inbox, extracted, attached>>

\* The worker goes on to its next entry; libarchive tells its name first.
Proceed(op) ==
  /\ at[op] = "entry" /\ More(op) /\ stop[op] # "seen" /\ At(op, "wait")
  /\ IF op \in SevenZip THEN UNCHANGED inbox ELSE Post(op, FileOf(op))
  /\ UNCHANGED <<runnerVars, paths, sessionVars, outcomeVars, diskVars,
                 entry, stop, extracted, picked, attached>>

\* Mutation: extraction does not use the guard.
EntryUnlocked(op) ==
  /\ at[op] = "wait" /\ UNCHANGED paths
  /\ At(op, IF op \in SevenZip THEN "open" ELSE "header")
  /\ UNCHANGED <<runnerVars, sessionVars, outcomeVars, diskVars,
                 entry, stop, inbox, extracted, picked, attached>>

\* A file is locked for all of its extraction, for 7z only while it is opened.
LockEntry(op) ==
  /\ at[op] = "wait" /\ TryLock(FileOf(op))
  /\ At(op, IF op \in SevenZip THEN "open" ELSE "header")
  /\ UNCHANGED <<runnerVars, sessionVars, outcomeVars, diskVars,
                 entry, stop, inbox, extracted, picked, attached>>

\* The event loop in which the locker waits delivers the cancel.
CancelWaiting(op) ==
  /\ at[op] = "wait" /\ FileOf(op) \in paths /\ stop[op] = "posted"
  /\ stop' = [stop EXCEPT ![op] = "seen"]
  /\ UNCHANGED <<runnerVars, paths, sessionVars, outcomeVars, diskVars,
                 at, entry, inbox, extracted, picked, attached>>

\* archive_write_header(): an existing file is unlinked, a new one made.
WriteHeader(op) ==
  /\ at[op] = "header" /\ At(op, "data")
  /\ file' = [file EXCEPT ![FileOf(op)] = <<op, None>>]
  /\ attached' = [o \in Operations |->
       attached[o] /\ ~(at[o] \in {"first", "rest"} /\ FileOf(o) = FileOf(op))]
  /\ UNCHANGED <<runnerVars, paths, sessionVars, outcomeVars, aside, list,
                 entry, stop, inbox, extracted, picked>>

\* After an entry: processEvents(), which may bring the cancel.
Pumped(op) == stop' = [stop EXCEPT ![op] = IF @ = "posted" THEN "seen" ELSE @]

\* archive_write_data_block() up to archive_write_finish_entry()
WriteData(op) ==
  /\ at[op] = "data" /\ At(op, "entry") /\ NextEntry(op) /\ Release(FileOf(op)) /\ Pumped(op)
  /\ file' = [file EXCEPT ![FileOf(op)] = By(op)]
  /\ UNCHANGED <<runnerVars, sessionVars, outcomeVars, aside, list,
                 inbox, extracted, picked, attached>>

\* ExtractCallback::GetStream(): the name is told, the file truncated and open,
\* and the guard given back.
OpenStream(op) ==
  /\ at[op] = "open" /\ At(op, "first") /\ Post(op, FileOf(op)) /\ Release(FileOf(op))
  /\ file' = [file EXCEPT ![FileOf(op)] = <<op, None>>]
  /\ attached' = [attached EXCEPT ![op] = TRUE]
  /\ UNCHANGED <<runnerVars, sessionVars, outcomeVars, aside, list,
                 entry, stop, extracted, picked>>

\* The decoder writes the first half of a file; setCompleted() pumps events.
WriteFirst(op) ==
  /\ at[op] = "first" /\ stop[op] # "seen" /\ At(op, "rest") /\ Pumped(op)
  /\ file' = IF attached[op] THEN Write(op, 1) ELSE file
  /\ UNCHANGED <<runnerVars, paths, sessionVars, outcomeVars, aside, list,
                 entry, inbox, extracted, picked, attached>>

WriteRest(op) ==
  /\ at[op] = "rest" /\ stop[op] # "seen" /\ At(op, "entry") /\ NextEntry(op) /\ Pumped(op)
  /\ file' = IF attached[op] THEN Write(op, 2) ELSE file
  /\ attached' = [attached EXCEPT ![op] = FALSE]
  /\ UNCHANGED <<runnerVars, paths, sessionVars, outcomeVars, aside, list,
                 inbox, extracted, picked>>

\* The worker is through: it posts finished() behind all that it posted before.
Complete(op) ==
  /\ at[op] = "entry" /\ ~More(op) /\ stop[op] # "seen"
  /\ At(op, "done") /\ Post(op, "finished")
  /\ UNCHANGED <<runnerVars, paths, sessionVars, outcomeVars, diskVars,
                 entry, stop, extracted, picked, attached>>

\* Mutation: the locker of an entry that cannot be written is left behind.
BreakOffLocked(op) ==
  /\ \/ at[op] \in {"entry", "first", "rest"} /\ stop[op] = "seen"
     \/ at[op] \in {"entry", "header", "data", "open", "first", "rest"} /\ op \in Fragile
  /\ At(op, "done") /\ Post(op, "failed") /\ UNCHANGED paths
  /\ attached' = [attached EXCEPT ![op] = FALSE]
  /\ UNCHANGED <<runnerVars, sessionVars, outcomeVars, diskVars,
                 entry, stop, extracted, picked>>

\* Canceled, or an entry cannot be read or written: what is locked is released
\* and the rest of the archive is left out.
BreakOff(op) ==
  /\ \/ at[op] \in {"entry", "first", "rest"} /\ stop[op] = "seen"
     \/ at[op] \in {"entry", "header", "data", "open", "first", "rest"} /\ op \in Fragile
  /\ IF at[op] \in Holding THEN Release(FileOf(op)) ELSE UNCHANGED paths
  /\ At(op, "done")
  /\ inbox' = [inbox EXCEPT ![op] =
       @ \o (IF at[op] = "open" THEN <<FileOf(op), "failed">> ELSE <<"failed">>)]
  /\ attached' = [attached EXCEPT ![op] = FALSE]
  /\ UNCHANGED <<runnerVars, sessionVars, outcomeVars, diskVars,
                 entry, stop, extracted, picked>>

\* Callback::onCurrentEntryChanged()
ReceiveEntry(op) ==
  /\ inbox[op] # <<>> /\ Head(inbox[op]) \in Files
  /\ extracted' = [extracted EXCEPT ![op] = @ \cup {Head(inbox[op])}]
  /\ inbox' = [inbox EXCEPT ![op] = Tail(@)]
  /\ UNCHANGED <<runnerVars, paths, sessionVars, outcomeVars, diskVars,
                 at, entry, stop, picked, attached>>

\* Receiver::workerFinished() ends the event loop: performOperation() writes the
\* data file, deletes its backups, whether it succeeded or not, and returns.
WorkerFinished(op) ==
  LET ok == Head(inbox[op]) = "finished" IN
  /\ at[op] = "done" /\ Head(inbox[op]) \notin Files
  /\ Leave(op)
  /\ list' = [list EXCEPT ![ListOf[op]] = extracted[op]]
  /\ aside' = [f \in Files |-> [i \in BackupNumbers |->
                 IF <<f, i>> \in backups[op] THEN NoFile ELSE aside[f][i]]]
  /\ failed' = IF ok THEN failed ELSE failed \cup {op}
  /\ succeeded' = IF ok THEN succeeded \cup {op} ELSE succeeded
  /\ IF stage = "retry"
     THEN /\ stage' = "collect" /\ UNCHANGED runnerVars
          /\ left' = IF ok THEN left \ {op} ELSE left
          /\ recorded' = IF ok THEN recorded \cup {op} ELSE recorded
     ELSE EndTask(op, ok) /\ UNCHANGED <<stage, left, recorded>>
  /\ UNCHANGED <<paths, interrupted, undone, retries, backups, earlier, file,
                 extracted, attached>>

WorkerStep(op) ==
  \/ BackedUp(op) \/ CannotBackUp(op) \/ Look(op) \/ LockBackup(op) \/ Pick(op)
  \/ Rename(op) \/ Proceed(op) \/ LockEntry(op) \/ CancelWaiting(op) \/ WriteHeader(op)
  \/ WriteData(op) \/ OpenStream(op) \/ WriteFirst(op) \/ WriteRest(op)
  \/ Complete(op) \/ BreakOff(op)

\* What the pool, the worker thread and the event loops do about an operation.
ThreadStep(op) ==
  \/ Start(op) \/ Skip(op) \/ Handle(op)
  \/ WorkerStep(op) \/ ReceiveEntry(op) \/ WorkerFinished(op)

ExtractionNext ==
  \/ BackupAll \/ UnpackAll \/ CollectAll \/ Unpacked \/ RollBack \/ RolledBack \/ Interrupt
  \/ \E op \in Operations : Collect(op) \/ Retry(op) \/ Undo(op) \/ ThreadStep(op)

\* Threads run and event loops deliver; nothing is promised of the user.
ExtractionFairness == \A op \in Operations : WF_extractionVars(ThreadStep(op))

ExtractionSpec == ExtractionInit /\ [][ExtractionNext]_extractionVars /\ ExtractionFairness

-----------------------------------------------------------------------------
(* Properties                                                              *)

\* The guard excludes: a path is in FileGuard's list exactly while one thread
\* holds it, no two threads hold the same, and no thread ends holding one.
GuardsExclude ==
  /\ paths = {FileOf(op) : op \in {o \in Operations : at[o] \in Holding}}
  /\ \A op1, op2 \in Operations :
       at[op1] \in Holding /\ at[op2] \in Holding /\ FileOf(op1) = FileOf(op2) => op1 = op2

Sharing(f) == {op \in Operations : f \in EntriesOf(op)}

\* A file of the user that archives replace is at its place or at a backup name
\* until one of these archives is being extracted or has been: backing up from
\* several threads loses none, takes none twice and never takes an extracted
\* file for one, and the copies an earlier session left are not touched.
UserFilesAccounted ==
  /\ \A f \in UserFiles :
       \/ file[f] = By(User) \/ \E i \in BackupNumbers : aside[f][i] = By(User)
       \/ \E op \in Sharing(f) : op \in succeeded \cup failed \/ at[op] \in Writing
  /\ \A f \in Files, i \in BackupNumbers :
       /\ aside[f][i] \in {NoFile, By(User), By(None)}
       /\ aside[f][i] = By(User) =>
            Cardinality({op \in Operations : <<f, i>> \in backups[op]}) = 1
       /\ i = 0 /\ f \in Leftovers => aside[f][i] = By(None)

\* When all archives that share a file are extracted, it is one of them that
\* wrote all of it, however their threads took turns.  (Two 7z archives that
\* share a file may mix it: neither holds the guard while it writes.)
FilesAreWhole ==
  \A f \in Files :
    /\ Sharing(f) # {} /\ Sharing(f) \subseteq succeeded
    /\ Cardinality(Sharing(f) \cap SevenZip) <= 1
    /\ \A op \in Sharing(f) : at[op] = "idle" /\ stage \notin {"undo", "over"}
    => \E op \in Sharing(f) : file[f] = By(op)

OwnList(op) == \A o \in Operations : ListOf[o] = ListOf[op] => o = op

\* Something that op wrote is still at f.
Leaves(op, f) == file[f] # NoFile /\ op \in {file[f][1], file[f][2]}

\* An operation that was undone, a failed or canceled one too, leaves nothing of
\* what its last attempt wrote.  (Its data file must be its own, and the files
\* of an earlier attempt that the last did not come to are forgotten.)
UndoRemovesAll ==
  \A op \in undone, f \in Files :
    OwnList(op) /\ Leaves(op, f) => f \in earlier[op] \ extracted[op]

\* What the comment over the data file says: all files that belong to the
\* package are in it.  Not so after a Retry that breaks off sooner.
UndoRemovesEveryAttempt ==
  \A op \in undone, f \in Files : OwnList(op) => ~Leaves(op, f)
=============================================================================
