------------------------- MODULE MaintenanceToolFile -------------------------
(***************************************************************************)
(* The files that make up the maintenance tool, and how                    *)
(* PackageManagerCorePrivate::writeMaintenanceTool() replaces them: one    *)
(* file operation at a time, each of which may fail, in a process that may *)
(* die between any two of them. This is the build for Linux.               *)
(*                                                                         *)
(* A list of performed operations is a generation: a number, larger for a  *)
(* list that was made from a list of a smaller one.                        *)
(***************************************************************************)
EXTENDS Naturals

CONSTANTS
  MaxGeneration,  \* bound: sessions that perform operations
  MaxCrashes,     \* bound: processes that die
  MayFail,        \* the file operations that may fail
  None,           \* no such file
  Partial,        \* a file whose writer died
  Bare,           \* an executable without data, as the installer writes it
  Marked          \* one with the marker of a maintenance tool and no data

Generations == 1..MaxGeneration
Executables == {Bare, Marked}

\* An executable, and the list appended to it, if any.
Binary(base, list) == [exe |-> base, list |-> list]
Binaries == [exe : Executables, list : 0..MaxGeneration]

FileOperations == {"magic", "magicRename", "staleTool", "copy", "data", "staleData",
                   "dataRename", "append", "config", "removeData", "renameData",
                   "removeTool", "renameTool"}

ASSUME FileAssumption ==
  /\ MaxGeneration \in Nat /\ MaxCrashes \in Nat
  /\ MayFail \subseteq FileOperations
  /\ {None, Partial, Bare, Marked} \cap Generations = {}
  /\ None \notin Executables \cup Binaries /\ Bare # Marked

VARIABLES
  tool, toolNew,      \* maintenancetool, maintenancetool.new
  data, dataNew,      \* maintenancetool.dat, maintenancetool.dat.new
  magic,              \* installer.dat, which says "read the .dat"
  pc,                 \* "off", "idle", or the next file operation
  isInstaller,        \* which program is running
  stage,              \* what writeMaintenanceToolBinary() was called for
  exe,                \* the executable it writes
  newBinaryWritten,
  replacement,        \* the installer base a component brought, or None
  memory,             \* generation of the operations in memory
  needToWrite,        \* m_needToWriteMaintenanceTool
  committed,          \* generation of the last write without an error
  outcome,            \* of the last write of this process
  made, crashes,      \* counters
  unnoticed           \* history: what went wrong without an error

files == <<tool, toolNew, data, dataNew, magic>>
writeVars == <<stage, exe, newBinaryWritten, replacement>>
fileVars == <<files, writeVars, pc, isInstaller, memory, needToWrite, committed,
              outcome, made, crashes, unnoticed>>

\* The failures at whose results the code does not look, and an old .dat.new
\* file that is still there when the data goes to the executable instead.
Unnoticed == {"removeData", "renameData", "removeTool", "renameTool", "staleData"}

FileTypeOK ==
  /\ tool \in {None} \cup Binaries /\ toolNew \in {None} \cup Binaries
  /\ data \in {None, Partial} \cup Generations
  /\ dataNew \in {None, Partial} \cup Generations
  /\ magic \in {"absent", Partial, "written"}
  /\ pc \in {"off", "idle", "input"} \cup FileOperations
  /\ isInstaller \in BOOLEAN /\ newBinaryWritten \in BOOLEAN /\ needToWrite \in BOOLEAN
  /\ stage \in {"replacement", "input", "append"}
  /\ exe \in Executables /\ replacement \in {None} \cup Executables
  /\ memory \in 0..MaxGeneration /\ committed \in 0..MaxGeneration
  /\ outcome \in {"none", "written", "error"}
  /\ made \in 0..MaxGeneration /\ crashes \in 0..MaxCrashes
  /\ unnoticed \subseteq Unnoticed

FileInit ==
  /\ tool = None /\ toolNew = None /\ data = None /\ dataNew = None /\ magic = "absent"
  /\ pc = "idle" /\ isInstaller = TRUE
  /\ stage = "input" /\ exe = Bare /\ newBinaryWritten = FALSE /\ replacement = None
  /\ memory = 0 /\ needToWrite = FALSE /\ committed = 0 /\ outcome = "none"
  /\ made = 0 /\ crashes = 0 /\ unnoticed = {}

-----------------------------------------------------------------------------
(* Processes and sessions                                                  *)

\* A session that performs operations, and may bring a new installer base.
Session(base) ==
  /\ pc = "idle" /\ made < MaxGeneration
  /\ isInstaller => memory = 0
  /\ made' = made + 1 /\ memory' = made' /\ needToWrite' = TRUE
  /\ replacement' = base
  /\ UNCHANGED <<files, stage, exe, newBinaryWritten, pc, isInstaller, committed,
                 outcome, crashes, unnoticed>>

\* At the end of runInstaller(), on Restart or at the end of the process.
Write ==
  /\ pc = "idle" /\ needToWrite
  /\ newBinaryWritten' = FALSE /\ outcome' = "none"
  /\ IF replacement = None
     THEN pc' = "input" /\ UNCHANGED <<stage, exe>>
     ELSE stage' = "replacement" /\ exe' = replacement /\ pc' = "magic"
  /\ replacement' = None
  /\ UNCHANGED <<files, isInstaller, memory, needToWrite, committed, made, crashes,
                 unnoticed>>

\* With the request to write standing if admin rights are refused.
Quit ==
  /\ pc = "idle"
  /\ pc' = "off"
  /\ UNCHANGED <<files, writeVars, isInstaller, memory, needToWrite, committed,
                 outcome, made, crashes, unnoticed>>

\* SDKApp::datFile(): whether the file that holds the marker can be read. A
\* maintenance tool always goes on to its .dat file.
MarkerFound == magic = "written" \/ (magic = "absent" /\ tool # Binary(Bare, 0))
CanStart == tool # None /\ MarkerFound /\ data \in Generations

\* Mutation: whether there is a .dat file is not looked at.
LaunchUnchecked ==
  /\ pc = "off" /\ tool # None /\ MarkerFound
  /\ memory' = data /\ isInstaller' = FALSE
  /\ pc' = "idle" /\ needToWrite' = FALSE /\ outcome' = "none" /\ replacement' = None
  /\ UNCHANGED <<files, stage, exe, newBinaryWritten, committed, made, crashes,
                 unnoticed>>

Launch ==
  /\ pc = "off" /\ CanStart
  /\ memory' = data /\ isInstaller' = FALSE
  /\ pc' = "idle" /\ needToWrite' = FALSE /\ outcome' = "none" /\ replacement' = None
  /\ UNCHANGED <<files, stage, exe, newBinaryWritten, committed, made, crashes,
                 unnoticed>>

\* The installer again, which refuses a directory with a maintenance tool. (To
\* install anew over a tool that was lost is to give the old lists up.)
Reinstall ==
  /\ pc = "off" /\ tool = None /\ committed = 0
  /\ memory' = 0 /\ isInstaller' = TRUE
  /\ pc' = "idle" /\ needToWrite' = FALSE /\ outcome' = "none" /\ replacement' = None
  /\ UNCHANGED <<files, stage, exe, newBinaryWritten, committed, made, crashes,
                 unnoticed>>

\* A rename from the temporary directory may copy, and leave half a copy; half
\* of a maintenancetool.new is as good as one without data.
Crash ==
  /\ pc # "off" /\ crashes < MaxCrashes
  /\ pc' = "off" /\ crashes' = crashes + 1 /\ outcome' = "none"
  /\ magic' \in {magic} \cup (IF pc = "magicRename" THEN {Partial} ELSE {})
  /\ dataNew' \in {dataNew} \cup (IF pc = "dataRename" THEN {Partial} ELSE {})
  /\ toolNew' \in {toolNew} \cup (IF pc = "copy" THEN {Binary(exe, 0)} ELSE {})
  /\ UNCHANGED <<tool, data, writeVars, isInstaller, memory, needToWrite,
                 committed, made, unnoticed>>

-----------------------------------------------------------------------------
(* writeMaintenanceTool()                                                  *)

Fails(op) == op \in MayFail

\* The catch block: the request to write is taken back.
Throw ==
  /\ pc' = "idle" /\ outcome' = "error" /\ needToWrite' = FALSE
  /\ UNCHANGED <<writeVars, isInstaller, memory, committed, made, crashes>>

Goto(step) ==
  /\ pc' = step
  /\ UNCHANGED <<isInstaller, memory, needToWrite, committed, outcome, made, crashes>>

\* writeMaintenanceToolBinary() fails: an error with the replacement is logged.
BinaryFailed ==
  IF stage = "replacement" THEN Goto("input") /\ UNCHANGED writeVars ELSE Throw

\* The old installer.dat is removed; not when the data is to be appended.
RemoveMagic ==
  /\ pc = "magic"
  /\ \/ magic' = "absent" /\ Goto("magicRename") /\ UNCHANGED writeVars
     \/ Fails("magic") /\ UNCHANGED magic /\ BinaryFailed
  /\ UNCHANGED <<tool, toolNew, data, dataNew, unnoticed>>

RenameMagic ==
  /\ pc = "magicRename"
  /\ \/ magic' = "written" /\ Goto("staleTool") /\ UNCHANGED writeVars
     \/ Fails("magicRename") /\ UNCHANGED magic /\ BinaryFailed
  /\ UNCHANGED <<tool, toolNew, data, dataNew, unnoticed>>

RemoveStaleTool ==
  /\ pc = "staleTool"
  /\ \/ toolNew' = None /\ Goto("copy") /\ UNCHANGED writeVars
     \/ toolNew # None /\ Fails("staleTool") /\ UNCHANGED toolNew /\ BinaryFailed
  /\ UNCHANGED <<tool, data, dataNew, magic, unnoticed>>

CopyTool ==
  /\ pc = "copy"
  /\ \/ /\ toolNew' = Binary(exe, 0) /\ newBinaryWritten' = TRUE
        /\ Goto(CASE stage = "replacement" -> "input"
                  [] stage = "input" -> "data"
                  [] stage = "append" -> "append")
        /\ UNCHANGED <<stage, exe, replacement>>
     \/ Fails("copy") /\ UNCHANGED toolNew /\ BinaryFailed
  /\ UNCHANGED <<tool, data, dataNew, magic, unnoticed>>

\* The executable that is running, without the data appended to it.
Own == IF isInstaller THEN Bare ELSE tool.exe

\* Whether the data of the executable can be found: it cannot be opened if an
\* earlier write of this process removed it and failed to rename the new one; a
\* bare maintenance tool has none; the layout of a marked one has no resources,
\* of which first() is taken all the same, and the process dies.
OwnData == ~isInstaller => tool # None /\ tool.list # 0

NoOwnData ==
  IF tool = None \/ tool.exe = Bare THEN Throw
  ELSE /\ pc' = "off" /\ outcome' = "none"
       /\ UNCHANGED <<writeVars, isInstaller, memory, needToWrite, committed, made,
                      crashes>>

WriteBinaryFor(reason, step) ==
  /\ stage' = reason /\ exe' = Own /\ Goto(step)
  /\ UNCHANGED <<newBinaryWritten, replacement>>

\* Where the resources are read from: the .dat file, or else the executable.
OpenInput ==
  /\ pc = "input"
  /\ \/ ~isInstaller /\ data \in Generations /\ Goto("data") /\ UNCHANGED writeVars
     \/ /\ isInstaller \/ data \notin Generations
        /\ OwnData
        /\ IF newBinaryWritten
           THEN Goto("data") /\ UNCHANGED writeVars
           ELSE WriteBinaryFor("input", "magic")
     \/ ~isInstaller /\ data \notin Generations /\ ~OwnData /\ NoOwnData
  /\ UNCHANGED <<files, unnoticed>>

\* The inner catch block: the data is to be appended to an executable, which is
\* written for it, without an installer.dat, if there is none yet.
AppendInstead ==
  \/ newBinaryWritten /\ Goto("append") /\ UNCHANGED writeVars
  \/ ~newBinaryWritten /\ OwnData /\ WriteBinaryFor("append", "staleTool")
  \/ ~newBinaryWritten /\ ~OwnData /\ NoOwnData

\* To a temporary file.
WriteData ==
  /\ pc = "data"
  /\ (Goto("staleData") /\ UNCHANGED writeVars) \/ (Fails("data") /\ AppendInstead)
  /\ UNCHANGED <<files, unnoticed>>

\* Mutations: the old .dat file is removed before the new one is there; a
\* .dat.new file that is found is taken for the new one.
RemoveAllData ==
  /\ pc = "staleData"
  /\ dataNew' = None /\ data' = None /\ Goto("dataRename")
  /\ UNCHANGED <<tool, toolNew, magic, writeVars, unnoticed>>
KeepStaleData ==
  /\ pc = "staleData"
  /\ Goto(IF dataNew = None THEN "dataRename" ELSE "config")
  /\ UNCHANGED <<files, writeVars, unnoticed>>

RemoveStaleData ==
  /\ pc = "staleData"
  /\ \/ dataNew' = None /\ Goto("dataRename") /\ UNCHANGED writeVars
     \/ dataNew # None /\ Fails("staleData") /\ UNCHANGED dataNew /\ AppendInstead
  /\ UNCHANGED <<tool, toolNew, data, magic, unnoticed>>

RenameNewData ==
  /\ pc = "dataRename"
  /\ \/ dataNew' = memory /\ Goto("config") /\ UNCHANGED writeVars
     \/ Fails("dataRename") /\ UNCHANGED dataNew /\ AppendInstead
  /\ UNCHANGED <<tool, toolNew, data, magic, unnoticed>>

AppendData ==
  /\ pc = "append"
  /\ \/ toolNew' = Binary(toolNew.exe, memory) /\ Goto("config") /\ UNCHANGED writeVars
     \/ Fails("append") /\ UNCHANGED toolNew /\ Throw
  /\ UNCHANGED <<tool, data, dataNew, magic, unnoticed>>

WriteConfig ==
  /\ pc = "config"
  /\ (Goto("removeData") /\ UNCHANGED writeVars) \/ (Fails("config") /\ Throw)
  /\ UNCHANGED <<files, unnoticed>>

\* From here on no result is looked at: a failure is only in the history.
Notice(what, happened) ==
  unnoticed' = IF happened THEN unnoticed \cup {what} ELSE unnoticed

RemoveData ==
  /\ pc = "removeData"
  /\ \/ data' = None /\ UNCHANGED unnoticed
     \/ /\ data # None /\ Fails("removeData") /\ UNCHANGED data
        /\ Notice("removeData", TRUE)
  /\ Goto("renameData")
  /\ UNCHANGED <<tool, toolNew, dataNew, magic, writeVars>>

\* commitSessionOperations().
Committed ==
  /\ pc' = "idle" /\ outcome' = "written" /\ needToWrite' = FALSE
  /\ committed' = memory
  /\ UNCHANGED <<writeVars, isInstaller, memory, made, crashes>>

\* The new list is at the end of maintenancetool.new.
Appended == newBinaryWritten /\ toolNew # None /\ toolNew.list = memory

\* QFile::rename() does not replace a file that exists. What it renames is an
\* old file if the data went to the executable and a .dat.new was left there.
RenameData ==
  /\ pc = "renameData"
  /\ \/ /\ data = None /\ dataNew # None /\ data' = dataNew /\ dataNew' = None
        /\ Notice("staleData", Appended /\ dataNew # memory)
     \/ /\ data # None \/ dataNew = None \/ Fails("renameData")
        /\ UNCHANGED <<data, dataNew>>
        /\ Notice("renameData", data = None /\ dataNew # None)
  /\ IF newBinaryWritten
     THEN Goto(IF isInstaller THEN "renameTool" ELSE "removeTool") /\ UNCHANGED writeVars
     ELSE Committed
  /\ UNCHANGED <<tool, toolNew, magic>>

\* deferredRename()
RemoveTool ==
  /\ pc = "removeTool"
  /\ \/ tool' = None /\ UNCHANGED unnoticed
     \/ /\ tool # None /\ Fails("removeTool") /\ UNCHANGED tool
        /\ Notice("removeTool", TRUE)
  /\ Goto("renameTool")
  /\ UNCHANGED <<toolNew, data, dataNew, magic, writeVars>>

RenameTool ==
  /\ pc = "renameTool"
  /\ \/ tool = None /\ tool' = toolNew /\ toolNew' = None /\ UNCHANGED unnoticed
     \/ /\ tool # None \/ Fails("renameTool")
        /\ UNCHANGED <<tool, toolNew>> /\ Notice("renameTool", tool = None)
  /\ Committed
  /\ UNCHANGED <<data, dataNew, magic>>

-----------------------------------------------------------------------------
WriteStep ==
  \/ RemoveMagic \/ RenameMagic \/ RemoveStaleTool \/ CopyTool \/ OpenInput
  \/ WriteData \/ RemoveStaleData \/ RenameNewData \/ AppendData \/ WriteConfig
  \/ RemoveData \/ RenameData \/ RemoveTool \/ RenameTool

FileNext ==
  \/ WriteStep \/ Write \/ Quit \/ Launch \/ Reinstall \/ Crash
  \/ \E base \in {None} \cup Executables : Session(base)

FileSpec == FileInit /\ [][FileNext]_fileVars

-----------------------------------------------------------------------------
(* Properties                                                              *)

HasList(file, g) == file # None /\ file.list >= g
HasData(file, g) == file \in Generations /\ file >= g
Holds(g) ==
  \/ HasList(tool, g) \/ HasList(toolNew, g)
  \/ HasData(data, g) \/ HasData(dataNew, g)

\* Whatever fails, as long as it is noticed, and wherever the process dies, one of
\* the files holds the operations of the last write that reported no error, or
\* newer ones: an installation can always be repaired by hand and uninstalled.
CommittedSurvives == committed > 0 /\ unnoticed = {} => Holds(committed)

\* A maintenance tool that starts has read what the last write without an error
\* left, never an older list: it can undo all that was ever done. Two failures
\* only can break this, of those the code does not notice too: that the old .dat
\* file cannot be removed, and that an older .dat.new file replaces it.
Outdating == {"removeData", "staleData"}
StartsFromCommitted ==
  pc # "off" /\ ~isInstaller /\ unnoticed \cap Outdating = {} => memory >= committed

\* "if 3 failed, this makes sure the .dat file will get removed and on the next
\* run all binary data is read from the maintenance tool, otherwise it get
\* replaced be the new one" (packagemanagercore_p.cpp:1543): after a write that
\* reported no error the tool starts, and reads what was written.
NextRunReadsWritten ==
  pc = "off" /\ outcome = "written" => CanStart /\ data = committed

\* The same without the excuse, which the code does not keep.
NeverStartsFromOlder == pc # "off" /\ ~isInstaller => memory >= committed
=============================================================================
