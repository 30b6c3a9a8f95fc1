---------------------- MODULE MaintenanceToolFileProofs ----------------------
(***************************************************************************)
(* The types and the two crash properties of MaintenanceToolFile, for any  *)
(* number of sessions and crashes, whatever may fail. What the properties  *)
(* excuse are failures that did happen and that the code did not notice.   *)
(***************************************************************************)
EXTENDS MaintenanceToolFile, TLAPS

\* One of the two files that are in place has the committed list.
InPlace == committed > 0 => HasList(tool, committed) \/ HasData(data, committed)

Windows == {"renameData", "removeTool", "renameTool"}

\* The parts of FileTypeOK about the files, and about the process.
FilesOK ==
  /\ tool \in {None} \cup Binaries /\ toolNew \in {None} \cup Binaries
  /\ data \in {None, Partial} \cup Generations
  /\ dataNew \in {None, Partial} \cup Generations
  /\ magic \in {"absent", Partial, "written"}

ProcessOK ==
  /\ pc \in {"off", "idle", "input"} \cup FileOperations
  /\ isInstaller \in BOOLEAN /\ newBinaryWritten \in BOOLEAN /\ needToWrite \in BOOLEAN
  /\ stage \in {"replacement", "input", "append"}
  /\ exe \in Executables /\ replacement \in {None} \cup Executables
  /\ memory \in 0..MaxGeneration /\ committed \in 0..MaxGeneration
  /\ outcome \in {"none", "written", "error"}
  /\ made \in 0..MaxGeneration /\ crashes \in 0..MaxCrashes

\* Each step of a write.
Writing ==
  /\ needToWrite
  /\ newBinaryWritten => toolNew # None
  /\ pc \in {"magic", "magicRename", "staleTool", "copy"} => ~newBinaryWritten
  /\ pc = "dataRename" => dataNew = None
  /\ pc \in {"append", "removeTool", "renameTool"} => newBinaryWritten
  /\ pc \in {"config", "removeData", "renameData"} =>
       dataNew = memory \/ Appended
  /\ pc = "renameTool" /\ isInstaller => tool = None

\* What holds however much has failed unnoticed.
Running ==
  /\ needToWrite => memory >= 1
  /\ isInstaller /\ (needToWrite \/ memory = 0) => tool = None

Control ==
  /\ unnoticed \subseteq Unnoticed
  /\ pc # "off" => Running
  /\ pc \notin {"off", "idle"} => Writing

\* No older .dat file is left in place, or put there.
Current ==
  /\ committed <= made
  /\ data # None => data \in Generations /\ committed <= data /\ data <= made
  /\ pc # "off" => committed <= memory /\ memory <= made
  /\ pc = "renameData" => data = None
  /\ pc \in {"removeTool", "renameTool"} => data = None \/ data = memory

\* The committed list is in place until the new one is complete.
Kept ==
  /\ pc = "off" /\ committed > 0 => Holds(committed)
  /\ pc \notin Windows \cup {"off"} => InPlace
  /\ pc \in {"removeTool", "renameTool"} => data = memory \/ (data = None /\ Appended)
  /\ pc = "renameTool" => tool = None

FileInv ==
  /\ FilesOK /\ ProcessOK /\ Control
  /\ unnoticed \cap Outdating = {} => Current
  /\ unnoticed = {} => Kept

-----------------------------------------------------------------------------
(* Lemmas                                                                  *)

\* What the records of the executables are made of.
LEMMA BinaryType ==
  /\ \A b \in Binaries : b.exe \in Executables /\ b.list \in 0..MaxGeneration
  /\ \A e \in Executables, n \in 0..MaxGeneration :
       Binary(e, n) \in Binaries /\ Binary(e, n).list = n
BY DEF Binaries, Binary

\* While nothing in place is touched, only the types and the progress of the
\* write are left to show.
LEMMA NothingReplaced ==
  ASSUME FileInv, pc # "off", pc \notin Windows, pc' \notin Windows,
         FilesOK', ProcessOK', needToWrite' => needToWrite,
         UNCHANGED <<tool, data, isInstaller, memory, committed, made, unnoticed>>,
         pc' \notin {"off", "idle"} => Writing'
  PROVE  FileInv'
<1>1. Control'
  BY DEF FileInv, Control, Running
<1>2. unnoticed' \cap Outdating = {} => Current'
  BY DEF FileInv, Current, Windows
<1>3. ASSUME unnoticed' = {} PROVE Kept'
  <2>1. InPlace
    BY <1>3 DEF FileInv, Kept
  <2>2. InPlace'
    BY <2>1 DEF InPlace, HasList, HasData
  <2>3. committed' > 0 => Holds(committed)'
    BY <2>2 DEF InPlace, Holds, HasList, HasData
  <2>. QED
    BY <2>2, <2>3 DEF Kept, Windows
<1>. QED
  BY <1>1, <1>2, <1>3 DEF FileInv

\* A write that ends with an error before anything is replaced.
LEMMA ErrorKeeps ==
  ASSUME FileInv, pc \notin {"off", "idle"}, pc \notin Windows, FilesOK',
         UNCHANGED <<tool, data, unnoticed>>, Throw
  PROVE  FileInv'
<1>1. /\ pc' = "idle" /\ outcome' = "error" /\ needToWrite' = FALSE
      /\ UNCHANGED <<stage, exe, newBinaryWritten, replacement, isInstaller, memory,
                     committed, made, crashes>>
  BY DEF Throw, writeVars
<1>2. ProcessOK'
  BY <1>1 DEF FileInv, ProcessOK
<1>. QED
  BY <1>1, <1>2, NothingReplaced DEF Windows

\* A step within a write.
LEMMA StepType ==
  ASSUME NEW step \in FileOperations \cup {"input"}, ProcessOK, Goto(step),
         exe' \in Executables, newBinaryWritten' \in BOOLEAN,
         stage' \in {"replacement", "input", "append"}, UNCHANGED replacement
  PROVE  /\ ProcessOK' /\ pc' = step
         /\ UNCHANGED <<isInstaller, memory, needToWrite, committed, made>>
BY DEF ProcessOK, Goto

\* The failure of writeMaintenanceToolBinary().
LEMMA BinaryFailureKeeps ==
  ASSUME FileInv, pc \in {"magic", "magicRename", "staleTool", "copy"}, FilesOK',
         UNCHANGED <<tool, data, unnoticed>>, BinaryFailed
  PROVE  FileInv'
<1>1. CASE stage = "replacement"
  <2>1. Goto("input") /\ UNCHANGED <<stage, exe, newBinaryWritten, replacement>>
    BY <1>1 DEF BinaryFailed, writeVars
  <2>2. /\ ProcessOK' /\ pc' = "input"
        /\ UNCHANGED <<isInstaller, memory, needToWrite, committed, made>>
    BY <2>1, StepType DEF FileInv, ProcessOK
  <2>3. Writing'
    BY <2>1, <2>2 DEF FileInv, Control, Writing
  <2>. QED
    BY <2>2, <2>3, NothingReplaced DEF Windows
<1>2. CASE stage # "replacement"
  BY <1>2, ErrorKeeps DEF BinaryFailed, Windows
<1>. QED
  BY <1>1, <1>2

\* The process cannot find the data of its own executable.
LEMMA NoOwnDataKeeps ==
  ASSUME FileInv, pc \notin {"off", "idle"}, pc \notin Windows, FilesOK',
         UNCHANGED <<tool, data, unnoticed>>, NoOwnData
  PROVE  FileInv'
<1>1. CASE Throw
  BY <1>1, ErrorKeeps
<1>2. CASE ~Throw
  <2>1. /\ pc' = "off" /\ outcome' = "none"
        /\ UNCHANGED <<stage, exe, newBinaryWritten, replacement, isInstaller, memory,
                       needToWrite, committed, made, crashes>>
    BY <1>2 DEF NoOwnData, writeVars
  <2>2. ProcessOK'
    BY <2>1 DEF FileInv, ProcessOK
  <2>. QED
    BY <2>1, <2>2, NothingReplaced DEF Windows
<1>. QED
  BY <1>1, <1>2

-----------------------------------------------------------------------------
(* The steps of a write                                                    *)

\* Removing installer.dat touches neither file in place.
LEMMA RemoveMagicKeeps == FileInv /\ RemoveMagic => FileInv'
<1>. SUFFICES ASSUME FileInv, RemoveMagic PROVE FileInv'
  OBVIOUS
<1>1. FilesOK' /\ pc = "magic" /\ UNCHANGED <<tool, data, unnoticed>>
  BY DEF RemoveMagic, FileInv, FilesOK
<1>2. CASE Goto("magicRename") /\ UNCHANGED <<dataNew, toolNew, writeVars>>
  <2>1. /\ ProcessOK' /\ pc' = "magicRename"
        /\ UNCHANGED <<isInstaller, memory, needToWrite, committed, made>>
    BY <1>2, StepType DEF FileInv, ProcessOK, FileOperations, writeVars
  <2>2. Writing'
    BY <1>1, <1>2, <2>1 DEF FileInv, Control, Writing, writeVars
  <2>. QED
    BY <1>1, <2>1, <2>2, NothingReplaced DEF Windows
<1>3. CASE BinaryFailed
  BY <1>1, <1>3, BinaryFailureKeeps
<1>. QED
  BY <1>2, <1>3 DEF RemoveMagic

\* Nor does putting the new one there.
LEMMA RenameMagicKeeps == FileInv /\ RenameMagic => FileInv'
<1>. SUFFICES ASSUME FileInv, RenameMagic PROVE FileInv'
  OBVIOUS
<1>1. FilesOK' /\ pc = "magicRename" /\ UNCHANGED <<tool, data, unnoticed>>
  BY DEF RenameMagic, FileInv, FilesOK
<1>2. CASE Goto("staleTool") /\ UNCHANGED <<dataNew, toolNew, writeVars>>
  <2>1. /\ ProcessOK' /\ pc' = "staleTool"
        /\ UNCHANGED <<isInstaller, memory, needToWrite, committed, made>>
    BY <1>2, StepType DEF FileInv, ProcessOK, FileOperations, writeVars
  <2>2. Writing'
    BY <1>1, <1>2, <2>1 DEF FileInv, Control, Writing, writeVars
  <2>. QED
    BY <1>1, <2>1, <2>2, NothingReplaced DEF Windows
<1>3. CASE BinaryFailed
  BY <1>1, <1>3, BinaryFailureKeeps
<1>. QED
  BY <1>2, <1>3 DEF RenameMagic

\* A maintenancetool.new left behind is not what the committed list rests on.
LEMMA RemoveStaleToolKeeps == FileInv /\ RemoveStaleTool => FileInv'
<1>. SUFFICES ASSUME FileInv, RemoveStaleTool PROVE FileInv'
  OBVIOUS
<1>1. FilesOK' /\ pc = "staleTool" /\ UNCHANGED <<tool, data, dataNew, unnoticed>>
  BY DEF RemoveStaleTool, FileInv, FilesOK
<1>2. CASE Goto("copy") /\ UNCHANGED writeVars
  <2>1. /\ ProcessOK' /\ pc' = "copy"
        /\ UNCHANGED <<isInstaller, memory, needToWrite, committed, made>>
    BY <1>2, StepType DEF FileInv, ProcessOK, FileOperations, writeVars
  <2>2. Writing'
    BY <1>1, <1>2, <2>1 DEF FileInv, Control, Writing, writeVars
  <2>. QED
    BY <1>1, <2>1, <2>2, NothingReplaced DEF Windows
<1>3. CASE BinaryFailed
  BY <1>1, <1>3, BinaryFailureKeeps
<1>. QED
  BY <1>2, <1>3 DEF RemoveStaleTool

\* Afterwards there is a maintenancetool.new for what follows to work on.
LEMMA CopyToolKeeps == FileInv /\ CopyTool => FileInv'
<1>. SUFFICES ASSUME FileInv, CopyTool PROVE FileInv'
  OBVIOUS
<1>1. FilesOK' /\ pc = "copy" /\ UNCHANGED <<tool, data, dataNew, unnoticed>>
  BY FileAssumption, BinaryType DEF CopyTool, FileInv, FilesOK, ProcessOK
<1>2. CASE /\ toolNew' = Binary(exe, 0) /\ newBinaryWritten' = TRUE
           /\ UNCHANGED <<stage, exe, replacement>>
           /\ \/ stage = "replacement" /\ Goto("input")
              \/ stage = "input" /\ Goto("data")
              \/ stage = "append" /\ Goto("append")
  <2>1. PICK step \in {"input", "data", "append"} :
          Goto(step) /\ (step = "append" => stage = "append")
    BY <1>2
  <2>2. /\ ProcessOK' /\ pc' = step
        /\ UNCHANGED <<isInstaller, memory, needToWrite, committed, made>>
    BY <1>2, <2>1, StepType DEF FileInv, ProcessOK, FileOperations
  <2>3. toolNew' # None
    BY <1>2, FileAssumption, BinaryType DEF FileInv, ProcessOK
  <2>4. Writing'
    BY <1>1, <1>2, <2>1, <2>2, <2>3 DEF FileInv, Control, Writing
  <2>. QED
    BY <1>1, <2>1, <2>2, <2>4, NothingReplaced DEF Windows
<1>3. CASE BinaryFailed
  BY <1>1, <1>3, BinaryFailureKeeps
<1>. QED
  BY <1>2, <1>3 DEF CopyTool, FileInv, ProcessOK

\* Choosing where to read from changes no file.
LEMMA OpenInputKeeps == FileInv /\ OpenInput => FileInv'
<1>. SUFFICES ASSUME FileInv, OpenInput PROVE FileInv'
  OBVIOUS
<1>1. FilesOK' /\ pc = "input" /\ UNCHANGED <<tool, toolNew, data, dataNew, unnoticed>>
  BY DEF OpenInput, FileInv, FilesOK, files
<1>2. CASE Goto("data") /\ UNCHANGED writeVars
  <2>1. /\ ProcessOK' /\ pc' = "data"
        /\ UNCHANGED <<isInstaller, memory, needToWrite, committed, made>>
    BY <1>2, StepType DEF FileInv, ProcessOK, FileOperations, writeVars
  <2>2. Writing'
    BY <1>1, <1>2, <2>1 DEF FileInv, Control, Writing, writeVars
  <2>. QED
    BY <1>1, <2>1, <2>2, NothingReplaced DEF Windows
<1>3. CASE OwnData /\ ~newBinaryWritten /\ WriteBinaryFor("input", "magic")
  <2>1. Own \in Executables
    BY <1>1, <1>3, BinaryType DEF Own, OwnData, FileInv, FilesOK, Executables
  <2>2. /\ ProcessOK' /\ pc' = "magic" /\ stage' = "input"
        /\ UNCHANGED <<newBinaryWritten, isInstaller, memory, needToWrite, committed,
                       made>>
    BY <1>3, <2>1, StepType DEF FileInv, ProcessOK, FileOperations, WriteBinaryFor
  <2>3. Writing'
    BY <1>1, <1>3, <2>2 DEF FileInv, Control, Writing
  <2>. QED
    BY <1>1, <2>2, <2>3, NothingReplaced DEF Windows
<1>4. CASE NoOwnData
  BY <1>1, <1>4, NoOwnDataKeeps DEF Windows
<1>. QED
  BY <1>2, <1>3, <1>4 DEF OpenInput

\* The way to a .dat file that cannot be written.
LEMMA AppendInsteadKeeps ==
  ASSUME FileInv, pc \in {"data", "staleData", "dataRename"},
         UNCHANGED <<files, unnoticed>>, AppendInstead
  PROVE  FileInv'
<1>1. FilesOK' /\ UNCHANGED <<tool, toolNew, data, dataNew, unnoticed>>
  BY DEF FileInv, FilesOK, files
<1>2. CASE newBinaryWritten /\ Goto("append") /\ UNCHANGED writeVars
  <2>1. /\ ProcessOK' /\ pc' = "append"
        /\ UNCHANGED <<isInstaller, memory, needToWrite, committed, made>>
    BY <1>2, StepType DEF FileInv, ProcessOK, FileOperations, writeVars
  <2>2. Writing'
    BY <1>1, <1>2, <2>1 DEF FileInv, Control, Writing, writeVars
  <2>. QED
    BY <1>1, <2>1, <2>2, NothingReplaced DEF Windows
<1>3. CASE ~newBinaryWritten /\ OwnData /\ WriteBinaryFor("append", "staleTool")
  <2>1. Own \in Executables
    BY <1>3, BinaryType DEF Own, OwnData, FileInv, FilesOK, Executables
  <2>2. /\ ProcessOK' /\ pc' = "staleTool"
        /\ UNCHANGED <<newBinaryWritten, isInstaller, memory, needToWrite, committed,
                       made>>
    BY <1>3, <2>1, StepType DEF FileInv, ProcessOK, FileOperations, WriteBinaryFor
  <2>3. Writing'
    BY <1>1, <1>3, <2>2 DEF FileInv, Control, Writing
  <2>. QED
    BY <1>1, <2>2, <2>3, NothingReplaced DEF Windows
<1>4. CASE NoOwnData
  BY <1>1, <1>4, NoOwnDataKeeps DEF Windows
<1>. QED
  BY <1>2, <1>3, <1>4 DEF AppendInstead

\* The temporary file is none of the files.
LEMMA WriteDataKeeps == FileInv /\ WriteData => FileInv'
<1>. SUFFICES ASSUME FileInv, WriteData PROVE FileInv'
  OBVIOUS
<1>1. pc = "data" /\ UNCHANGED <<tool, toolNew, data, dataNew, magic, unnoticed>>
  BY DEF WriteData, files
<1>2. CASE Goto("staleData") /\ UNCHANGED writeVars
  <2>1. FilesOK'
    BY <1>1 DEF FileInv, FilesOK
  <2>2. /\ ProcessOK' /\ pc' = "staleData"
        /\ UNCHANGED <<isInstaller, memory, needToWrite, committed, made>>
    BY <1>2, StepType DEF FileInv, ProcessOK, FileOperations, writeVars
  <2>3. Writing'
    BY <1>1, <1>2, <2>2 DEF FileInv, Control, Writing, writeVars
  <2>. QED
    BY <1>1, <2>1, <2>2, <2>3, NothingReplaced DEF Windows
<1>3. CASE AppendInstead
  BY <1>1, <1>3, AppendInsteadKeeps DEF files
<1>. QED
  BY <1>2, <1>3 DEF WriteData

\* Nor is a .dat.new left behind what the committed list rests on, unless it was
\* not noticed that it could not be renamed.
LEMMA RemoveStaleDataKeeps == FileInv /\ RemoveStaleData => FileInv'
<1>. SUFFICES ASSUME FileInv, RemoveStaleData PROVE FileInv'
  OBVIOUS
<1>1. pc = "staleData" /\ UNCHANGED <<tool, toolNew, data, magic, unnoticed>>
  BY DEF RemoveStaleData
<1>2. CASE dataNew' = None /\ Goto("dataRename") /\ UNCHANGED writeVars
  <2>1. FilesOK'
    BY <1>1, <1>2 DEF FileInv, FilesOK
  <2>2. /\ ProcessOK' /\ pc' = "dataRename"
        /\ UNCHANGED <<isInstaller, memory, needToWrite, committed, made>>
    BY <1>2, StepType DEF FileInv, ProcessOK, FileOperations, writeVars
  <2>3. Writing'
    BY <1>1, <1>2, <2>2 DEF FileInv, Control, Writing, writeVars
  <2>. QED
    BY <1>1, <2>1, <2>2, <2>3, NothingReplaced DEF Windows
<1>3. CASE UNCHANGED dataNew /\ AppendInstead
  BY <1>1, <1>3, AppendInsteadKeeps DEF files
<1>. QED
  BY <1>2, <1>3 DEF RemoveStaleData

\* There is something to write.
LEMMA MemoryIsList == FileInv /\ pc \notin {"off", "idle"} => memory \in Generations
BY FileAssumption DEF FileInv, ProcessOK, Control, Running, Writing, Generations

\* The new list is complete in the .dat.new file, or is to be appended.
LEMMA RenameNewDataKeeps == FileInv /\ RenameNewData => FileInv'
<1>. SUFFICES ASSUME FileInv, RenameNewData PROVE FileInv'
  OBVIOUS
<1>1. pc = "dataRename" /\ UNCHANGED <<tool, toolNew, data, magic, unnoticed>>
  BY DEF RenameNewData
<1>2. CASE dataNew' = memory /\ Goto("config") /\ UNCHANGED writeVars
  <2>1. FilesOK'
    BY <1>1, <1>2, MemoryIsList DEF FileInv, FilesOK
  <2>2. /\ ProcessOK' /\ pc' = "config"
        /\ UNCHANGED <<isInstaller, memory, needToWrite, committed, made>>
    BY <1>2, StepType DEF FileInv, ProcessOK, FileOperations, writeVars
  <2>3. Writing'
    BY <1>1, <1>2, <2>2 DEF FileInv, Control, Writing, writeVars
  <2>. QED
    BY <1>1, <2>1, <2>2, <2>3, NothingReplaced DEF Windows
<1>3. CASE UNCHANGED dataNew /\ AppendInstead
  BY <1>1, <1>3, AppendInsteadKeeps DEF files
<1>. QED
  BY <1>2, <1>3 DEF RenameNewData

\* The new list is complete at the end of maintenancetool.new.
LEMMA AppendDataKeeps == FileInv /\ AppendData => FileInv'
<1>. SUFFICES ASSUME FileInv, AppendData PROVE FileInv'
  OBVIOUS
<1>1. pc = "append" /\ UNCHANGED <<tool, data, dataNew, magic, unnoticed>>
  BY DEF AppendData
<1>2. toolNew \in Binaries /\ newBinaryWritten
  BY <1>1 DEF FileInv, FilesOK, Control, Writing
<1>3. CASE toolNew' = Binary(toolNew.exe, memory) /\ Goto("config") /\ UNCHANGED writeVars
  <2>1. toolNew' \in Binaries /\ toolNew'.list = memory
    BY <1>2, <1>3, BinaryType DEF FileInv, ProcessOK
  <2>2. FilesOK'
    BY <1>1, <2>1 DEF FileInv, FilesOK
  <2>3. /\ ProcessOK' /\ pc' = "config"
        /\ UNCHANGED <<isInstaller, memory, needToWrite, committed, made>>
    BY <1>3, StepType DEF FileInv, ProcessOK, FileOperations, writeVars
  <2>4. Appended'
    BY <1>2, <1>3, <2>1, <2>3, FileAssumption DEF Appended, writeVars
  <2>5. Writing'
    BY <1>1, <1>2, <1>3, <2>3, <2>4 DEF FileInv, Control, Writing, Appended, writeVars
  <2>. QED
    BY <1>1, <2>2, <2>3, <2>5, NothingReplaced DEF Windows
<1>4. CASE UNCHANGED toolNew /\ Throw
  <2>1. FilesOK'
    BY <1>1, <1>4 DEF FileInv, FilesOK
  <2>. QED
    BY <1>1, <1>4, <2>1, ErrorKeeps DEF Windows
<1>. QED
  BY <1>3, <1>4 DEF AppendData

\* The last error that is thrown.
LEMMA WriteConfigKeeps == FileInv /\ WriteConfig => FileInv'
<1>. SUFFICES ASSUME FileInv, WriteConfig PROVE FileInv'
  OBVIOUS
<1>1. pc = "config" /\ FilesOK' /\ UNCHANGED <<tool, toolNew, data, dataNew, unnoticed>>
  BY DEF WriteConfig, FileInv, FilesOK, files
<1>2. CASE Goto("removeData") /\ UNCHANGED writeVars
  <2>1. /\ ProcessOK' /\ pc' = "removeData"
        /\ UNCHANGED <<isInstaller, memory, needToWrite, committed, made>>
    BY <1>2, StepType DEF FileInv, ProcessOK, FileOperations, writeVars
  <2>2. Writing'
    BY <1>1, <1>2, <2>1 DEF FileInv, Control, Writing, Appended, writeVars
  <2>. QED
    BY <1>1, <2>1, <2>2, NothingReplaced DEF Windows
<1>3. CASE Throw
  BY <1>1, <1>3, ErrorKeeps DEF Windows
<1>. QED
  BY <1>2, <1>3 DEF WriteConfig

-----------------------------------------------------------------------------
(* The steps that replace the files in place                               *)

\* The old .dat file goes while the new list is complete elsewhere.
LEMMA RemoveDataKeeps == FileInv /\ RemoveData => FileInv'
<1>. SUFFICES ASSUME FileInv, RemoveData PROVE FileInv'
  OBVIOUS
<1>1. /\ pc = "removeData" /\ Goto("renameData")
      /\ UNCHANGED <<tool, toolNew, dataNew, magic, writeVars>>
      /\ \/ data' = None /\ UNCHANGED unnoticed
         \/ UNCHANGED data /\ unnoticed' = unnoticed \cup {"removeData"}
  BY DEF RemoveData, Notice
<1>2. /\ ProcessOK' /\ pc' = "renameData"
      /\ UNCHANGED <<isInstaller, memory, needToWrite, committed, made>>
  BY <1>1, StepType DEF FileInv, ProcessOK, FileOperations, writeVars
<1>3. FilesOK'
  BY <1>1 DEF FileInv, FilesOK
<1>4. Control'
  BY <1>1, <1>2 DEF FileInv, Control, Running, Writing, Appended, Unnoticed, writeVars
<1>5. unnoticed' \cap Outdating = {} => Current'
  BY <1>1, <1>2 DEF FileInv, Current, Outdating
<1>6. unnoticed' = {} => Kept'
  BY <1>2 DEF Kept, Windows
<1>. QED
  BY <1>2, <1>3, <1>4, <1>5, <1>6 DEF FileInv

\* The end of writeMaintenanceTool().
LEMMA CommittedType ==
  ASSUME ProcessOK, Committed
  PROVE  /\ ProcessOK' /\ pc' = "idle" /\ committed' = memory /\ needToWrite' = FALSE
         /\ UNCHANGED <<isInstaller, memory, made, newBinaryWritten>>
BY DEF ProcessOK, Committed, writeVars

\* The new .dat file is in place, or maintenancetool.new has the list.
LEMMA RenameDataKeeps == FileInv /\ RenameData => FileInv'
<1>. SUFFICES ASSUME FileInv, RenameData PROVE FileInv'
  OBVIOUS
<1>1. pc = "renameData" /\ UNCHANGED <<tool, toolNew, magic>>
  BY DEF RenameData
<1>2. Running /\ Writing /\ ProcessOK /\ FilesOK /\ unnoticed \subseteq Unnoticed
  BY <1>1 DEF FileInv, Control
<1>3. memory \in Generations /\ memory # None
  BY <1>1, MemoryIsList, FileAssumption
<1>4. FilesOK' /\ unnoticed' \subseteq Unnoticed
  BY <1>1, <1>2 DEF RenameData, FilesOK, Notice, Unnoticed
<1>5. unnoticed \subseteq unnoticed'
  BY DEF RenameData, Notice
<1>6. ASSUME unnoticed' \cap Outdating = {} PROVE Current /\ data' \in {None, memory}
  <2>1. Current
    BY <1>5, <1>6 DEF FileInv
  <2>2. data = None
    BY <1>1, <2>1 DEF Current
  <2>3. data' = dataNew => dataNew = memory \/ data' = data
    BY <1>1, <1>2, <1>6 DEF RenameData, Notice, Outdating, Writing
  <2>. QED
    BY <2>1, <2>2, <2>3 DEF RenameData
<1>7. ASSUME unnoticed' = {} PROVE data' = memory \/ (data' = None /\ Appended)
  <2>1. data' \in {None, memory} /\ data = None
    BY <1>1, <1>6, <1>7 DEF Current
  <2>2. CASE dataNew = None
    BY <1>1, <1>2, <1>3, <2>1, <2>2 DEF Writing
  <2>3. CASE dataNew # None
    BY <1>7, <2>1, <2>3 DEF RenameData, Notice
  <2>. QED
    BY <2>2, <2>3
<1>8. CASE newBinaryWritten /\ UNCHANGED writeVars /\ ~Committed
  <2>1. PICK step \in {"renameTool", "removeTool"} :
          Goto(step) /\ (step = "renameTool" <=> isInstaller)
    BY <1>8 DEF RenameData
  <2>2. /\ ProcessOK' /\ pc' = step
        /\ UNCHANGED <<isInstaller, memory, needToWrite, committed, made>>
    BY <1>2, <1>8, <2>1, StepType DEF ProcessOK, FileOperations, writeVars
  <2>3. Control'
    BY <1>1, <1>2, <1>4, <1>8, <2>1, <2>2 DEF Control, Running, Writing, writeVars
  <2>4. ASSUME unnoticed' \cap Outdating = {} PROVE Current'
    BY <1>1, <1>3, <1>6, <2>2, <2>4 DEF Current
  <2>5. ASSUME unnoticed' = {} PROVE Kept'
    <3>1. (data = memory \/ (data = None /\ Appended))'
      BY <1>1, <1>7, <1>8, <2>2, <2>5 DEF Appended, writeVars
    <3>2. pc' = "renameTool" => tool' = None
      BY <1>1, <1>2, <2>1, <2>2 DEF Running, Writing
    <3>. QED
      BY <2>2, <3>1, <3>2 DEF Kept, Windows
  <2>. QED
    BY <1>4, <2>2, <2>3, <2>4, <2>5 DEF FileInv
<1>9. CASE ~newBinaryWritten /\ Committed
  <2>1. /\ ProcessOK' /\ pc' = "idle" /\ committed' = memory /\ needToWrite' = FALSE
        /\ UNCHANGED <<isInstaller, memory, made, newBinaryWritten>>
    BY <1>2, <1>9, CommittedType
  <2>2. Control'
    BY <1>1, <1>2, <1>3, <1>4, <2>1 DEF Control, Running, Generations
  <2>3. ASSUME unnoticed' \cap Outdating = {} PROVE Current'
    BY <1>1, <1>2, <1>3, <1>6, <2>1, <2>3 DEF Current, ProcessOK, Generations
  <2>4. ASSUME unnoticed' = {} PROVE Kept'
    <3>1. data' = memory
      BY <1>7, <1>9, <2>4 DEF Appended
    <3>2. InPlace'
      BY <1>3, <2>1, <3>1 DEF InPlace, HasData, Generations
    <3>. QED
      BY <2>1, <3>2 DEF Kept, Windows
  <2>. QED
    BY <1>4, <2>1, <2>2, <2>3, <2>4 DEF FileInv
<1>. QED
  BY <1>8, <1>9, <1>1 DEF RenameData, Committed, Goto

\* The old maintenance tool goes.
LEMMA RemoveToolKeeps == FileInv /\ RemoveTool => FileInv'
<1>. SUFFICES ASSUME FileInv, RemoveTool PROVE FileInv'
  OBVIOUS
<1>1. /\ pc = "removeTool" /\ Goto("renameTool")
      /\ UNCHANGED <<toolNew, data, dataNew, magic, writeVars>>
      /\ \/ tool' = None /\ UNCHANGED unnoticed
         \/ UNCHANGED tool /\ unnoticed' = unnoticed \cup {"removeTool"}
  BY DEF RemoveTool, Notice
<1>2. /\ ProcessOK' /\ pc' = "renameTool"
      /\ UNCHANGED <<isInstaller, memory, needToWrite, committed, made>>
  BY <1>1, StepType DEF FileInv, ProcessOK, FileOperations, writeVars
<1>3. FilesOK'
  BY <1>1 DEF FileInv, FilesOK
<1>4. Control'
  BY <1>1, <1>2 DEF FileInv, Control, Running, Writing, Unnoticed, writeVars
<1>5. unnoticed' \cap Outdating = {} => Current'
  BY <1>1, <1>2 DEF FileInv, Current, Outdating
<1>6. unnoticed' = {} => Kept'
  BY <1>1, <1>2 DEF FileInv, Kept, Windows, Appended, writeVars
<1>. QED
  BY <1>2, <1>3, <1>4, <1>5, <1>6 DEF FileInv

\* The new one is in place, and the write is committed.
LEMMA RenameToolKeeps == FileInv /\ RenameTool => FileInv'
<1>. SUFFICES ASSUME FileInv, RenameTool PROVE FileInv'
  OBVIOUS
<1>1. /\ pc = "renameTool" /\ Committed /\ UNCHANGED <<data, dataNew, magic>>
      /\ \/ tool = None /\ tool' = toolNew /\ toolNew' = None /\ UNCHANGED unnoticed
         \/ /\ UNCHANGED <<tool, toolNew>>
            /\ IF tool = None THEN unnoticed' = unnoticed \cup {"renameTool"}
               ELSE UNCHANGED unnoticed
  BY DEF RenameTool, Notice
<1>2. Running /\ Writing /\ ProcessOK /\ FilesOK /\ unnoticed \subseteq Unnoticed
  BY <1>1 DEF FileInv, Control
<1>3. memory \in Generations
  BY <1>1, MemoryIsList
<1>4. FilesOK'
  BY <1>1, <1>2 DEF FilesOK
<1>5. /\ ProcessOK' /\ pc' = "idle" /\ committed' = memory /\ needToWrite' = FALSE
      /\ UNCHANGED <<isInstaller, memory, made, newBinaryWritten>>
  BY <1>1, <1>2, CommittedType
<1>6. Control'
  <2>1. unnoticed' \subseteq Unnoticed
    BY <1>1, <1>2 DEF Unnoticed
  <2>2. Running'
    BY <1>3, <1>5 DEF Running, Generations
  <2>. QED
    BY <1>5, <2>1, <2>2 DEF Control
<1>7. ASSUME unnoticed' \cap Outdating = {} PROVE Current'
  <2>1. Current
    BY <1>1, <1>7 DEF FileInv
  <2>. QED
    BY <1>1, <1>2, <1>3, <1>5, <2>1 DEF Current, ProcessOK, Generations
<1>8. ASSUME unnoticed' = {} PROVE Kept'
  <2>1. Kept /\ unnoticed = {}
    BY <1>1, <1>8 DEF FileInv
  <2>2. tool' = toolNew /\ toolNew # None
    BY <1>1, <1>2, <1>8, <2>1 DEF Kept, Writing
  <2>3. data = memory \/ toolNew.list = memory
    BY <1>1, <2>1 DEF Kept, Appended
  <2>4. InPlace'
    BY <1>1, <1>3, <1>5, <2>2, <2>3 DEF InPlace, HasData, HasList, Generations
  <2>. QED
    BY <1>5, <2>4 DEF Kept, Windows
<1>. QED
  BY <1>4, <1>5, <1>6, <1>7, <1>8 DEF FileInv

-----------------------------------------------------------------------------
(* Processes and sessions                                                  *)

\* A session only adds to the list in memory.
LEMMA SessionKeeps ==
  ASSUME NEW base \in {None} \cup Executables, FileInv, Session(base) PROVE FileInv'
<1>1. /\ pc = "idle" /\ made < MaxGeneration /\ made' = made + 1 /\ memory' = made'
      /\ isInstaller => memory = 0
      /\ needToWrite' = TRUE /\ replacement' = base
      /\ UNCHANGED <<tool, toolNew, data, dataNew, magic, stage, exe, newBinaryWritten,
                     pc, isInstaller, committed, outcome, crashes, unnoticed>>
  BY DEF Session, files
<1>2. FilesOK'
  BY <1>1 DEF FileInv, FilesOK
<1>3. ProcessOK'
  BY <1>1, FileAssumption DEF FileInv, ProcessOK
<1>4. Control'
  BY <1>1, FileAssumption DEF FileInv, Control, Running, ProcessOK
<1>5. unnoticed' \cap Outdating = {} => Current'
  BY <1>1, FileAssumption DEF FileInv, Current, ProcessOK, Generations
<1>6. unnoticed' = {} => Kept'
  BY <1>1 DEF FileInv, Kept, Windows, InPlace, HasList, HasData
<1>. QED
  BY <1>2, <1>3, <1>4, <1>5, <1>6 DEF FileInv

\* A write begins with the files as they are.
LEMMA WriteKeeps == FileInv /\ Write => FileInv'
<1>. SUFFICES ASSUME FileInv, Write PROVE FileInv'
  OBVIOUS
<1>1. /\ pc = "idle" /\ needToWrite /\ newBinaryWritten' = FALSE
      /\ UNCHANGED <<tool, toolNew, data, dataNew, magic, isInstaller, memory,
                     needToWrite, committed, made, unnoticed>>
  BY DEF Write, files
<1>2. FilesOK'
  BY <1>1 DEF FileInv, FilesOK
<1>3. CASE replacement = None
  <2>1. ProcessOK' /\ pc' = "input"
    BY <1>1, <1>3 DEF Write, FileInv, ProcessOK
  <2>2. Writing'
    BY <1>1, <2>1 DEF Writing
  <2>. QED
    BY <1>1, <1>2, <2>1, <2>2, NothingReplaced DEF Windows
<1>4. CASE replacement # None
  <2>1. ProcessOK' /\ pc' = "magic"
    BY <1>1, <1>4 DEF Write, FileInv, ProcessOK, FileOperations
  <2>2. Writing'
    BY <1>1, <2>1 DEF Writing
  <2>. QED
    BY <1>1, <1>2, <2>1, <2>2, NothingReplaced DEF Windows
<1>. QED
  BY <1>3, <1>4

\* The process ends with the files as they are.
LEMMA QuitKeeps == FileInv /\ Quit => FileInv'
<1>. SUFFICES ASSUME FileInv, Quit PROVE FileInv'
  OBVIOUS
<1>1. /\ pc = "idle" /\ pc' = "off"
      /\ UNCHANGED <<tool, toolNew, data, dataNew, magic, stage, exe, newBinaryWritten,
                     replacement, isInstaller, memory, needToWrite, committed, outcome,
                     made, crashes, unnoticed>>
  BY DEF Quit, files, writeVars
<1>2. FilesOK' /\ ProcessOK'
  BY <1>1 DEF FileInv, FilesOK, ProcessOK
<1>. QED
  BY <1>1, <1>2, NothingReplaced DEF Windows

\* What is read at the start is in place, hence not older than the committed list.
LEMMA LaunchKeeps == FileInv /\ Launch => FileInv'
<1>. SUFFICES ASSUME FileInv, Launch PROVE FileInv'
  OBVIOUS
<1>1. /\ pc = "off" /\ tool # None /\ data \in Generations
      /\ memory' = data /\ isInstaller' = FALSE /\ pc' = "idle" /\ needToWrite' = FALSE
      /\ outcome' = "none" /\ replacement' = None
      /\ UNCHANGED <<tool, toolNew, data, dataNew, magic, stage, exe, newBinaryWritten,
                     committed, made, crashes, unnoticed>>
  BY DEF Launch, CanStart, files
<1>2. FilesOK'
  BY <1>1 DEF FileInv, FilesOK
<1>3. memory' \in 0..MaxGeneration /\ data # None
  BY <1>1, FileAssumption DEF Generations
<1>4. ProcessOK'
  BY <1>1, <1>3 DEF FileInv, ProcessOK
<1>5. Control'
  BY <1>1 DEF FileInv, Control, Running
<1>6. unnoticed' \cap Outdating = {} => Current'
  BY <1>1, <1>3 DEF FileInv, Current
<1>7. ASSUME unnoticed' = {} PROVE Kept'
  <2>1. Current
    BY <1>1, <1>7 DEF FileInv
  <2>2. InPlace'
    BY <1>1, <1>3, <2>1 DEF InPlace, HasData, Current
  <2>. QED
    BY <1>1, <2>2 DEF Kept, Windows
<1>. QED
  BY <1>2, <1>4, <1>5, <1>6, <1>7 DEF FileInv

\* The installer starts over only where nothing was committed.
LEMMA ReinstallKeeps == FileInv /\ Reinstall => FileInv'
<1>. SUFFICES ASSUME FileInv, Reinstall PROVE FileInv'
  OBVIOUS
<1>1. /\ pc = "off" /\ tool = None /\ committed = 0
      /\ memory' = 0 /\ isInstaller' = TRUE /\ pc' = "idle" /\ needToWrite' = FALSE
      /\ outcome' = "none" /\ replacement' = None
      /\ UNCHANGED <<tool, toolNew, data, dataNew, magic, stage, exe, newBinaryWritten,
                     committed, made, crashes, unnoticed>>
  BY DEF Reinstall, files
<1>2. FilesOK' /\ ProcessOK'
  BY <1>1, FileAssumption DEF FileInv, FilesOK, ProcessOK
<1>3. Control'
  BY <1>1 DEF FileInv, Control, Running
<1>4. unnoticed' \cap Outdating = {} => Current'
  BY <1>1 DEF FileInv, Current, ProcessOK
<1>5. Kept'
  BY <1>1 DEF Kept, InPlace, Windows
<1>. QED
  BY <1>2, <1>3, <1>4, <1>5 DEF FileInv

\* Where the process dies while it replaces files, the new list is complete.
LEMMA CompleteInWindows ==
  ASSUME FileInv, pc \in Windows, unnoticed = {}
  PROVE  /\ memory \in Generations /\ committed <= memory
         /\ data = memory \/ dataNew = memory \/ (toolNew # None /\ toolNew.list = memory)
<1>1. pc # "off" /\ pc # "idle"
  BY DEF Windows
<1>2. memory \in Generations
  BY <1>1, MemoryIsList
<1>3. Current /\ Kept /\ Writing
  BY <1>1 DEF FileInv, Control
<1>. QED
  BY <1>1, <1>2, <1>3 DEF Current, Kept, Writing, Appended, Windows

LEMMA CrashKeeps == FileInv /\ Crash => FileInv'
<1>. SUFFICES ASSUME FileInv, Crash PROVE FileInv'
  OBVIOUS
<1>1. /\ pc # "off" /\ crashes < MaxCrashes
      /\ pc' = "off" /\ crashes' = crashes + 1 /\ outcome' = "none"
      /\ UNCHANGED <<tool, data, stage, exe, newBinaryWritten, replacement,
                     isInstaller, memory, needToWrite, committed, made, unnoticed>>
  BY DEF Crash, writeVars
<1>2. /\ magic' \in {magic, Partial} /\ dataNew' \in {dataNew, Partial}
      /\ toolNew' \in {toolNew, Binary(exe, 0)} /\ Binary(exe, 0) \in Binaries
  BY FileAssumption, BinaryType DEF Crash, FileInv, ProcessOK
<1>3. FilesOK'
  BY <1>1, <1>2 DEF FileInv, FilesOK
<1>4. ProcessOK'
  BY <1>1, FileAssumption DEF FileInv, ProcessOK
<1>5. CASE pc \notin Windows
  BY <1>1, <1>3, <1>4, <1>5, NothingReplaced DEF Windows
<1>6. CASE pc \in Windows
  <2>1. dataNew' = dataNew /\ toolNew' = toolNew
    BY <1>6 DEF Crash, Windows
  <2>2. Control'
    BY <1>1 DEF FileInv, Control
  <2>3. unnoticed' \cap Outdating = {} => Current'
    BY <1>1 DEF FileInv, Current
  <2>4. ASSUME unnoticed' = {} PROVE Kept'
    <3>1. /\ memory \in Generations /\ committed <= memory
          /\ data = memory \/ dataNew = memory \/ (toolNew # None /\ toolNew.list = memory)
      BY <1>1, <1>6, <2>4, CompleteInWindows
    <3>. QED
      BY <1>1, <2>1, <3>1 DEF Kept, Windows, Holds, HasData, HasList, Generations,
         FileInv, ProcessOK
  <2>. QED
    BY <1>3, <1>4, <2>2, <2>3, <2>4 DEF FileInv
<1>. QED
  BY <1>5, <1>6

-----------------------------------------------------------------------------
(* Theorems                                                                *)

\* The invariant holds at first.
LEMMA InvInit == FileInit => FileInv
<1>. SUFFICES ASSUME FileInit PROVE FileInv
  OBVIOUS
<1>1. FilesOK
  BY DEF FileInit, FilesOK
<1>2. 0 \in 0..MaxGeneration /\ 0 \in 0..MaxCrashes
  BY FileAssumption
<1>3. ProcessOK
  BY <1>2 DEF FileInit, ProcessOK, Executables
<1>4. Control
  BY DEF FileInit, Control, Running
<1>5. Current /\ Kept
  BY DEF FileInit, Current, Kept, InPlace, Windows
<1>. QED
  BY <1>1, <1>3, <1>4, <1>5 DEF FileInv

\* Every step keeps the invariant.
LEMMA InvStep == FileInv /\ [FileNext]_fileVars => FileInv'
<1>. SUFFICES ASSUME FileInv, [FileNext]_fileVars PROVE FileInv'
  OBVIOUS
<1>1. CASE WriteStep
  BY <1>1, RemoveMagicKeeps, RenameMagicKeeps, RemoveStaleToolKeeps, CopyToolKeeps,
     OpenInputKeeps, WriteDataKeeps, RemoveStaleDataKeeps, RenameNewDataKeeps, AppendDataKeeps,
     WriteConfigKeeps, RemoveDataKeeps, RenameDataKeeps, RemoveToolKeeps,
     RenameToolKeeps, Zenon DEF WriteStep
<1>2. CASE UNCHANGED fileVars
  BY <1>2 DEF fileVars, files, writeVars, FileInv, FilesOK, ProcessOK, Control, Running,
     Writing, Current, Kept, InPlace, Appended, Holds, HasList, HasData
<1>. QED
  BY <1>1, <1>2, SessionKeeps, WriteKeeps, QuitKeeps, LaunchKeeps, ReinstallKeeps,
     CrashKeeps, Zenon DEF FileNext

\* The invariant holds always.
LEMMA InvAlways == FileSpec => []FileInv
BY InvInit, InvStep, PTL DEF FileSpec

\* The files and the state of writeMaintenanceTool() keep their types, whatever
\* fails: no step works on a file that is not there.
THEOREM FileTypeCorrect == FileSpec => []FileTypeOK
<1>1. FileInv => FileTypeOK
  BY DEF FileInv, FilesOK, ProcessOK, Control, FileTypeOK
<1>. QED
  BY <1>1, InvAlways, PTL

\* Whatever fails and is noticed and wherever the processes die, some file has the
\* operations of the last write without an error: nothing in place is removed
\* before the new list is complete on disk.
THEOREM CommittedListSurvives == FileSpec => []CommittedSurvives
<1>1. ASSUME FileInv PROVE CommittedSurvives
  <2>. SUFFICES ASSUME committed > 0, unnoticed = {} PROVE Holds(committed)
    BY DEF CommittedSurvives
  <2>1. Kept
    BY <1>1 DEF FileInv
  <2>2. CASE pc \notin Windows
    BY <2>1, <2>2 DEF Kept, InPlace, Holds
  <2>3. CASE pc \in Windows
    BY <1>1, <2>3, CompleteInWindows DEF Holds, HasData, HasList, Generations,
       FileInv, ProcessOK
  <2>. QED
    BY <2>2, <2>3
<1>. QED
  BY <1>1, InvAlways, PTL

\* A maintenance tool that starts never starts from an older list than the one
\* that was written last without an error, whatever fails, unless the old .dat
\* file could not be removed or an older .dat.new file was put in its place.
THEOREM StartIsUpToDate == FileSpec => []StartsFromCommitted
<1>1. FileInv => StartsFromCommitted
  BY DEF FileInv, Current, StartsFromCommitted, ProcessOK
<1>. QED
  BY <1>1, InvAlways, PTL

=============================================================================
