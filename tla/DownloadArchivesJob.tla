-------------------------- MODULE DownloadArchivesJob --------------------------
(***************************************************************************)
(* DownloadArchivesJob: for one archive after the other, fetch the .sha1   *)
(* (if the archive is checked), fetch the archive, compare, and register   *)
(* the file.  A failure opens a message box, whose event loop goes on to   *)
(* deliver whatever is posted meanwhile: another box may open on top of    *)
(* it, and a downloader that has failed may come to life again below it.   *)
(*                                                                         *)
(* downloadNeededArchives() waits in an event loop until the job emits     *)
(* finished(); what is still posted then is delivered or is not.           *)
(***************************************************************************)
EXTENDS HttpDownloader, FiniteSets, SequencesExt

CONSTANTS
  List,            \* setArchivesToDownload()
  Unobtainable,    \* those setupDownloader() finds no component or scheme for
  ScMaxRetries,    \* scMaxRetries
  MaxUInt,         \* the largest value of m_retryCount, which is unsigned
  MaxAnswers       \* bound: boxes of the GUI that are answered with Retry

ASSUME JobAssumption ==
  /\ List \in Seq(Archives)
  /\ Unobtainable \subseteq Archives
  /\ ScMaxRetries \in Nat \ {0} /\ MaxAnswers \in Nat
  /\ MaxUInt \in Nat /\ ScMaxRetries <= MaxUInt
  /\ None \notin Files \cup {<<>>}

VARIABLES
  toDownload,   \* m_archivesToDownload
  currentHash,  \* the archive m_currentHash is the sum of; None: of no archive
  registered,   \* the file each archive was registered with
  canceled,     \* m_canceled
  retryCount,   \* m_retryCount
  error,        \* Job::error()
  finished,     \* finished() was emitted
  commandLine,  \* iscommandLineInstance()
  boxes,        \* the message boxes that are open, the last one on top
  answers,      \* counter for MaxAnswers
  over          \* waitForFinished() has returned

jobVars == <<toDownload, currentHash, registered, canceled, retryCount, error,
             finished, commandLine, boxes, answers, over>>
vars == <<downloaderVars, jobVars>>

\* A file without a name, see onError().
NoName == <<>>

JobTypeOK ==
  /\ DownloaderTypeOK
  /\ toDownload \in Seq(Archives)
  /\ currentHash \in Archives \cup {None}
  /\ registered \in [Archives -> Files \cup {NoName, None}]
  /\ commandLine \in BOOLEAN /\ canceled \in BOOLEAN /\ finished \in BOOLEAN /\ over \in BOOLEAN
  /\ retryCount \in 0..MaxUInt
  /\ error \in {"NoError", "Canceled", "DownloadError"}
  /\ boxes \in Seq({"archiveDownloadError", "DownloadError"})
  /\ answers \in 0..MaxAnswers

\* start(): doStart() is the first event.
JobInit ==
  /\ DownloaderInit(<<SelfEvent("fetchNextArchiveHash")>>)
  /\ toDownload = List
  /\ currentHash = None
  /\ registered = [a \in Archives |-> None]
  /\ canceled = FALSE /\ finished = FALSE /\ over = FALSE
  /\ retryCount = ScMaxRetries
  /\ error = "NoError"
  /\ commandLine \in BOOLEAN /\ boxes = <<>> /\ answers = 0

-----------------------------------------------------------------------------
(* Emitting finished()                                                     *)

EmitFinished == finished' = TRUE /\ UNCHANGED error
EmitFinishedWithError(e) == finished' = TRUE /\ error' = e
NotFinished == UNCHANGED <<finished, error>>

-----------------------------------------------------------------------------
(* The next archive. rest: the events that are left, list: what is left to *)
(* download.                                                               *)

\* deleteLater(): what the old downloader has posted to itself comes first.
Replaced(rest) ==
  [i \in DOMAIN rest |->
     IF rest[i].type = "doDownload" THEN [rest[i] EXCEPT !.type = "doDownloadReplaced"]
     ELSE rest[i]]

\* setupDownloader() and download(). An archive without a downloader is dropped.
SetupDownloader(rest, list, kind) ==
  LET a == Head(list) IN
  /\ NotFinished
  /\ IF a \in Unobtainable
     THEN /\ dl' = None /\ toDownload' = Tail(list)
          /\ events' = Append(Replaced(rest), SelfEvent("fetchNextArchiveHash"))
     ELSE /\ dl' = New(<<a, kind>>) /\ toDownload' = list
          /\ events' = Append(Replaced(rest), Event("doDownload", <<a, kind>>))

FetchNextArchive(rest, list) ==
  CASE canceled -> /\ EmitFinishedWithError("DownloadError")
                   /\ toDownload' = list /\ events' = rest /\ UNCHANGED dl
    [] ~canceled /\ list = <<>> -> /\ EmitFinished
                                   /\ toDownload' = list /\ events' = rest /\ UNCHANGED dl
    [] OTHER -> SetupDownloader(rest, list, "archive")

FetchNextArchiveHash(rest, list) ==
  CASE list = <<>> -> /\ EmitFinished
                      /\ toDownload' = list /\ events' = rest /\ UNCHANGED dl
    [] list # <<>> /\ Head(list) \notin Checked ->
         /\ events' = Append(rest, SelfEvent("fetchNextArchive"))
         /\ toDownload' = list /\ NotFinished /\ UNCHANGED dl
    [] list # <<>> /\ Head(list) \in Checked /\ canceled ->
         /\ EmitFinishedWithError("DownloadError")
         /\ toDownload' = list /\ events' = rest /\ UNCHANGED dl
    [] OTHER -> SetupDownloader(rest, list, "hash")

-----------------------------------------------------------------------------
(* The events                                                              *)

\* On the command line the answer is read, or made up, without an event loop.
Answering == commandLine /\ boxes # <<>>

Deliver(type) ==
  /\ ~over /\ events # <<>> /\ ~Answering
  /\ Head(events).type = type

FetchHashEvent ==
  /\ Deliver("fetchNextArchiveHash")
  /\ FetchNextArchiveHash(Tail(events), toDownload)
  /\ UNCHANGED <<disk, online, offlines, currentHash, registered, canceled,
                 retryCount, boxes, answers, over, commandLine>>

FetchArchiveEvent ==
  /\ Deliver("fetchNextArchive")
  /\ FetchNextArchive(Tail(events), toDownload)
  /\ UNCHANGED <<disk, online, offlines, currentHash, registered, canceled,
                 retryCount, boxes, answers, over, commandLine>>

DoDownloadEvent ==
  /\ \/ Deliver("doDownload") /\ DoDownload
     \/ Deliver("doDownloadReplaced") /\ DoDownloadReplaced
  /\ UNCHANGED jobVars

\* Mutation: the name of the file is kept in place of what it contains.
FinishedHashUnread ==
  /\ Deliver("downloadCompleted") /\ Head(events).file[2] = "hash"
  /\ dl # None
  /\ currentHash' = dl.file
  /\ FetchNextArchive(Tail(events), toDownload)
  /\ UNCHANGED <<disk, online, offlines, registered, canceled, retryCount, boxes,
                 answers, over, commandLine>>

\* finishedHashDownload(): reads the file of the downloader there is now. (Here
\* and in registerFile() an assertion stops the program when there is none.)
FinishedHashDownload ==
  /\ Deliver("downloadCompleted") /\ Head(events).file[2] = "hash"
  /\ dl # None
  /\ IF dl.named /\ disk[dl.file] # "absent"
     THEN /\ currentHash' = IF dl.file[2] = "hash" /\ disk[dl.file] = "whole"
                            THEN dl.file[1] ELSE None
          /\ FetchNextArchive(Tail(events), toDownload)
     ELSE /\ EmitFinishedWithError("DownloadError")
          /\ events' = Tail(events)
          /\ UNCHANGED <<dl, toDownload, currentHash>>
  /\ UNCHANGED <<disk, online, offlines, registered, canceled, retryCount, boxes,
                 answers, over, commandLine>>

\* Mutation: the sum is compared only if a .sha1 could be read.
SumMatchesOrNone == currentHash = None \/ (dl.sum = "whole" /\ dl.file[1] = currentHash)

SumMatches == dl.sum = "whole" /\ dl.file = <<currentHash, "archive">>

\* registerFile(): of the downloader there is now, for the first archive left.
RegisterFile ==
  /\ Deliver("downloadCompleted") /\ Head(events).file[2] = "archive"
  /\ dl # None
  /\ CASE canceled \/ toDownload = <<>> ->
            /\ events' = Tail(events) /\ NotFinished
            /\ UNCHANGED <<dl, toDownload, registered, retryCount, boxes>>
       [] ~canceled /\ toDownload # <<>> /\ Head(toDownload) \in Checked /\ ~SumMatches ->
            /\ boxes' = Append(boxes, "DownloadError")
            /\ events' = Tail(events) /\ NotFinished
            /\ UNCHANGED <<dl, toDownload, registered, retryCount>>
       [] OTHER ->
            /\ retryCount' = ScMaxRetries
            /\ registered' = [registered EXCEPT ![Head(toDownload)] =
                                IF dl.named THEN dl.file ELSE NoName]
            /\ FetchNextArchiveHash(Tail(events), Tail(toDownload))
            /\ UNCHANGED boxes
  /\ UNCHANGED <<disk, online, offlines, currentHash, canceled, answers, over, commandLine>>

\* downloadFailed()
DownloadFailed ==
  /\ Deliver("downloadAborted")
  /\ boxes' = IF canceled THEN boxes ELSE Append(boxes, "archiveDownloadError")
  /\ events' = Tail(events)
  /\ UNCHANGED <<dl, disk, online, offlines, toDownload, currentHash, registered,
                 canceled, retryCount, error, finished, answers, over, commandLine>>

-----------------------------------------------------------------------------
(* The message box on top is answered                                      *)

Top == boxes[Len(boxes)]

\* Mutation: Cancel ends the job like the end of the list does.
AnswerCancelPlain ==
  /\ boxes # <<>> /\ boxes' = Front(boxes)
  /\ EmitFinished
  /\ UNCHANGED <<downloaderVars, toDownload, currentHash, registered, canceled,
                 retryCount, answers, over, commandLine>>

AnswerCancel ==
  /\ boxes # <<>> /\ boxes' = Front(boxes)
  /\ EmitFinishedWithError(IF Top = "DownloadError" THEN "DownloadError" ELSE "Canceled")
  /\ UNCHANGED <<downloaderVars, toDownload, currentHash, registered, canceled,
                 retryCount, answers, over, commandLine>>

Decremented(n) == IF n = 0 THEN MaxUInt ELSE n - 1

\* Retry, for the last of the allowed times or not.
Retry(isLast) ==
  CASE isLast ->
         EmitFinishedWithError("DownloadError") /\ UNCHANGED <<dl, events, toDownload>>
    [] ~isLast /\ Top = "DownloadError" -> FetchNextArchiveHash(events, toDownload)
    [] OTHER ->
         /\ events' = Append(events, SelfEvent("fetchNextArchiveHash"))
         /\ NotFinished /\ UNCHANGED <<dl, toDownload>>

\* Mutation: the retries of a failed download are not counted.
RetryUncounted ==
  /\ boxes # <<>> /\ boxes' = Front(boxes)
  /\ IF commandLine
     THEN /\ retryCount' = IF Top = "DownloadError" THEN Decremented(retryCount) ELSE retryCount
          /\ UNCHANGED answers
     ELSE answers < MaxAnswers /\ answers' = answers + 1 /\ UNCHANGED retryCount
  /\ Retry(commandLine /\ retryCount' = 0)
  /\ UNCHANGED <<disk, online, offlines, currentHash, registered, canceled, over, commandLine>>

\* On the command line an archive is retried scMaxRetries times at most.
AnswerRetry ==
  /\ boxes # <<>> /\ boxes' = Front(boxes)
  /\ IF commandLine
     THEN retryCount' = Decremented(retryCount) /\ UNCHANGED answers
     ELSE answers < MaxAnswers /\ answers' = answers + 1 /\ UNCHANGED retryCount
  /\ Retry(commandLine /\ retryCount' = 0)
  /\ UNCHANGED <<disk, online, offlines, currentHash, registered, canceled, over, commandLine>>

-----------------------------------------------------------------------------
(* cancel(), and the end of waitForFinished()                              *)

\* Job::cancel() by installationInterrupted(). A modal box bars the button.
Cancel ==
  /\ ~over /\ ~canceled /\ boxes = <<>>
  /\ canceled' = TRUE
  /\ IF dl # None
     THEN /\ dl' = Cancelled(dl)
          /\ events' = IF dl.http THEN Append(events, CompletedEvent) ELSE events
     ELSE UNCHANGED <<dl, events>>
  /\ error' = IF (dl # None /\ dl.http) \/ error = "NoError" THEN "Canceled" ELSE error
  /\ finished' = TRUE
  /\ UNCHANGED <<disk, online, offlines, toDownload, currentHash, registered,
                 retryCount, boxes, answers, over, commandLine>>

Return ==
  /\ finished /\ boxes = <<>> /\ ~over
  /\ over' = TRUE
  /\ UNCHANGED <<downloaderVars, toDownload, currentHash, registered, canceled,
                 retryCount, error, finished, boxes, answers, commandLine>>

-----------------------------------------------------------------------------
\* An event loop runs: that of the top box, or else that of waitForFinished().
LoopRuns == ~over /\ ~Answering /\ (boxes # <<>> \/ ~finished)

Network ==
  /\ LoopRuns
  /\ \/ \E content \in {"whole", "bad"} : ReplyFinished(content)
     \/ ReplyFailed
     \/ \E last \in BOOLEAN : WriteFailed(last)
     \/ DeadlineTimer \/ GoOffline \/ GoOnline
  /\ UNCHANGED jobVars

Events ==
  \/ FetchHashEvent \/ FetchArchiveEvent \/ DoDownloadEvent
  \/ FinishedHashDownload \/ RegisterFile \/ DownloadFailed

JobNext == Network \/ Events \/ AnswerCancel \/ AnswerRetry \/ Cancel \/ Return

\* The event loops deliver what is posted, the network comes back and gets a file
\* through in the end, and the user answers what is asked.
JobFairness ==
  /\ WF_vars(Events) /\ WF_vars(Return)
  /\ WF_vars(AnswerCancel \/ AnswerRetry)
  /\ WF_vars(LoopRuns /\ GoOnline /\ UNCHANGED jobVars)
  /\ WF_vars(LoopRuns /\ DeadlineTimer /\ UNCHANGED jobVars)
  /\ SF_vars(LoopRuns /\ ReplyFinished("whole") /\ UNCHANGED jobVars)
  /\ WF_vars(LoopRuns /\ (\E last \in BOOLEAN : WriteFailed(last)) /\ UNCHANGED jobVars)

JobSpec == JobInit /\ [][JobNext]_vars /\ JobFairness

-----------------------------------------------------------------------------
\* An archive that has a checksum is registered with its own file, and the file
\* is whole: whatever fails, comes late or comes twice, registerFile() compares
\* the sum of the downloader whose file it registers.
CheckedIsWhole ==
  \A a \in Checked : registered[a] # None =>
    registered[a] = <<a, "archive">> /\ disk[<<a, "archive">>] = "whole"

\* What registerFile() is there for, "Registers the just downloaded file in the
\* installer's file system", holds of archives without a checksum too: the file
\* that is registered was downloaded to its end, for this archive.
RegisteredIsDownloaded ==
  \A a \in Archives : registered[a] # None =>
    registered[a] = <<a, "archive">> /\ disk[<<a, "archive">>] = "whole"

\* What Q_ASSERT(m_downloader != nullptr) of finishedHashDownload() and
\* registerFile() says: none is called when the downloader is gone. Not so when an
\* archive that was registered too early completes before the next, which has no
\* downloader, is come to.
CompletedHasDownloader ==
  ~over /\ events # <<>> /\ Head(events).type = "downloadCompleted" => dl # None

\* A job that ends without an error has registered every archive of its list,
\* but for those it found no downloader for, through whatever retries; and
\* a canceled one does not end without an error.
SuccessMeansAll ==
  over /\ error = "NoError" =>
    /\ ~canceled
    /\ \A a \in ToSet(List) \ Unobtainable : registered[a] # None

\* The job ends.
JobEnds == <>over
=============================================================================
