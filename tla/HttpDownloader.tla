---------------------------- MODULE HttpDownloader ----------------------------
(***************************************************************************)
(* KDUpdater::HttpDownloader: one file, fetched with one QNetworkReply     *)
(* after another.  The reply, the deadline timer (30 s without progress)   *)
(* and the reachability of the network act on it between two events of the *)
(* thread it lives in; its owner learns of the end through the signals     *)
(* downloadCompleted() and downloadAborted(), which are queued, and        *)
(* downloadCanceled(), which is not.                                       *)
(*                                                                         *)
(* A downloader is a record.  A file on disk is absent, whole, or bad: cut *)
(* short, still being written, or not what the repository means it to be.  *)
(***************************************************************************)
EXTENDS Naturals, Sequences

CONSTANTS
  Archives,     \* the archives that may be downloaded
  Checked,      \* those with a .sha1 file to compare with (checkSha1CheckSum)
  None,
  Faults,       \* what may go wrong, of FaultKinds
  MaxOffline    \* bound: how often the network goes away

FaultKinds == {"http", "bad", "write", "open", "deadline"}

ASSUME DownloaderAssumption ==
  /\ Checked \subseteq Archives
  /\ None \notin Archives
  /\ Faults \subseteq FaultKinds
  /\ MaxOffline \in Nat

VARIABLES
  dl,        \* the downloader, None if there is none
  disk,      \* what is in the file of each archive and of its .sha1
  events,    \* the events posted to this thread, in order
  online,    \* QNetworkInformation::reachability() is Online
  offlines   \* counter for MaxOffline

downloaderVars == <<dl, disk, events, online, offlines>>

Kinds == {"hash", "archive"}
Files == Archives \X Kinds

Downloader ==
  [file : Files,
   named : BOOLEAN,        \* destFileName is not empty
   http : BOOLEAN,         \* there is a reply
   dest : {"none", "open", "unopened"},
   sum : {"bad", "whole"}, \* what sha1Sum() is the sum of
   downloaded : BOOLEAN, aborted : BOOLEAN,
   resumed : BOOLEAN, paused : BOOLEAN,
   deadline : BOOLEAN]     \* the deadline timer is running

ASSUME NoneAssumption == None \notin Downloader

EventTypes == {"fetchNextArchiveHash", "fetchNextArchive", "doDownload",
               "doDownloadReplaced", "downloadCompleted", "downloadAborted"}

\* An event with the file of the downloader that posted it.
Event(type, file) == [type |-> type, file |-> file]
SelfEvent(type) == Event(type, None)

DownloaderTypeOK ==
  /\ dl \in Downloader \cup {None}
  /\ disk \in [Files -> {"absent", "bad", "whole"}]
  /\ events \in Seq([type : EventTypes, file : Files \cup {None}])
  /\ online \in BOOLEAN
  /\ offlines \in 0..MaxOffline

DownloaderInit(posted) ==
  /\ dl = None
  /\ disk = [f \in Files |-> "absent"]
  /\ events = posted
  /\ online = TRUE /\ offlines = 0

New(f) ==
  [file |-> f, named |-> TRUE, http |-> FALSE, dest |-> "none",
   sum |-> "bad", downloaded |-> FALSE, aborted |-> FALSE, resumed |-> FALSE,
   paused |-> FALSE, deadline |-> FALSE]

-----------------------------------------------------------------------------
(* What the handlers do to a downloader                                    *)

\* shutDown(closeDestination); the timers go on.
ShutDown(d) == [d EXCEPT !.http = FALSE, !.dest = "none", !.sum = "bad"]
ShutDownKeepFile(d) == [d EXCEPT !.http = FALSE]

\* onError()
Failed(d) ==
  [d EXCEPT !.http = FALSE, !.downloaded = FALSE, !.named = FALSE,
            !.dest = "none", !.deadline = FALSE]

\* onSuccess(), from setDownloadCompleted(): no sum is assumed for archives.
Completed(d) ==
  [d EXCEPT !.http = FALSE, !.downloaded = TRUE, !.dest = "none",
            !.deadline = FALSE, !.resumed = FALSE]

\* resumeDownload()
Resumed(d) == [d EXCEPT !.http = TRUE, !.resumed = TRUE, !.deadline = TRUE]

-----------------------------------------------------------------------------
(* The reply, the timer and the network.  signals is what is posted.       *)

Post(signals) == events' = events \o signals
CompletedEvent == Event("downloadCompleted", dl.file)
AbortedEvent == Event("downloadAborted", dl.file)

\* The whole reply is read and finished() is emitted.  "bad": the repository is
\* just being changed, which nobody can notice without a checksum.
ReplyFinished(content) ==
  /\ dl # None /\ dl.http /\ online
  /\ dl.dest # "unopened"
  /\ content = "bad" => "bad" \in Faults /\ dl.file[1] \in Checked
  /\ dl' = [Completed(dl) EXCEPT !.sum = IF dl.dest = "open" THEN content ELSE dl.sum]
  /\ disk' = IF dl.dest = "open" THEN [disk EXCEPT ![dl.file] = content] ELSE disk
  /\ Post(<<CompletedEvent>>)
  /\ UNCHANGED <<online, offlines>>

\* errorOccurred(): a download that was resumed waits for the deadline timer.
ReplyFailed ==
  /\ dl # None /\ dl.http /\ "http" \in Faults /\ ~dl.aborted
  /\ IF dl.resumed
     THEN /\ dl' = ShutDownKeepFile(dl)
          /\ UNCHANGED events
     ELSE /\ dl' = Failed(dl)
          /\ Post(<<AbortedEvent>>)
  /\ UNCHANGED <<disk, online, offlines>>

\* httpReadyRead() cannot write what has come. When finished() is what called it,
\* httpReqFinished() goes on to setDownloadCompleted() all the same.
WriteFailed(last) ==
  /\ dl # None /\ dl.http
  /\ dl.dest = "unopened" \/ (dl.dest = "open" /\ "write" \in Faults)
  /\ dl' = IF last THEN Completed(ShutDown(dl)) ELSE ShutDown(dl)
  /\ Post(<<AbortedEvent>> \o (IF last THEN <<CompletedEvent>> ELSE <<>>))
  /\ UNCHANGED <<disk, online, offlines>>

\* What is posted is delivered before timers and what comes from the system.
NothingPosted == events = <<>>

\* timerEvent(): nothing has come for 30 seconds.
DeadlineTimer ==
  /\ NothingPosted
  /\ dl # None /\ dl.deadline /\ "deadline" \in Faults
  /\ dl' = Resumed(ShutDownKeepFile(dl))
  /\ UNCHANGED <<disk, events, online, offlines>>

\* onReachabilityChanged()
GoOffline ==
  /\ NothingPosted
  /\ online /\ online' = FALSE
  /\ offlines < MaxOffline /\ offlines' = offlines + 1
  /\ dl' = IF dl = None THEN None
           ELSE [ShutDownKeepFile(dl) EXCEPT !.paused = TRUE, !.resumed = FALSE,
                                             !.deadline = FALSE]
  /\ UNCHANGED <<disk, events>>

GoOnline ==
  /\ NothingPosted
  /\ ~online /\ online' = TRUE
  /\ dl' = IF dl # None /\ dl.paused
           THEN Resumed([dl EXCEPT !.paused = FALSE]) ELSE dl
  /\ UNCHANGED <<disk, events, offlines>>

-----------------------------------------------------------------------------
(* doDownload() and cancelDownload()                                       *)

\* doDownload() of dl, as the event at the head of the queue. The file cannot be
\* opened if its directory cannot be made, then the request goes on; or if it
\* cannot be created, then the timer goes on.
DoDownload ==
  /\ dl # None
  /\ IF dl.downloaded \/ dl.http
     THEN UNCHANGED <<dl, disk>> /\ events' = Tail(events)
     ELSE \/ /\ dl' = [dl EXCEPT !.http = TRUE, !.dest = "open", !.deadline = TRUE]
             /\ disk' = [disk EXCEPT ![dl.file] = "bad"]
             /\ events' = Tail(events)
          \/ /\ "open" \in Faults
             /\ dl' = [dl EXCEPT !.http = TRUE, !.dest = "unopened", !.deadline = TRUE]
             /\ events' = Append(Tail(events), AbortedEvent)
             /\ UNCHANGED disk
          \/ /\ "open" \in Faults
             /\ dl' = [ShutDown(dl) EXCEPT !.deadline = TRUE]
             /\ events' = Append(Tail(events), AbortedEvent)
             /\ UNCHANGED disk
  /\ UNCHANGED <<online, offlines>>

\* The same of a downloader that was replaced before it began and is deleted next.
DoDownloadReplaced ==
  LET f == Head(events).file IN
  /\ \/ /\ disk' = [disk EXCEPT ![f] = "bad"]
        /\ events' = Tail(events)
     \/ /\ "open" \in Faults
        /\ events' = Append(Tail(events), Event("downloadAborted", f))
        /\ UNCHANGED disk
  /\ UNCHANGED <<dl, online, offlines>>

\* cancelDownload(): abort() makes the reply emit finished() at once, so that the
\* part that has come is completed before the download counts as canceled.
Cancelled(d) ==
  IF d.http THEN Completed([d EXCEPT !.sum = "bad"]) ELSE [d EXCEPT !.aborted = TRUE]
=============================================================================
