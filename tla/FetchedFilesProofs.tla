------------------------- MODULE FetchedFilesProofs -------------------------
(***************************************************************************)
(* Proofs about the files that are fetched: the archives that              *)
(* DownloadArchivesJob downloads, for any list, any faults and any number  *)
(* of retries, and the metadata that the processes keep in a common cache  *)
(* (LockFile and MetadataCache), for any number of processes, items, lock  *)
(* files and crashes.                                                      *)
(*                                                                         *)
(* Archives: a checked archive is registered whole, if the list has no     *)
(* duplicates; the state keeps its types; and a job that ends without an   *)
(* error has registered all that it could.  The argument for the first: a  *)
(* file on disk changes only while its downloader has it open, and that is *)
(* the downloader there is now or one that was replaced before it began,   *)
(* whose event comes before those of its successor.  So when the sum of    *)
(* the downloader there is now is right, nothing is posted that could      *)
(* still change the file.                                                  *)
(*                                                                         *)
(* Cache: while no file was removed under another process, what a process  *)
(* has open to lock is the file at the path; the kernel lets one process   *)
(* lock that file, so there is one owner, and only an owner changes the    *)
(* directory.                                                              *)
(***************************************************************************)
EXTENDS DownloadArchivesJob, MetadataCache, SequenceLemmas

-----------------------------------------------------------------------------
(* The archives                                                            *)

\* The archives of a list have different names.
DistinctArchives(list) == \A i, j \in DOMAIN list : list[i] = list[j] => i = j

PostedEvents == [type : EventTypes, file : Files \cup {None}]

Types ==
  /\ DownloaderTypeOK
  /\ toDownload \in Seq(Archives)
  /\ currentHash \in Archives \cup {None}
  /\ registered \in [Archives -> Files \cup {NoName, None}]

\* What the downloader d says of its file.
SumIsOfFile(d, files) ==
  d # None =>
    /\ d.dest = "open" \/ d.sum = "whole" => d.named
    /\ d.sum = "whole" => d.dest # "open" /\ files[d.file] = "whole"
    /\ d.http /\ ~d.resumed => d.sum = "bad"

Opens(e) == e.type \in {"doDownload", "doDownloadReplaced"}
Quiet(q) == \A i \in DOMAIN q : ~Opens(q[i])

\* A downloader that has not begun.
Fresh(d) == d # None /\ ~d.http /\ d.dest = "none" /\ d.sum = "bad" /\ d.named

\* One downloader at most is still to begin, the one there is, and those that it
\* replaced come before it.
InOrder(q, d) ==
  /\ \A i, j \in DOMAIN q : q[i].type = "doDownload" /\ q[j].type = "doDownload" => i = j
  /\ \A i \in DOMAIN q : q[i].type = "doDownload" => Fresh(d) /\ q[i].file = d.file
  /\ d # None => \A i \in DOMAIN q : q[i].type = "doDownloadReplaced" =>
                   \E j \in DOMAIN q : i < j /\ q[j].type = "doDownload"

\* What is still to be written is not registered: by what is posted, and by d.
Unwritten(q, reg) ==
  \A i \in DOMAIN q :
    Opens(q[i]) /\ q[i].file[1] \in Checked => reg[q[i].file[1]] = None
OpenUnregistered(d, reg) ==
  d # None /\ d.dest = "open" /\ d.file[1] \in Checked => reg[d.file[1]] = None

\* The list goes on with what is not registered, and the downloader is for its head.
Remaining(list, reg) ==
  /\ DistinctArchives(list)
  /\ \A i \in DOMAIN list : list[i] \in Checked => reg[list[i]] = None
ForHead(d, list) ==
  d # None /\ ~canceled /\ list # <<>> /\ Head(list) \in Checked => d.file[1] = Head(list)

\* The inductive invariant; disk changes under a registered archive without it.
DownloadInv ==
  /\ Types
  /\ SumIsOfFile(dl, disk)
  /\ InOrder(events, dl)
  /\ Unwritten(events, registered) /\ OpenUnregistered(dl, registered)
  /\ Remaining(toDownload, registered) /\ ForHead(dl, toDownload)
  /\ CheckedIsWhole

-----------------------------------------------------------------------------
(* The queue                                                               *)

\* A queue that opens nothing is in order, whatever the downloader is.
LEMMA QuietInOrder ==
  ASSUME NEW q, Quiet(q)
  PROVE  (\A d : InOrder(q, d)) /\ (\A reg : Unwritten(q, reg))
  BY DEF Quiet, Opens, InOrder, Unwritten

\* Once the downloader has begun, nothing is posted that opens a file.
LEMMA BegunIsQuiet ==
  ASSUME NEW q, NEW d, InOrder(q, d), d # None, ~Fresh(d)
  PROVE  Quiet(q)
  BY DEF Quiet, Opens, InOrder

\* The events left when the first one is delivered, in terms of all of them.
LEMMA TailIndices ==
  ASSUME NEW S, NEW q \in Seq(S), q # <<>>
  PROVE  /\ Head(q) = q[1] /\ 1 \in DOMAIN q
         /\ DOMAIN q \subseteq Nat \ {0} /\ DOMAIN Tail(q) \subseteq Nat \ {0}
         /\ \A i \in DOMAIN Tail(q) : i + 1 \in DOMAIN q /\ Tail(q)[i] = q[i + 1]
         /\ \A i \in DOMAIN q : i # 1 => i - 1 \in DOMAIN Tail(q)
<1>1. /\ Head(q) = q[1] /\ Tail(q) \in Seq(S) /\ Len(Tail(q)) = Len(q) - 1
      /\ \A i \in 1 .. Len(q) - 1 : Tail(q)[i] = q[i + 1]
  BY HeadTailProperties
<1>2. /\ Len(q) \in Nat /\ Len(q) # 0 /\ DOMAIN q = 1 .. Len(q)
      /\ DOMAIN Tail(q) = 1 .. Len(q) - 1
  BY <1>1, LenProperties, EmptySeq
<1> QED
  BY <1>1, <1>2

\* Delivering an event keeps the order; the one that begins a download is the last
\* of those that open a file.
LEMMA TailInOrder ==
  ASSUME NEW S, NEW q \in Seq(S), q # <<>>, NEW d, InOrder(q, d)
  PROVE  /\ Head(q).type # "doDownload" => InOrder(Tail(q), d)
         /\ Head(q).type = "doDownload" => Quiet(Tail(q))
<1>1. ASSUME Head(q).type # "doDownload"
      PROVE  InOrder(Tail(q), d)
  <2>1. \A i, j \in DOMAIN Tail(q) :
          Tail(q)[i].type = "doDownload" /\ Tail(q)[j].type = "doDownload" => i = j
    BY TailIndices DEF InOrder
  <2>2. \A i \in DOMAIN Tail(q) :
          Tail(q)[i].type = "doDownload" => Fresh(d) /\ Tail(q)[i].file = d.file
    BY TailIndices DEF InOrder
  <2>3. ASSUME d # None, NEW i \in DOMAIN Tail(q), Tail(q)[i].type = "doDownloadReplaced"
        PROVE  \E j \in DOMAIN Tail(q) : i < j /\ Tail(q)[j].type = "doDownload"
    <3>1. i + 1 \in DOMAIN q /\ q[i + 1].type = "doDownloadReplaced" /\ i \in Nat
      BY <2>3, TailIndices
    <3>2. PICK j \in DOMAIN q : i + 1 < j /\ q[j].type = "doDownload"
      BY <2>3, <3>1 DEF InOrder
    <3>3. j \in Nat /\ j - 1 \in DOMAIN Tail(q) /\ Tail(q)[j - 1] = q[j] /\ i < j - 1
      BY <3>1, <3>2, TailIndices
    <3> QED
      BY <3>2, <3>3
  <2> QED
    BY <2>1, <2>2, <2>3 DEF InOrder
<1>2. ASSUME Head(q).type = "doDownload", NEW i \in DOMAIN Tail(q)
      PROVE  ~Opens(Tail(q)[i])
  <2>1. /\ q[1].type = "doDownload" /\ 1 \in DOMAIN q /\ d # None
        /\ i + 1 \in DOMAIN q /\ Tail(q)[i] = q[i + 1] /\ i \in Nat \ {0}
    BY <1>2, TailIndices DEF InOrder, Fresh
  <2>2. q[i + 1].type # "doDownload"
    BY <2>1 DEF InOrder
  <2>3. q[i + 1].type # "doDownloadReplaced"
    <3> SUFFICES ASSUME q[i + 1].type = "doDownloadReplaced" PROVE FALSE
      OBVIOUS
    <3>1. PICK j \in DOMAIN q : i + 1 < j /\ q[j].type = "doDownload"
      BY <2>1 DEF InOrder
    <3>2. j = 1
      BY <2>1, <3>1 DEF InOrder
    <3> QED
      BY <2>1, <3>1, <3>2
  <2> QED
    BY <2>1, <2>2, <2>3 DEF Opens
<1> QED
  BY <1>1, <1>2 DEF Quiet

\* Delivering an event leaves what is to be written unregistered.
LEMMA TailUnwritten ==
  ASSUME NEW S, NEW q \in Seq(S), q # <<>>, NEW reg, Unwritten(q, reg)
  PROVE  Unwritten(Tail(q), reg)
  BY TailIndices DEF Unwritten

\* The events when one is posted.
LEMMA AppendIndices ==
  ASSUME NEW S, NEW q \in Seq(S), NEW e \in S
  PROVE  /\ DOMAIN q \subseteq Nat
         /\ Append(q, e) \in Seq(S)
         /\ DOMAIN Append(q, e) = DOMAIN q \cup {Len(q) + 1}
         /\ \A i \in DOMAIN q : Append(q, e)[i] = q[i] /\ i < Len(q) + 1
         /\ Append(q, e)[Len(q) + 1] = e
<1>1. /\ Append(q, e) \in Seq(S) /\ Len(Append(q, e)) = Len(q) + 1
      /\ \A i \in 1 .. Len(q) : Append(q, e)[i] = q[i]
      /\ Append(q, e)[Len(q) + 1] = e
  BY AppendProperties
<1>2. Len(q) \in Nat /\ DOMAIN q = 1 .. Len(q) /\ DOMAIN Append(q, e) = 1 .. Len(q) + 1
  BY <1>1, LenProperties
<1> QED
  BY <1>1, <1>2

\* Posting an event that opens nothing changes nothing of the order.
LEMMA AppendInOrder ==
  ASSUME NEW S, NEW q \in Seq(S), NEW e \in S, ~Opens(e)
  PROVE  /\ Append(q, e) \in Seq(S)
         /\ Quiet(q) => Quiet(Append(q, e))
         /\ \A d : InOrder(q, d) => InOrder(Append(q, e), d)
         /\ \A reg : Unwritten(q, reg) => Unwritten(Append(q, e), reg)
<1>1. Append(q, e) \in Seq(S)
  BY AppendIndices
<1>2. Quiet(q) => Quiet(Append(q, e))
  BY AppendIndices DEF Quiet
<1>3. ASSUME NEW d, InOrder(q, d) PROVE InOrder(Append(q, e), d)
  BY <1>3, AppendIndices DEF InOrder, Opens
<1>4. ASSUME NEW reg, Unwritten(q, reg) PROVE Unwritten(Append(q, e), reg)
  BY <1>4, AppendIndices DEF Unwritten
<1> QED
  BY <1>1, <1>2, <1>3, <1>4

\* So does posting two of them.
LEMMA ConcatQuiet ==
  ASSUME NEW S, NEW q \in Seq(S), NEW s \in Seq(S), Quiet(q), Quiet(s)
  PROVE  q \o s \in Seq(S) /\ Quiet(q \o s)
<1>1. /\ q \o s \in Seq(S) /\ Len(q \o s) = Len(q) + Len(s)
      /\ \A i \in 1 .. Len(q) + Len(s) :
           (q \o s)[i] = IF i <= Len(q) THEN q[i] ELSE s[i - Len(q)]
  BY ConcatProperties
<1>2. /\ Len(q) \in Nat /\ Len(s) \in Nat /\ DOMAIN q = 1 .. Len(q)
      /\ DOMAIN s = 1 .. Len(s) /\ DOMAIN (q \o s) = 1 .. Len(q) + Len(s)
  BY <1>1, LenProperties
<1>3. ASSUME NEW i \in DOMAIN (q \o s) PROVE ~Opens((q \o s)[i])
  <2>1. CASE i <= Len(q)
    BY <1>1, <1>2, <2>1 DEF Quiet
  <2>2. CASE ~(i <= Len(q))
    <3>1. i - Len(q) \in DOMAIN s /\ (q \o s)[i] = s[i - Len(q)]
      BY <1>1, <1>2, <2>2
    <3> QED
      BY <3>1 DEF Quiet
  <2> QED
    BY <2>1, <2>2
<1> QED
  BY <1>1, <1>3 DEF Quiet

\* A new downloader is the last to begin, after those it replaces; or there is none.
LEMMA SuccessorInOrder ==
  ASSUME NEW q \in Seq(PostedEvents), NEW reg, Unwritten(q, reg)
  PROVE  /\ Replaced(q) \in Seq(PostedEvents)
         /\ InOrder(Replaced(q), None) /\ Unwritten(Replaced(q), reg)
         /\ \A f \in Files : (f[1] \in Checked => reg[f[1]] = None) =>
              LET r == Append(Replaced(q), Event("doDownload", f)) IN
              r \in Seq(PostedEvents) /\ InOrder(r, New(f)) /\ Unwritten(r, reg)
<1> DEFINE r == Replaced(q)
<1>1. /\ Len(q) \in Nat /\ DOMAIN q = 1 .. Len(q) /\ \A i \in DOMAIN q : q[i] \in PostedEvents
  BY LenProperties, ElementOfSeq
<1>2. DOMAIN r = DOMAIN q
  BY DEF Replaced
<1>3. \A i \in DOMAIN q :
        /\ r[i] \in PostedEvents /\ r[i].type # "doDownload"
        /\ r[i].file = q[i].file /\ (Opens(r[i]) => Opens(q[i]))
  BY <1>1 DEF Replaced, PostedEvents, EventTypes, Opens
<1>4. r \in Seq(PostedEvents)
  <2>1. r = [i \in 1 .. Len(q) |-> r[i]]
    BY <1>1 DEF Replaced
  <2> QED
    BY <1>1, <1>3, <2>1, IsASeq
<1>5. InOrder(r, None)
  BY <1>2, <1>3 DEF InOrder
<1>6. Unwritten(r, reg)
  BY <1>2, <1>3 DEF Unwritten
<1>7. ASSUME NEW f \in Files, f[1] \in Checked => reg[f[1]] = None
      PROVE  LET s == Append(r, Event("doDownload", f)) IN
             s \in Seq(PostedEvents) /\ InOrder(s, New(f)) /\ Unwritten(s, reg)
  <2> DEFINE e == Event("doDownload", f)
             s == Append(r, e)
  <2>1. e \in PostedEvents /\ e.type = "doDownload" /\ e.file = f
    BY DEF Event, PostedEvents, EventTypes
  <2>2. /\ DOMAIN r \subseteq Nat /\ s \in Seq(PostedEvents)
        /\ DOMAIN s = DOMAIN r \cup {Len(r) + 1}
        /\ \A i \in DOMAIN r : s[i] = r[i] /\ i < Len(r) + 1
        /\ s[Len(r) + 1] = e
    BY <1>4, <2>1, AppendIndices
  <2>3. New(f).file = f /\ Fresh(New(f))
    <3>1. New(f) \in Downloader
      BY DEF New, Downloader
    <3> QED
      BY <3>1, NoneAssumption DEF New, Fresh
  <2> HIDE DEF e, r, s
  <2>4. \A i \in DOMAIN s : s[i].type = "doDownload" => i = Len(r) + 1
    BY <1>2, <1>3, <2>2
  <2>5. InOrder(s, New(f))
    BY <1>2, <1>3, <2>1, <2>2, <2>3, <2>4 DEF InOrder
  <2>6. Unwritten(s, reg)
    BY <1>6, <1>7, <2>1, <2>2 DEF Unwritten
  <2> QED
    BY <2>2, <2>5, <2>6 DEF e, r, s
<1> QED
  BY <1>4, <1>5, <1>6, <1>7

-----------------------------------------------------------------------------
(* The next archive                                                        *)

\* What the handlers that go on to the next archive find, and what they leave.
Between(d, q, list, reg) ==
  /\ d \in Downloader \cup {None} /\ q \in Seq(PostedEvents) /\ list \in Seq(Archives)
  /\ SumIsOfFile(d, disk) /\ InOrder(q, d)
  /\ Unwritten(q, reg) /\ OpenUnregistered(d, reg) /\ Remaining(list, reg)

\* Whatever is set up next, it is for an archive that is not registered.
LEMMA SetupKeepsBetween ==
  ASSUME NEW rest, NEW list, NEW reg, NEW kind \in Kinds, Between(dl, rest, list, reg),
         list # <<>>, SetupDownloader(rest, list, kind)
  PROVE  Between(dl', events', toDownload', reg) /\ ForHead(dl', toDownload')
<1> DEFINE a == Head(list)
<1>1. /\ rest \in Seq(PostedEvents) /\ list \in Seq(Archives) /\ a \in Archives
      /\ Tail(list) \in Seq(Archives) /\ Unwritten(rest, reg)
  BY HeadTailInSeq DEF Between
<1>2. Remaining(Tail(list), reg) /\ (a \in Checked => reg[a] = None)
  BY <1>1, TailIndices DEF Between, Remaining, DistinctArchives
<1>3. CASE a \in Unobtainable
  <2>1. /\ dl' = None /\ toDownload' = Tail(list)
        /\ events' = Append(Replaced(rest), SelfEvent("fetchNextArchiveHash"))
    BY <1>3 DEF SetupDownloader
  <2>2. /\ SelfEvent("fetchNextArchiveHash") \in PostedEvents
        /\ ~Opens(SelfEvent("fetchNextArchiveHash"))
    BY DEF SelfEvent, Event, PostedEvents, EventTypes, Opens
  <2>3. /\ events' \in Seq(PostedEvents) /\ InOrder(events', None) /\ Unwritten(events', reg)
    BY <1>1, <2>1, <2>2, SuccessorInOrder, AppendInOrder
  <2> QED
    BY <1>1, <1>2, <2>1, <2>3 DEF Between, SumIsOfFile, OpenUnregistered, ForHead
<1>4. CASE a \notin Unobtainable
  <2> DEFINE f == <<a, kind>>
  <2>1. /\ dl' = New(f) /\ toDownload' = list
        /\ events' = Append(Replaced(rest), Event("doDownload", f))
    BY <1>4 DEF SetupDownloader
  <2>2. f \in Files /\ f[1] = a
    BY <1>1 DEF Files
  <2> HIDE DEF f, a
  <2>3. events' \in Seq(PostedEvents) /\ InOrder(events', New(f)) /\ Unwritten(events', reg)
    <3>1. f[1] \in Checked => reg[f[1]] = None
      BY <1>2, <2>2
    <3>2. LET r == Append(Replaced(rest), Event("doDownload", f)) IN
          r \in Seq(PostedEvents) /\ InOrder(r, New(f)) /\ Unwritten(r, reg)
      BY <1>1, <2>2, <3>1, SuccessorInOrder
    <3> QED
      BY <2>1, <3>2
  <2>4. /\ New(f) \in Downloader /\ New(f).file = f /\ New(f).dest = "none"
        /\ New(f).sum = "bad"
    BY <2>2 DEF New, Downloader
  <2>5. SumIsOfFile(dl', disk) /\ OpenUnregistered(dl', reg)
    BY <2>1, <2>4 DEF SumIsOfFile, OpenUnregistered
  <2>6. ForHead(dl', toDownload')
    BY <2>1, <2>2, <2>4 DEF ForHead, a
  <2>7. Between(dl', events', toDownload', reg)
    BY <1>1, <2>1, <2>3, <2>4, <2>5 DEF Between
  <2> QED
    BY <2>6, <2>7
<1> QED
  BY <1>3, <1>4

LEMMA FetchKeepsBetween ==
  ASSUME NEW rest, NEW list, NEW reg, Between(dl, rest, list, reg),
         FetchNextArchive(rest, list) \/ FetchNextArchiveHash(rest, list)
  PROVE  Between(dl', events', toDownload', reg) /\ ForHead(dl', toDownload')
<1>1. CASE FetchNextArchive(rest, list)
  <2>1. CASE canceled \/ list = <<>>
    BY <1>1, <2>1 DEF FetchNextArchive, ForHead
  <2>2. CASE ~canceled /\ list # <<>>
    <3>1. SetupDownloader(rest, list, "archive")
      BY <1>1, <2>2 DEF FetchNextArchive
    <3> QED
      BY <2>2, <3>1, SetupKeepsBetween DEF Kinds
  <2> QED
    BY <2>1, <2>2
<1>2. CASE FetchNextArchiveHash(rest, list)
  <2>1. CASE list = <<>>
    BY <1>2, <2>1 DEF FetchNextArchiveHash, ForHead
  <2>2. CASE list # <<>> /\ Head(list) \notin Checked
    <3> DEFINE e == SelfEvent("fetchNextArchive")
    <3>1. events' = Append(rest, e) /\ toDownload' = list /\ dl' = dl
      BY <1>2, <2>2 DEF FetchNextArchiveHash
    <3>2. e \in PostedEvents /\ ~Opens(e)
      BY DEF SelfEvent, Event, PostedEvents, EventTypes, Opens
    <3> HIDE DEF e
    <3>3. /\ events' \in Seq(PostedEvents) /\ InOrder(events', dl')
          /\ Unwritten(events', reg)
      BY <3>1, <3>2, AppendInOrder DEF Between
    <3>4. ForHead(dl', toDownload')
      BY <2>2, <3>1 DEF ForHead
    <3> QED
      BY <3>1, <3>3, <3>4 DEF Between
  <2>3. CASE list # <<>> /\ Head(list) \in Checked /\ canceled
    BY <1>2, <2>3 DEF FetchNextArchiveHash, ForHead
  <2>4. CASE list # <<>> /\ Head(list) \in Checked /\ ~canceled
    <3>1. SetupDownloader(rest, list, "hash")
      BY <1>2, <2>4 DEF FetchNextArchiveHash
    <3> QED
      BY <2>4, <3>1, SetupKeepsBetween DEF Kinds
  <2> QED
    BY <2>1, <2>2, <2>3, <2>4
<1> QED
  BY <1>1, <1>2

-----------------------------------------------------------------------------
(* The steps                                                               *)

\* Nothing is posted but the first event, and there is no downloader.
LEMMA DownloadInit ==
  ASSUME DistinctArchives(List), JobInit
  PROVE  DownloadInv
<1>1. /\ dl = None /\ disk = [f \in Files |-> "absent"] /\ online = TRUE /\ offlines = 0
      /\ events = <<SelfEvent("fetchNextArchiveHash")>> /\ toDownload = List
      /\ currentHash = None /\ registered = [a \in Archives |-> None]
  BY DEF JobInit, DownloaderInit
<1>2. events \in Seq(PostedEvents) /\ Quiet(events)
  <2>1. /\ SelfEvent("fetchNextArchiveHash") \in PostedEvents
        /\ ~Opens(SelfEvent("fetchNextArchiveHash"))
    BY DEF SelfEvent, Event, PostedEvents, EventTypes, Opens
  <2> QED
    BY <1>1, <2>1 DEF Quiet
<1>3. Types
  BY <1>1, <1>2, DownloaderAssumption, JobAssumption
  DEF Types, DownloaderTypeOK, PostedEvents
<1>4. Remaining(toDownload, registered)
  <2>1. \A i \in DOMAIN toDownload : toDownload[i] \in Archives
    BY <1>1, JobAssumption, ElementOfSeq, LenProperties
  <2> QED
    BY <1>1, <2>1 DEF Remaining
<1>5. /\ SumIsOfFile(dl, disk) /\ OpenUnregistered(dl, registered)
      /\ ForHead(dl, toDownload)
  BY <1>1 DEF SumIsOfFile, OpenUnregistered, ForHead
<1>6. CheckedIsWhole
  BY <1>1, DownloaderAssumption DEF CheckedIsWhole
<1> QED
  BY <1>2, <1>3, <1>4, <1>5, <1>6, QuietInOrder DEF DownloadInv

\* What a step of the downloader owes the job it belongs to.
StillBetween ==
  /\ dl' \in Downloader \cup {None} /\ events' \in Seq(PostedEvents)
  /\ disk' \in [Files -> {"absent", "bad", "whole"}]
  /\ online' \in BOOLEAN /\ offlines' \in 0..MaxOffline
  /\ SumIsOfFile(dl', disk') /\ InOrder(events', dl')
  /\ Unwritten(events', registered) /\ OpenUnregistered(dl', registered)
  /\ dl' # None => dl # None /\ dl'.file = dl.file
  /\ \A a \in Checked : registered[a] # None =>
       disk'[<<a, "archive">>] = disk[<<a, "archive">>]

LEMMA DownloaderStep ==
  ASSUME DownloadInv, StillBetween, canceled => canceled',
         UNCHANGED <<toDownload, currentHash, registered>>
  PROVE  DownloadInv'
<1>1. Types'
  BY DEF DownloadInv, Types, DownloaderTypeOK, StillBetween, PostedEvents
<1>2. ForHead(dl, toDownload)'
  BY DEF DownloadInv, ForHead, StillBetween
<1>3. CheckedIsWhole'
  BY DEF DownloadInv, CheckedIsWhole, StillBetween
<1>4. /\ SumIsOfFile(dl, disk)' /\ InOrder(events, dl)' /\ Unwritten(events, registered)'
      /\ OpenUnregistered(dl, registered)' /\ Remaining(toDownload, registered)'
  BY DEF DownloadInv, StillBetween
<1> QED
  BY <1>1, <1>2, <1>3, <1>4 DEF DownloadInv

\* The events of the downloader open no file.
LEMMA SignalsOpenNothing ==
  ASSUME dl \in Downloader
  PROVE  /\ CompletedEvent \in PostedEvents /\ ~Opens(CompletedEvent)
         /\ AbortedEvent \in PostedEvents /\ ~Opens(AbortedEvent)
  BY DEF CompletedEvent, AbortedEvent, Event, PostedEvents, EventTypes, Opens, Downloader

\* What is left of a downloader whose download has ended.
LEMMA CompletedIs ==
  ASSUME NEW d \in Downloader, NEW sum \in {"bad", "whole"}
  PROVE  LET e == [Completed(d) EXCEPT !.sum = sum] IN
         e \in Downloader /\ e.file = d.file /\ e.named = d.named /\ ~e.http /\ e.dest = "none"
         /\ e.sum = sum
<1> DEFINE c == Completed(d)
           e == [c EXCEPT !.sum = sum]
<1>1. c \in Downloader /\ c.file = d.file /\ c.named = d.named /\ ~c.http /\ c.dest = "none"
  BY DEF Completed, Downloader
<1> HIDE DEF c
<1>2. e \in Downloader /\ e.file = c.file /\ e.named = c.named /\ e.http = c.http
      /\ e.dest = c.dest /\ e.sum = sum
  BY <1>1 DEF Downloader
<1> QED
  BY <1>1, <1>2 DEF c

\* The reply ends, fails or cannot be written: nothing was posted that opens a file.
LEMMA ReplyKeepsInv ==
  ASSUME DownloadInv, UNCHANGED jobVars,
         \/ \E content \in {"whole", "bad"} : ReplyFinished(content)
         \/ ReplyFailed
         \/ \E last \in BOOLEAN : WriteFailed(last)
  PROVE  DownloadInv'
<1>1. /\ dl # None /\ dl.http /\ dl \in Downloader /\ events \in Seq(PostedEvents)
      /\ disk \in [Files -> {"absent", "bad", "whole"}]
      /\ online' \in BOOLEAN /\ offlines' \in 0..MaxOffline
      /\ SumIsOfFile(dl, disk) /\ OpenUnregistered(dl, registered)
  BY DEF DownloadInv, Types, DownloaderTypeOK, PostedEvents, ReplyFinished, ReplyFailed,
         WriteFailed
<1>2. Quiet(events)
  BY <1>1, BegunIsQuiet DEF DownloadInv, Fresh
<1>3. /\ <<CompletedEvent>> \in Seq(PostedEvents) /\ Quiet(<<CompletedEvent>>)
      /\ <<AbortedEvent>> \in Seq(PostedEvents) /\ Quiet(<<AbortedEvent>>)
      /\ <<>> \in Seq(PostedEvents) /\ Quiet(<<>>)
  BY <1>1, SignalsOpenNothing DEF Quiet
<1>4. /\ dl.named \in BOOLEAN /\ dl.file \in Files
      /\ dl.dest \in {"none", "open", "unopened"} /\ dl.sum \in {"bad", "whole"}
  BY <1>1 DEF Downloader
<1>5. ASSUME NEW content \in {"whole", "bad"}, ReplyFinished(content)
      PROVE  StillBetween
  <2>1. /\ dl' = [Completed(dl) EXCEPT !.sum = IF dl.dest = "open" THEN content ELSE dl.sum]
        /\ disk' = IF dl.dest = "open" THEN [disk EXCEPT ![dl.file] = content] ELSE disk
        /\ events' = events \o <<CompletedEvent>>
    BY <1>5 DEF ReplyFinished, Post
  <2>s. (IF dl.dest = "open" THEN content ELSE dl.sum) \in {"bad", "whole"}
    BY <1>4
  <2>2. dl' \in Downloader
    BY <1>1, <2>1, <2>s, CompletedIs
  <2>3. /\ dl' # None /\ dl'.file = dl.file /\ dl'.named = dl.named /\ ~dl'.http
        /\ dl'.dest = "none" /\ dl'.sum = IF dl.dest = "open" THEN content ELSE dl.sum
    <3>1. dl' # None
      BY <2>2, NoneAssumption
    <3> DEFINE sum == IF dl.dest = "open" THEN content ELSE dl.sum
    <3>2. sum \in {"bad", "whole"} /\ dl' = [Completed(dl) EXCEPT !.sum = sum]
      BY <2>1, <2>s
    <3>3. dl'.sum = sum
      <4> HIDE DEF sum
      <4> QED
        BY <1>1, <3>2, CompletedIs
    <3>4. dl'.file = dl.file /\ dl'.named = dl.named /\ ~dl'.http /\ dl'.dest = "none"
      <4> HIDE DEF sum
      <4> QED
        BY <1>1, <3>2, CompletedIs
    <3> QED
      BY <3>1, <3>3, <3>4
  <2>4. events' \in Seq(PostedEvents) /\ Quiet(events')
    BY <1>1, <1>2, <1>3, <2>1, ConcatQuiet
  <2>5. disk' \in [Files -> {"absent", "bad", "whole"}]
    BY <1>1, <2>1
  <2>6. SumIsOfFile(dl', disk')
    BY <1>1, <1>4, <2>1, <2>3 DEF SumIsOfFile
  <2>7. \A a \in Checked : registered[a] # None =>
          disk'[<<a, "archive">>] = disk[<<a, "archive">>]
    BY <1>1, <1>4, <2>1 DEF OpenUnregistered, Files
  <2> QED
    BY <1>1, <2>2, <2>3, <2>4, <2>5, <2>6, <2>7, QuietInOrder
    DEF StillBetween, OpenUnregistered
<1>6. ASSUME ReplyFailed PROVE StillBetween
  <2>1. /\ disk' = disk /\ events' \in {events, events \o <<AbortedEvent>>}
        /\ dl' = ShutDownKeepFile(dl) \/ (dl' = Failed(dl) /\ ~dl.resumed)
    BY <1>6 DEF ReplyFailed, Post
  <2>2. events' \in Seq(PostedEvents) /\ Quiet(events')
    BY <1>1, <1>2, <1>3, <2>1, ConcatQuiet
  <2>3. /\ dl' \in Downloader /\ dl'.file = dl.file /\ ~dl'.http /\ dl'.sum = dl.sum
        /\ \/ dl'.dest = dl.dest /\ dl'.named = dl.named
           \/ dl'.dest = "none" /\ ~dl.resumed
    <3>1. CASE dl' = ShutDownKeepFile(dl)
      BY <1>1, <3>1 DEF ShutDownKeepFile, Downloader
    <3>2. CASE dl' = Failed(dl) /\ ~dl.resumed
      BY <1>1, <3>2 DEF Failed, Downloader
    <3> QED
      BY <2>1, <3>1, <3>2
  <2>4. SumIsOfFile(dl', disk') /\ OpenUnregistered(dl', registered)
    BY <1>1, <1>4, <2>1, <2>3 DEF SumIsOfFile, OpenUnregistered
  <2> QED
    BY <1>1, <2>1, <2>2, <2>3, <2>4, QuietInOrder DEF StillBetween
<1>7. ASSUME NEW last \in BOOLEAN, WriteFailed(last)
      PROVE  StillBetween
  <2>1. /\ dl' = IF last THEN Completed(ShutDown(dl)) ELSE ShutDown(dl)
        /\ disk' = disk
        /\ events' = events \o
             (<<AbortedEvent>> \o (IF last THEN <<CompletedEvent>> ELSE <<>>))
    BY <1>7 DEF WriteFailed, Post
  <2>2. events' \in Seq(PostedEvents) /\ Quiet(events')
    <3> DEFINE s == IF last THEN <<CompletedEvent>> ELSE <<>>
    <3>1. s \in Seq(PostedEvents) /\ Quiet(s)
      BY <1>3
    <3> HIDE DEF s
    <3>2. <<AbortedEvent>> \o s \in Seq(PostedEvents) /\ Quiet(<<AbortedEvent>> \o s)
      BY <1>3, <3>1, ConcatQuiet
    <3> QED
      BY <1>1, <1>2, <2>1, <3>2, ConcatQuiet DEF s
  <2>3. /\ dl' \in Downloader /\ dl'.file = dl.file /\ ~dl'.http /\ dl'.sum = "bad"
        /\ dl'.dest = "none"
    BY <1>1, <2>1 DEF ShutDown, Completed, Downloader
  <2>4. SumIsOfFile(dl', disk') /\ OpenUnregistered(dl', registered)
    BY <2>3 DEF SumIsOfFile, OpenUnregistered
  <2> QED
    BY <1>1, <2>1, <2>2, <2>3, <2>4, QuietInOrder DEF StillBetween
<1>8. StillBetween
  BY <1>5, <1>6, <1>7
<1> QED
  BY <1>8, DownloaderStep DEF jobVars

\* The timer and the network act on the downloader when nothing is posted.
LEMMA NetworkKeepsInv ==
  ASSUME DownloadInv, Network
  PROVE  DownloadInv'
<1>1. UNCHANGED jobVars
  BY DEF Network
<1>2. ASSUME DeadlineTimer \/ GoOffline \/ GoOnline
      PROVE  DownloadInv'
  <2>1. /\ events = <<>> /\ events' = events /\ disk' = disk
        /\ dl \in Downloader \cup {None} /\ events \in Seq(PostedEvents)
        /\ disk \in [Files -> {"absent", "bad", "whole"}]
        /\ SumIsOfFile(dl, disk) /\ OpenUnregistered(dl, registered)
    BY <1>2 DEF DeadlineTimer, GoOffline, GoOnline, NothingPosted, DownloadInv, Types,
                DownloaderTypeOK, PostedEvents
  <2>2. online' \in BOOLEAN /\ offlines' \in 0..MaxOffline
    <3>1. online \in BOOLEAN /\ offlines \in 0..MaxOffline /\ MaxOffline \in Nat
      BY DownloaderAssumption DEF DownloadInv, Types, DownloaderTypeOK
    <3>2. online' \in BOOLEAN
      BY <1>2, <3>1, Zenon DEF DeadlineTimer, GoOffline, GoOnline
    <3>3. offlines' = offlines \/ (offlines < MaxOffline /\ offlines' = offlines + 1)
      BY <1>2 DEF DeadlineTimer, GoOffline, GoOnline
    <3>4. offlines' \in 0..MaxOffline
      BY <3>1, <3>3
    <3> QED
      BY <3>2, <3>4
  <2>3. /\ dl = None => dl' = None
        /\ dl # None => /\ dl' \in Downloader /\ dl'.file = dl.file /\ dl'.dest = dl.dest
                        /\ dl'.named = dl.named /\ dl'.sum = dl.sum
                        /\ \/ dl'.http => dl'.resumed
                           \/ dl'.http = dl.http /\ dl'.resumed = dl.resumed
    <3>1. CASE DeadlineTimer
      BY <2>1, <3>1 DEF DeadlineTimer, Resumed, ShutDownKeepFile, Downloader
    <3>2. CASE GoOffline
      BY <2>1, <3>2 DEF GoOffline, ShutDownKeepFile, Downloader
    <3>3. CASE GoOnline
      <4>1. dl' = dl \/ (dl # None /\ dl' = Resumed([dl EXCEPT !.paused = FALSE]))
        BY <3>3 DEF GoOnline
      <4> QED
        BY <2>1, <4>1 DEF Resumed, Downloader
    <3> QED
      BY <1>2, <3>1, <3>2, <3>3
  <2>4. SumIsOfFile(dl', disk') /\ OpenUnregistered(dl', registered)
    BY <2>1, <2>3 DEF SumIsOfFile, OpenUnregistered
  <2>5. Quiet(events')
    BY <2>1 DEF Quiet
  <2>6. StillBetween
    BY <2>1, <2>2, <2>3, <2>4, <2>5, QuietInOrder DEF StillBetween
  <2> QED
    BY <1>1, <2>6, DownloaderStep DEF jobVars
<1> QED
  BY <1>1, <1>2, ReplyKeepsInv DEF Network

\* doDownload(): the file it opens is not registered, and if the downloader was
\* replaced, the one that replaced it has not begun.
LEMMA DoDownloadKeepsInv ==
  ASSUME DownloadInv, DoDownloadEvent
  PROVE  DownloadInv'
<1> DEFINE e == Head(events)
<1>1. /\ events # <<>> /\ events \in Seq(PostedEvents) /\ e \in PostedEvents
      /\ Tail(events) \in Seq(PostedEvents)
      /\ dl \in Downloader \cup {None} /\ disk \in [Files -> {"absent", "bad", "whole"}]
      /\ e = events[1] /\ 1 \in DOMAIN events /\ UNCHANGED jobVars
  <2>1. events # <<>> /\ events \in Seq(PostedEvents)
    BY DEF DoDownloadEvent, Deliver, DownloadInv, Types, DownloaderTypeOK, PostedEvents
  <2> QED
    BY <2>1, HeadTailInSeq, TailIndices
    DEF DoDownloadEvent, DownloadInv, Types, DownloaderTypeOK, PostedEvents
<1>2. /\ SumIsOfFile(dl, disk) /\ InOrder(events, dl) /\ Unwritten(events, registered)
      /\ OpenUnregistered(dl, registered)
  BY DEF DownloadInv
<1>3. online \in BOOLEAN /\ offlines \in 0..MaxOffline
  BY DEF DownloadInv, Types, DownloaderTypeOK
<1>4. Unwritten(Tail(events), registered)
  BY <1>1, <1>2, TailUnwritten
<1>5. ASSUME e.type = "doDownload", DoDownload PROVE StillBetween
  <2>1. /\ Fresh(dl) /\ e.file = dl.file /\ dl \in Downloader /\ dl # None
        /\ online' = online /\ offlines' = offlines
    BY <1>1, <1>2, <1>5 DEF InOrder, Fresh, DoDownload
  <2>2. dl.file[1] \in Checked => registered[dl.file[1]] = None
    BY <1>1, <1>2, <1>5, <2>1 DEF Unwritten, Opens
  <2>3. Quiet(Tail(events))
    BY <1>1, <1>2, <1>5, TailInOrder
  <2>4. AbortedEvent \in PostedEvents /\ ~Opens(AbortedEvent)
    BY <2>1, SignalsOpenNothing
  <2>5. events' = Tail(events) \/ events' = Append(Tail(events), AbortedEvent)
    BY <1>5 DEF DoDownload
  <2>6. events' \in Seq(PostedEvents) /\ Quiet(events')
    BY <1>1, <2>3, <2>4, <2>5, AppendInOrder
  <2>7. /\ dl' \in Downloader /\ dl'.file = dl.file /\ dl'.sum = "bad"
        /\ dl'.named = dl.named
    <3>1. \/ dl' = dl
          \/ \E d \in {"open", "unopened"} :
               dl' = [dl EXCEPT !.http = TRUE, !.dest = d, !.deadline = TRUE]
          \/ dl' = [ShutDown(dl) EXCEPT !.deadline = TRUE]
      BY <1>5 DEF DoDownload
    <3>2. CASE dl' = dl
      BY <2>1, <3>2 DEF Fresh
    <3>3. ASSUME NEW d \in {"open", "unopened"},
                 dl' = [dl EXCEPT !.http = TRUE, !.dest = d, !.deadline = TRUE]
          PROVE  /\ dl' \in Downloader /\ dl'.file = dl.file /\ dl'.sum = "bad"
                 /\ dl'.named = dl.named
      BY <2>1, <3>3 DEF Downloader, Fresh
    <3>4. CASE dl' = [ShutDown(dl) EXCEPT !.deadline = TRUE]
      BY <2>1, <3>4 DEF ShutDown, Downloader
    <3> QED
      BY <3>1, <3>2, <3>3, <3>4
  <2>8. disk' = disk \/ disk' = [disk EXCEPT ![dl.file] = "bad"]
    BY <1>5 DEF DoDownload
  <2>9. \A a \in Checked : registered[a] # None =>
          disk'[<<a, "archive">>] = disk[<<a, "archive">>]
    <3> SUFFICES ASSUME NEW a \in Checked, registered[a] # None
                 PROVE  disk'[<<a, "archive">>] = disk[<<a, "archive">>]
      OBVIOUS
    <3>1. <<a, "archive">> # dl.file
      BY <2>2
    <3>2. <<a, "archive">> \in Files
      BY DownloaderAssumption DEF Files, Kinds
    <3> QED
      BY <1>1, <2>8, <3>1, <3>2
  <2>10. SumIsOfFile(dl', disk') /\ OpenUnregistered(dl', registered)
    BY <2>1, <2>2, <2>7 DEF SumIsOfFile, OpenUnregistered, Fresh
  <2>11. disk' \in [Files -> {"absent", "bad", "whole"}]
    BY <1>1, <2>8
  <2> QED
    BY <1>3, <2>1, <2>6, <2>7, <2>9, <2>10, <2>11, QuietInOrder DEF StillBetween
<1>6. ASSUME e.type = "doDownloadReplaced", DoDownloadReplaced PROVE StillBetween
  <2> DEFINE f == e.file
             failed == Event("downloadAborted", f)
  <2>1. f \in Files \cup {None} /\ failed \in PostedEvents /\ ~Opens(failed)
    BY <1>1 DEF Event, PostedEvents, EventTypes, Opens
  <2>2. /\ f[1] \in Checked => registered[f[1]] = None
        /\ dl # None => Fresh(dl)
    BY <1>1, <1>2, <1>6 DEF Unwritten, Opens, InOrder
  <2>3. /\ dl' = dl /\ online' = online /\ offlines' = offlines
        /\ disk' = disk \/ disk' = [disk EXCEPT ![f] = "bad"]
        /\ events' = Tail(events) \/ events' = Append(Tail(events), failed)
    BY <1>6 DEF DoDownloadReplaced
  <2> HIDE DEF f, failed
  <2>4. InOrder(Tail(events), dl)
    BY <1>1, <1>2, <1>6, TailInOrder
  <2>5. /\ events' \in Seq(PostedEvents) /\ InOrder(events', dl)
        /\ Unwritten(events', registered)
    <3>1. CASE events' = Tail(events)
      BY <1>1, <1>4, <2>4, <3>1
    <3>2. CASE events' = Append(Tail(events), failed)
      BY <1>1, <1>4, <2>1, <2>4, <3>2, AppendInOrder
    <3> QED
      BY <2>3, <3>1, <3>2
  <2>6. \A a \in Checked : registered[a] # None =>
          disk'[<<a, "archive">>] = disk[<<a, "archive">>]
    <3> SUFFICES ASSUME NEW a \in Checked, registered[a] # None
                 PROVE  disk'[<<a, "archive">>] = disk[<<a, "archive">>]
      OBVIOUS
    <3>1. <<a, "archive">> # f
      BY <2>2
    <3>2. <<a, "archive">> \in Files
      BY DownloaderAssumption DEF Files, Kinds
    <3> QED
      BY <1>1, <2>3, <3>1, <3>2
  <2>7. SumIsOfFile(dl', disk') /\ OpenUnregistered(dl', registered)
    BY <1>2, <2>2, <2>3 DEF SumIsOfFile, OpenUnregistered, Fresh
  <2>8. disk' \in [Files -> {"absent", "bad", "whole"}]
    BY <1>1, <2>3
  <2> QED
    BY <1>1, <1>3, <2>3, <2>5, <2>6, <2>7, <2>8 DEF StillBetween
<1>7. StillBetween
  BY <1>5, <1>6 DEF DoDownloadEvent, Deliver
<1> QED
  BY <1>1, <1>7, DownloaderStep DEF jobVars

\* The handlers that go on to the next archive without registering one.
LEMMA FetchKeepsInv ==
  ASSUME DownloadInv,
         NEW rest, rest \in Seq(PostedEvents), InOrder(rest, dl), Unwritten(rest, registered),
         FetchNextArchive(rest, toDownload) \/ FetchNextArchiveHash(rest, toDownload),
         UNCHANGED <<disk, online, offlines, registered, canceled>>,
         currentHash' \in Archives \cup {None}
  PROVE  DownloadInv'
<1>1. Between(dl, rest, toDownload, registered)
  BY DEF DownloadInv, Between, Types, DownloaderTypeOK
<1>2. Between(dl', events', toDownload', registered) /\ ForHead(dl', toDownload')
  BY <1>1, FetchKeepsBetween
<1>3. Types'
  BY <1>2 DEF DownloadInv, Types, DownloaderTypeOK, Between, PostedEvents
<1>4. CheckedIsWhole'
  BY DEF DownloadInv, CheckedIsWhole
<1>5. ForHead(dl, toDownload)'
  BY <1>2 DEF ForHead
<1> QED
  BY <1>2, <1>3, <1>4, <1>5 DEF DownloadInv, Between

\* What is left of the queue is in order but for an event that begins a download.
LEMMA DeliveredRest ==
  ASSUME DownloadInv, NEW type, type # "doDownload", Deliver(type)
  PROVE  /\ Tail(events) \in Seq(PostedEvents) /\ InOrder(Tail(events), dl)
         /\ Unwritten(Tail(events), registered)
<1>1. /\ events # <<>> /\ events \in Seq(PostedEvents) /\ Head(events).type # "doDownload"
      /\ InOrder(events, dl) /\ Unwritten(events, registered)
  BY DEF Deliver, DownloadInv, Types, DownloaderTypeOK, PostedEvents
<1> QED
  BY <1>1, HeadTailInSeq, TailInOrder, TailUnwritten

\* Steps that leave the downloader and the list alone.
LEMMA QueueStep ==
  ASSUME DownloadInv, events' \in Seq(PostedEvents), InOrder(events', dl),
         Unwritten(events', registered), UNCHANGED <<dl, disk, online, offlines>>,
         UNCHANGED <<toDownload, registered>>, canceled => canceled',
         currentHash' \in Archives \cup {None}
  PROVE  DownloadInv'
<1>1. Types'
  BY DEF DownloadInv, Types, DownloaderTypeOK, PostedEvents
<1>2. CheckedIsWhole'
  BY DEF DownloadInv, CheckedIsWhole
<1>3. ForHead(dl, toDownload)'
  BY DEF DownloadInv, ForHead
<1> QED
  BY <1>1, <1>2, <1>3 DEF DownloadInv

LEMMA FinishedHashKeepsInv ==
  ASSUME DownloadInv, FinishedHashDownload
  PROVE  DownloadInv'
<1>1. /\ Tail(events) \in Seq(PostedEvents) /\ InOrder(Tail(events), dl)
      /\ Unwritten(Tail(events), registered)
  <2>1. Deliver("downloadCompleted")
    BY DEF FinishedHashDownload
  <2> QED
    BY <2>1, DeliveredRest
<1>2. /\ UNCHANGED <<disk, online, offlines, registered, canceled>>
      /\ dl # None /\ dl \in Downloader /\ dl.file \in Files
      /\ currentHash \in Archives \cup {None}
  BY DEF FinishedHashDownload, DownloadInv, Types, DownloaderTypeOK, Downloader
<1>3. dl.file[1] \in Archives
  BY <1>2 DEF Files
<1>4. CASE dl.named /\ disk[dl.file] # "absent"
  <2>1. /\ currentHash' \in {dl.file[1], None} /\ FetchNextArchive(Tail(events), toDownload)
    BY <1>4 DEF FinishedHashDownload
  <2> QED
    BY <1>1, <1>2, <1>3, <2>1, FetchKeepsInv
<1>5. CASE ~(dl.named /\ disk[dl.file] # "absent")
  <2>1. events' = Tail(events) /\ UNCHANGED <<dl, toDownload, currentHash>>
    BY <1>5 DEF FinishedHashDownload
  <2> QED
    BY <1>1, <1>2, <2>1, QueueStep
<1> QED
  BY <1>4, <1>5

\* registerFile(): what is compared is what is registered, and its downloader has
\* begun, so that nothing is posted that could write to it.
LEMMA RegisterKeepsInv ==
  ASSUME DownloadInv, RegisterFile
  PROVE  DownloadInv'
<1>1. /\ Tail(events) \in Seq(PostedEvents) /\ InOrder(Tail(events), dl)
      /\ Unwritten(Tail(events), registered)
  <2>1. Deliver("downloadCompleted")
    BY DEF RegisterFile
  <2> QED
    BY <2>1, DeliveredRest
<1>2. /\ UNCHANGED <<disk, online, offlines, currentHash, canceled>>
      /\ dl # None /\ dl \in Downloader /\ dl.file \in Files
      /\ currentHash \in Archives \cup {None}
      /\ toDownload \in Seq(Archives) /\ registered \in [Archives -> Files \cup {NoName, None}]
      /\ SumIsOfFile(dl, disk) /\ OpenUnregistered(dl, registered)
      /\ Remaining(toDownload, registered) /\ ForHead(dl, toDownload)
  BY DEF RegisterFile, DownloadInv, Types, DownloaderTypeOK, Downloader
<1>3. CASE \/ canceled \/ toDownload = <<>>
           \/ Head(toDownload) \in Checked /\ ~SumMatches
  <2>1. events' = Tail(events) /\ UNCHANGED <<dl, toDownload, registered>>
    BY <1>3 DEF RegisterFile
  <2> QED
    BY <1>1, <1>2, <2>1, QueueStep
<1>4. CASE /\ ~canceled /\ toDownload # <<>>
           /\ Head(toDownload) \in Checked => SumMatches
  <2> DEFINE a == Head(toDownload)
             list == Tail(toDownload)
             file == IF dl.named THEN dl.file ELSE NoName
  <2>1. /\ registered' = [registered EXCEPT ![a] = file]
        /\ FetchNextArchiveHash(Tail(events), list)
    BY <1>4 DEF RegisterFile
  <2>2. /\ a \in Archives /\ list \in Seq(Archives) /\ a = toDownload[1]
        /\ 1 \in DOMAIN toDownload
        /\ \A i \in DOMAIN list : i + 1 \in DOMAIN toDownload /\ list[i] = toDownload[i + 1]
        /\ DOMAIN list \subseteq Nat \ {0}
    BY <1>2, <1>4, HeadTailInSeq, TailIndices
  <2> HIDE DEF a, list, file
  <2>3. /\ registered' \in [Archives -> Files \cup {NoName, None}]
        /\ registered'[a] = file
        /\ \A b \in Archives : b # a => registered'[b] = registered[b]
    <3>1. file \in Files \cup {NoName, None}
      BY <1>2 DEF file
    <3> QED
      BY <1>2, <2>1, <2>2, <3>1
  <2>4. Remaining(list, registered')
    <3>1. DistinctArchives(list)
      BY <1>2, <2>2 DEF Remaining, DistinctArchives
    <3>2. ASSUME NEW i \in DOMAIN list, list[i] \in Checked
          PROVE  registered'[list[i]] = None
      <4>1. i + 1 # 1 /\ list[i] = toDownload[i + 1] /\ i + 1 \in DOMAIN toDownload
        BY <2>2
      <4>2. list[i] # a /\ registered[list[i]] = None
        BY <1>2, <2>2, <3>2, <4>1 DEF Remaining, DistinctArchives
      <4> QED
        BY <2>3, <3>2, <4>2, DownloaderAssumption
    <3> QED
      BY <3>1, <3>2 DEF Remaining
  <2>5. /\ Unwritten(Tail(events), registered') /\ OpenUnregistered(dl, registered')
        /\ a \in Checked => /\ file = <<a, "archive">>
                           /\ disk[<<a, "archive">>] = "whole"
    <3>1. CASE a \in Checked
      <4>1. SumMatches /\ dl.file[1] = a
        BY <1>2, <1>4, <3>1 DEF ForHead, a
      <4>2. dl.sum = "whole" /\ dl.file = <<a, "archive">>
        BY <4>1 DEF SumMatches
      <4>3. dl.named /\ dl.dest # "open" /\ disk[dl.file] = "whole"
        BY <1>2, <4>2 DEF SumIsOfFile
      <4>4. Quiet(Tail(events))
        BY <1>1, <1>2, <4>2, BegunIsQuiet DEF Fresh
      <4> QED
        BY <4>2, <4>3, <4>4, QuietInOrder DEF OpenUnregistered, file
    <3>2. CASE a \notin Checked
      <4>1. \A b \in Checked : registered'[b] = registered[b]
        BY <2>3, <3>2, DownloaderAssumption
      <4> QED
        BY <1>1, <1>2, <3>2, <4>1 DEF Unwritten, OpenUnregistered
    <3> QED
      BY <3>1, <3>2
  <2>6. Between(dl, Tail(events), list, registered')
    BY <1>1, <1>2, <2>2, <2>4, <2>5 DEF Between
  <2>7. Between(dl', events', toDownload', registered') /\ ForHead(dl', toDownload')
    BY <2>1, <2>6, FetchKeepsBetween
  <2>8. Types'
    BY <1>2, <2>3, <2>7 DEF DownloadInv, Types, DownloaderTypeOK, Between, PostedEvents
  <2>9. CheckedIsWhole'
    <3> SUFFICES ASSUME NEW b \in Checked, registered'[b] # None
                 PROVE  registered'[b] = <<b, "archive">> /\ disk'[<<b, "archive">>] = "whole"
      BY DEF CheckedIsWhole
    <3>1. CASE b = a
      BY <1>2, <2>3, <2>5, <3>1
    <3>2. CASE b # a
      BY <1>2, <2>3, <3>2, DownloaderAssumption DEF DownloadInv, CheckedIsWhole
    <3> QED
      BY <3>1, <3>2
  <2>10. ForHead(dl, toDownload)' /\ SumIsOfFile(dl, disk)'
    BY <1>2, <2>7 DEF ForHead, Between
  <2> QED
    BY <2>7, <2>8, <2>9, <2>10 DEF DownloadInv, Between
<1> QED
  BY <1>3, <1>4

\* cancelDownload() completes what has come, and the sum is not of the file then.
LEMMA CancelKeepsInv ==
  ASSUME DownloadInv, Cancel
  PROVE  DownloadInv'
<1>1. /\ UNCHANGED <<disk, online, offlines, toDownload, currentHash, registered>>
      /\ canceled' = TRUE
      /\ dl \in Downloader \cup {None} /\ events \in Seq(PostedEvents)
      /\ disk \in [Files -> {"absent", "bad", "whole"}]
      /\ online \in BOOLEAN /\ offlines \in 0..MaxOffline
      /\ currentHash \in Archives \cup {None}
      /\ SumIsOfFile(dl, disk) /\ OpenUnregistered(dl, registered)
      /\ InOrder(events, dl) /\ Unwritten(events, registered)
  BY DEF Cancel, DownloadInv, Types, DownloaderTypeOK, PostedEvents
<1>2. CASE dl = None
  <2>1. UNCHANGED <<dl, events>>
    BY <1>2 DEF Cancel
  <2> QED
    BY <1>1, <2>1, QueueStep
<1>3. ASSUME dl # None, ~dl.http PROVE StillBetween
  <2>1. dl' = [dl EXCEPT !.aborted = TRUE] /\ events' = events
    BY <1>3 DEF Cancel, Cancelled
  <2>2. /\ dl' \in Downloader /\ dl' # None
        /\ dl'.file = dl.file /\ dl'.dest = dl.dest /\ dl'.named = dl.named
        /\ dl'.sum = dl.sum /\ dl'.http = dl.http /\ dl'.resumed = dl.resumed
    BY <1>1, <1>3, <2>1, NoneAssumption DEF Downloader
  <2>3. SumIsOfFile(dl', disk') /\ OpenUnregistered(dl', registered)
    BY <1>1, <1>3, <2>2 DEF SumIsOfFile, OpenUnregistered
  <2>4. InOrder(events', dl')
    BY <1>1, <1>3, <2>1, <2>2 DEF InOrder, Fresh
  <2> QED
    BY <1>1, <1>3, <2>1, <2>2, <2>3, <2>4 DEF StillBetween
<1>4. ASSUME dl # None, dl.http PROVE StillBetween
  <2>1. dl' = Completed([dl EXCEPT !.sum = "bad"]) /\ events' = Append(events, CompletedEvent)
    BY <1>4 DEF Cancel, Cancelled
  <2>2. /\ dl' \in Downloader /\ dl'.file = dl.file /\ dl'.dest = "none"
        /\ dl'.sum = "bad" /\ ~dl'.http
    BY <1>1, <1>4, <2>1 DEF Completed, Downloader
  <2>3. Quiet(events)
    BY <1>1, <1>4, BegunIsQuiet DEF Fresh
  <2>4. events' \in Seq(PostedEvents) /\ Quiet(events')
    BY <1>1, <1>4, <2>1, <2>3, SignalsOpenNothing, AppendInOrder
  <2>5. SumIsOfFile(dl', disk') /\ OpenUnregistered(dl', registered)
    BY <2>2 DEF SumIsOfFile, OpenUnregistered
  <2> QED
    BY <1>1, <1>4, <2>2, <2>4, <2>5, QuietInOrder DEF StillBetween
<1>5. CASE dl # None
  BY <1>1, <1>3, <1>4, <1>5, DownloaderStep
<1> QED
  BY <1>2, <1>5

\* The answer to a box: Retry asks for the same archive again.
LEMMA AnswerKeepsInv ==
  ASSUME DownloadInv, AnswerCancel \/ AnswerRetry
  PROVE  DownloadInv'
<1> DEFINE e == SelfEvent("fetchNextArchiveHash")
<1>1. /\ UNCHANGED <<disk, online, offlines, currentHash, registered, canceled>>
      /\ events \in Seq(PostedEvents) /\ currentHash \in Archives \cup {None}
      /\ InOrder(events, dl) /\ Unwritten(events, registered)
  BY DEF AnswerCancel, AnswerRetry, downloaderVars, DownloadInv, Types, DownloaderTypeOK,
         PostedEvents
<1>2. \/ events' = events /\ UNCHANGED <<dl, toDownload>>
      \/ FetchNextArchiveHash(events, toDownload)
      \/ events' = Append(events, e) /\ UNCHANGED <<dl, toDownload>>
  <2>1. CASE AnswerCancel
    BY <2>1 DEF AnswerCancel, downloaderVars
  <2>2. CASE AnswerRetry
    <3>1. \E isLast : Retry(isLast)
      BY <2>2 DEF AnswerRetry
    <3> QED
      BY <3>1, Zenon DEF Retry
  <2> QED
    BY <2>1, <2>2
<1>3. e \in PostedEvents /\ ~Opens(e)
  BY DEF SelfEvent, Event, PostedEvents, EventTypes, Opens
<1> HIDE DEF e
<1>4. CASE events' = events /\ UNCHANGED <<dl, toDownload>>
  BY <1>1, <1>4, QueueStep
<1>5. CASE FetchNextArchiveHash(events, toDownload)
  BY <1>1, <1>5, FetchKeepsInv
<1>6. CASE events' = Append(events, e) /\ UNCHANGED <<dl, toDownload>>
  BY <1>1, <1>3, <1>6, AppendInOrder, QueueStep
<1> QED
  BY <1>2, <1>4, <1>5, <1>6

LEMMA DownloadNext ==
  ASSUME DownloadInv, [JobNext]_vars
  PROVE  DownloadInv'
<1>1. CASE Network
  BY <1>1, NetworkKeepsInv
<1>2. CASE FetchHashEvent \/ FetchArchiveEvent
  <2>1. \E type \in {"fetchNextArchiveHash", "fetchNextArchive"} : Deliver(type)
    BY <1>2 DEF FetchHashEvent, FetchArchiveEvent
  <2>2. /\ Tail(events) \in Seq(PostedEvents) /\ InOrder(Tail(events), dl)
        /\ Unwritten(Tail(events), registered)
    BY <2>1, DeliveredRest
  <2>3. /\ FetchNextArchive(Tail(events), toDownload)
             \/ FetchNextArchiveHash(Tail(events), toDownload)
        /\ UNCHANGED <<disk, online, offlines, registered, canceled>>
        /\ currentHash' \in Archives \cup {None}
    BY <1>2 DEF FetchHashEvent, FetchArchiveEvent, DownloadInv, Types
  <2> QED
    BY <2>2, <2>3, FetchKeepsInv
<1>3. CASE DoDownloadEvent
  BY <1>3, DoDownloadKeepsInv
<1>4. CASE FinishedHashDownload
  BY <1>4, FinishedHashKeepsInv
<1>5. CASE RegisterFile
  BY <1>5, RegisterKeepsInv
<1>6. CASE DownloadFailed
  <2>1. /\ Tail(events) \in Seq(PostedEvents) /\ InOrder(Tail(events), dl)
        /\ Unwritten(Tail(events), registered)
    <3>1. Deliver("downloadAborted")
      BY <1>6 DEF DownloadFailed
    <3> QED
      BY <3>1, DeliveredRest
  <2> QED
    BY <1>6, <2>1, QueueStep DEF DownloadFailed, DownloadInv, Types
<1>7. CASE AnswerCancel \/ AnswerRetry
  BY <1>7, AnswerKeepsInv
<1>8. CASE Cancel
  BY <1>8, CancelKeepsInv
<1>9. CASE Return \/ UNCHANGED vars
  <2>1. /\ UNCHANGED <<downloaderVars, toDownload, currentHash, registered, canceled>>
    BY <1>9 DEF Return, vars, jobVars
  <2> QED
    BY <2>1, QueueStep
    DEF downloaderVars, DownloadInv, Types, DownloaderTypeOK, PostedEvents
<1> QED
  BY <1>1, <1>2, <1>3, <1>4, <1>5, <1>6, <1>7, <1>8, <1>9 DEF JobNext, Events

\* A checked archive is registered with its own file, which is whole, whatever
\* fails, comes late or is retried, and however often: registerFile() compares the
\* sum of the file it registers, and nothing writes to the file afterwards. The
\* names in the list are assumed to be different.
THEOREM CheckedStaysWhole ==
  ASSUME DistinctArchives(List)
  PROVE  JobSpec => []CheckedIsWhole
<1>1. JobInit => DownloadInv
  BY DownloadInit
<1>2. DownloadInv /\ [JobNext]_vars => DownloadInv'
  BY DownloadNext
<1>3. DownloadInv => CheckedIsWhole
  BY DEF DownloadInv
<1> QED
  BY <1>1, <1>2, <1>3, PTL DEF JobSpec

-----------------------------------------------------------------------------
(* Types                                                                   *)

\* The queue and the downloader that a handler leaves.
Posts(q, d, list) ==
  /\ q \in Seq(PostedEvents) /\ d \in Downloader \cup {None} /\ list \in Seq(Archives)

LEMMA PostTyped ==
  ASSUME NEW q \in Seq(PostedEvents), NEW e \in PostedEvents
  PROVE  Append(q, e) \in Seq(PostedEvents)
  BY AppendIndices

\* Going on to the next archive keeps the types, whatever is posted.
LEMMA FetchTypes ==
  ASSUME NEW rest, NEW list, Posts(rest, dl, list),
         error \in {"NoError", "Canceled", "DownloadError"}, finished \in BOOLEAN,
         FetchNextArchive(rest, list) \/ FetchNextArchiveHash(rest, list)
  PROVE  /\ Posts(events', dl', toDownload')
         /\ error' \in {"NoError", "Canceled", "DownloadError"} /\ finished' \in BOOLEAN
<1>t. /\ SelfEvent("fetchNextArchiveHash") \in PostedEvents
      /\ SelfEvent("fetchNextArchive") \in PostedEvents
  BY DEF SelfEvent, Event, PostedEvents, EventTypes
<1>1. ASSUME NEW kind \in Kinds, list # <<>>, SetupDownloader(rest, list, kind)
      PROVE  Posts(events', dl', toDownload')
  <2>1. Head(list) \in Archives /\ Tail(list) \in Seq(Archives)
    BY <1>1, HeadTailInSeq DEF Posts
  <2>2. Replaced(rest) \in Seq(PostedEvents)
    <3>1. \A i \in DOMAIN rest : rest[i] \in PostedEvents
      BY ElementOfSeq DEF Posts
    <3>2. Len(rest) \in Nat /\ DOMAIN rest = 1..Len(rest)
      BY LenProperties DEF Posts
    <3>3. \A i \in 1..Len(rest) : Replaced(rest)[i] \in PostedEvents
      BY <3>1, <3>2 DEF Replaced, PostedEvents, EventTypes
    <3>4. Replaced(rest) = [i \in 1..Len(rest) |-> Replaced(rest)[i]]
      BY <3>2 DEF Replaced
    <3> QED
      BY <3>2, <3>3, <3>4, IsASeq
  <2>3. \A f \in Files : New(f) \in Downloader /\ Event("doDownload", f) \in PostedEvents
    BY DEF New, Downloader, Event, PostedEvents, EventTypes
  <2>4. <<Head(list), kind>> \in Files
    BY <1>1, <2>1 DEF Files
  <2>5. /\ Append(Replaced(rest), SelfEvent("fetchNextArchiveHash")) \in Seq(PostedEvents)
        /\ Append(Replaced(rest), Event("doDownload", <<Head(list), kind>>)) \in Seq(PostedEvents)
    BY <1>t, <2>2, <2>3, <2>4, PostTyped
  <2> QED
    BY <1>1, <2>1, <2>3, <2>4, <2>5 DEF SetupDownloader, Posts
<1>2. ASSUME NEW kind \in Kinds, SetupDownloader(rest, list, kind)
      PROVE  UNCHANGED <<finished, error>>
  BY <1>2 DEF SetupDownloader, NotFinished
<1>3. CASE FetchNextArchive(rest, list)
  BY <1>1, <1>2, <1>3 DEF FetchNextArchive, EmitFinished, EmitFinishedWithError, Posts, Kinds
<1>4. CASE FetchNextArchiveHash(rest, list)
  <2>1. Append(rest, SelfEvent("fetchNextArchive")) \in Seq(PostedEvents)
    BY <1>t, PostTyped DEF Posts
  <2>2. CASE list = <<>> \/ (list # <<>> /\ Head(list) \in Checked /\ canceled)
    BY <1>4, <2>2 DEF FetchNextArchiveHash, EmitFinished, EmitFinishedWithError, Posts
  <2>3. CASE list # <<>> /\ Head(list) \notin Checked
    BY <1>4, <2>1, <2>3 DEF FetchNextArchiveHash, NotFinished, Posts
  <2>4. CASE list # <<>> /\ Head(list) \in Checked /\ ~canceled
    <3>1. SetupDownloader(rest, list, "hash") /\ "hash" \in Kinds
      BY <1>4, <2>4 DEF FetchNextArchiveHash, Kinds
    <3> QED
      BY <1>1, <1>2, <2>4, <3>1
  <2> QED
    BY <2>2, <2>3, <2>4
<1> QED
  BY <1>3, <1>4

\* What a downloader, the reply and the network do keeps the types.
LEMMA DownloaderTypes ==
  ASSUME DownloaderTypeOK, dl # None,
         \/ \E content \in {"whole", "bad"} : ReplyFinished(content)
         \/ ReplyFailed \/ (\E last \in BOOLEAN : WriteFailed(last)) \/ DeadlineTimer
  PROVE  DownloaderTypeOK'
<1> USE DEF DownloaderTypeOK
<1>d. dl \in Downloader /\ events \in Seq(PostedEvents)
  BY DEF PostedEvents
<1>e. CompletedEvent \in PostedEvents /\ AbortedEvent \in PostedEvents
  BY <1>d DEF CompletedEvent, AbortedEvent, Event, PostedEvents, EventTypes, Downloader
<1>1. ASSUME NEW content \in {"whole", "bad"}, ReplyFinished(content) PROVE DownloaderTypeOK'
  <2>1. dl' \in Downloader
    <3>1. dl' = [Completed(dl) EXCEPT !.sum = IF dl.dest = "open" THEN content ELSE dl.sum]
      BY <1>1 DEF ReplyFinished
    <3>2. (IF dl.dest = "open" THEN content ELSE dl.sum) \in {"bad", "whole"}
      BY <1>d DEF Downloader
    <3> QED
      BY <1>d, <3>1, <3>2, CompletedIs
  <2>2. events' \in Seq(PostedEvents)
    BY <1>1, <1>d, <1>e DEF ReplyFinished, Post
  <2>3. disk' \in [Files -> {"absent", "bad", "whole"}]
    BY <1>1, <1>d DEF ReplyFinished, Downloader
  <2> QED
    BY <1>1, <2>1, <2>2, <2>3 DEF ReplyFinished, PostedEvents
<1>2. CASE ReplyFailed
  <2>1. dl' \in Downloader
    <3>1. dl' = ShutDownKeepFile(dl) \/ dl' = Failed(dl)
      BY <1>2 DEF ReplyFailed
    <3>2. ShutDownKeepFile(dl) \in Downloader
      BY <1>d DEF ShutDownKeepFile, Downloader
    <3>3. Failed(dl) \in Downloader
      BY <1>d DEF Failed, Downloader
    <3> QED
      BY <3>1, <3>2, <3>3
  <2>2. events' \in Seq(PostedEvents)
    BY <1>2, <1>d, <1>e DEF ReplyFailed, Post
  <2> QED
    BY <1>2, <2>1, <2>2 DEF ReplyFailed, PostedEvents
<1>3. ASSUME NEW last \in BOOLEAN, WriteFailed(last) PROVE DownloaderTypeOK'
  <2>1. dl' \in Downloader
    BY <1>3, <1>d DEF WriteFailed, ShutDown, Completed, Downloader
  <2>2. events' \in Seq(PostedEvents)
    <3>1. <<AbortedEvent>> \o (IF last THEN <<CompletedEvent>> ELSE <<>>) \in Seq(PostedEvents)
      BY <1>e
    <3> QED
      BY <1>3, <1>d, <3>1 DEF WriteFailed, Post
  <2> QED
    BY <1>3, <2>1, <2>2 DEF WriteFailed, PostedEvents
<1>4. CASE DeadlineTimer
  BY <1>4, <1>d DEF DeadlineTimer, Resumed, ShutDownKeepFile, Downloader
<1> QED
  BY <1>1, <1>2, <1>3, <1>4

\* The event of the network coming and going.
LEMMA ReachabilityTypes ==
  ASSUME DownloaderTypeOK, GoOffline \/ GoOnline PROVE DownloaderTypeOK'
<1> USE DEF DownloaderTypeOK
<1>1. CASE GoOffline
  <2>1. dl' \in Downloader \cup {None}
    BY <1>1 DEF GoOffline, ShutDownKeepFile, Downloader
  <2>2. offlines' \in 0..MaxOffline /\ online' \in BOOLEAN
    <3>1. offlines < MaxOffline /\ offlines' = offlines + 1 /\ online' = FALSE
      BY <1>1 DEF GoOffline
    <3>2. offlines \in Nat /\ MaxOffline \in Nat
      BY DownloaderAssumption
    <3>3. offlines + 1 \in 0..MaxOffline
      BY <3>1, <3>2
    <3> QED
      BY <3>1, <3>3
  <2> QED
    BY <1>1, <2>1, <2>2 DEF GoOffline
<1>2. CASE GoOnline
  <2>1. dl' \in Downloader \cup {None}
    BY <1>2 DEF GoOnline, Resumed, Downloader
  <2> QED
    BY <1>2, <2>1 DEF GoOnline
<1> QED
  BY <1>1, <1>2

\* The beginning of a download, of a downloader that was replaced too.
LEMMA DoDownloadTypes ==
  ASSUME DownloaderTypeOK, events # <<>>, DoDownload \/ DoDownloadReplaced
  PROVE  DownloaderTypeOK'
<1> USE DEF DownloaderTypeOK
<1>q. /\ events \in Seq(PostedEvents) /\ Tail(events) \in Seq(PostedEvents)
      /\ Head(events) \in PostedEvents
  BY HeadTailInSeq DEF PostedEvents
<1>1. CASE DoDownload
  <2>d. dl \in Downloader
    BY <1>1 DEF DoDownload
  <2>e. AbortedEvent \in PostedEvents
    BY <2>d DEF AbortedEvent, Event, PostedEvents, EventTypes, Downloader
  <2>1. dl' \in Downloader
    <3>1. \/ dl' = dl
          \/ \E dest \in {"open", "unopened"} :
               dl' = [dl EXCEPT !.http = TRUE, !.dest = dest, !.deadline = TRUE]
          \/ dl' = [ShutDown(dl) EXCEPT !.deadline = TRUE]
      BY <1>1 DEF DoDownload
    <3>2. ShutDown(dl) \in Downloader
      BY <2>d DEF ShutDown, Downloader
    <3>3. ASSUME NEW dest \in {"open", "unopened"}
          PROVE  [dl EXCEPT !.http = TRUE, !.dest = dest, !.deadline = TRUE] \in Downloader
      BY <2>d DEF Downloader
    <3>4. [ShutDown(dl) EXCEPT !.deadline = TRUE] \in Downloader
      BY <3>2 DEF Downloader
    <3> QED
      BY <2>d, <3>1, <3>3, <3>4
  <2>2. events' \in Seq(PostedEvents)
    <3>1. Append(Tail(events), AbortedEvent) \in Seq(PostedEvents)
      BY <1>q, <2>e, PostTyped
    <3> QED
      BY <1>1, <1>q, <3>1 DEF DoDownload
  <2>3. disk' \in [Files -> {"absent", "bad", "whole"}]
    BY <1>1 DEF DoDownload
  <2> QED
    BY <1>1, <2>1, <2>2, <2>3 DEF DoDownload, PostedEvents
<1>2. CASE DoDownloadReplaced
  <2>1. Event("downloadAborted", Head(events).file) \in PostedEvents
    BY <1>q DEF Event, PostedEvents, EventTypes
  <2>2. events' \in Seq(PostedEvents)
    <3>1. Append(Tail(events), Event("downloadAborted", Head(events).file)) \in Seq(PostedEvents)
      BY <1>q, <2>1, PostTyped
    <3> QED
      BY <1>2, <1>q, <3>1 DEF DoDownloadReplaced
  <2> QED
    BY <1>2, <2>2 DEF DoDownloadReplaced, PostedEvents
<1> QED
  BY <1>1, <1>2

LEMMA JobTypeInit == JobInit => JobTypeOK
<1> SUFFICES ASSUME JobInit PROVE JobTypeOK
  OBVIOUS
<1>1. SelfEvent("fetchNextArchiveHash") \in PostedEvents
  BY DEF SelfEvent, Event, PostedEvents, EventTypes
<1>2. events \in Seq(PostedEvents)
  BY <1>1 DEF JobInit, DownloaderInit
<1>3. DownloaderTypeOK
  BY <1>2, DownloaderAssumption DEF JobInit, DownloaderInit, DownloaderTypeOK, PostedEvents
<1>4. toDownload \in Seq(Archives) /\ retryCount \in 0..MaxUInt /\ answers \in 0..MaxAnswers
  BY JobAssumption DEF JobInit
<1>5. boxes \in Seq({"archiveDownloadError", "DownloadError"})
  BY DEF JobInit
<1> QED
  BY <1>3, <1>4, <1>5 DEF JobInit, JobTypeOK

LEMMA JobTypeStep == JobTypeOK /\ [JobNext]_vars => JobTypeOK'
<1> SUFFICES ASSUME JobTypeOK, [JobNext]_vars PROVE JobTypeOK'
  OBVIOUS
<1> USE DEF JobTypeOK
<1>q. events \in Seq(PostedEvents)
  BY DEF DownloaderTypeOK, PostedEvents
<1>b. ASSUME NEW b \in {"archiveDownloadError", "DownloadError"}
      PROVE  Append(boxes, b) \in Seq({"archiveDownloadError", "DownloadError"})
  BY <1>b
<1>p. ASSUME Posts(events', dl', toDownload'), UNCHANGED <<disk, online, offlines>>
      PROVE  DownloaderTypeOK' /\ toDownload' \in Seq(Archives)
  BY <1>p DEF Posts, DownloaderTypeOK, PostedEvents
<1>r. events # <<>> => Posts(Tail(events), dl, toDownload)
  BY <1>q, HeadTailInSeq DEF Posts, DownloaderTypeOK
<1>1. CASE Network
  <2>1. UNCHANGED jobVars
    BY <1>1 DEF Network
  <2>2. DownloaderTypeOK'
    <3>1. CASE GoOffline \/ GoOnline
      BY <3>1, ReachabilityTypes
    <3>2. CASE ~(GoOffline \/ GoOnline)
      <4>1. dl # None
        BY <1>1, <3>2 DEF Network, ReplyFinished, ReplyFailed, WriteFailed, DeadlineTimer
      <4> QED
        BY <1>1, <3>2, <4>1, DownloaderTypes DEF Network
    <3> QED
      BY <3>1, <3>2
  <2> QED
    BY <2>1, <2>2 DEF jobVars
<1>2. CASE FetchHashEvent \/ FetchArchiveEvent
  <2>1. events # <<>>
    BY <1>2 DEF FetchHashEvent, FetchArchiveEvent, Deliver
  <2>2. /\ FetchNextArchive(Tail(events), toDownload) \/ FetchNextArchiveHash(Tail(events), toDownload)
        /\ UNCHANGED <<disk, online, offlines, currentHash, registered, canceled,
                       retryCount, boxes, answers, over, commandLine>>
    BY <1>2 DEF FetchHashEvent, FetchArchiveEvent
  <2> QED
    BY <1>p, <1>r, <2>1, <2>2, FetchTypes
<1>3. CASE DoDownloadEvent
  <2>1. events # <<>> /\ UNCHANGED jobVars
    BY <1>3 DEF DoDownloadEvent, Deliver
  <2>2. DownloaderTypeOK'
    BY <1>3, <2>1, DoDownloadTypes DEF DoDownloadEvent
  <2> QED
    BY <2>1, <2>2 DEF jobVars
<1>4. CASE FinishedHashDownload
  <2>1. /\ events # <<>> /\ dl \in Downloader
        /\ UNCHANGED <<disk, online, offlines, registered, canceled, retryCount, boxes,
                       answers, over, commandLine>>
    BY <1>4 DEF FinishedHashDownload, Deliver, DownloaderTypeOK
  <2>2. currentHash' \in Archives \cup {None}
    BY <1>4, <2>1 DEF FinishedHashDownload, Downloader, Files
  <2>3. /\ Posts(events', dl', toDownload')
        /\ error' \in {"NoError", "Canceled", "DownloadError"} /\ finished' \in BOOLEAN
    BY <1>4, <1>r, <2>1, FetchTypes DEF FinishedHashDownload, EmitFinishedWithError, Posts
  <2> QED
    BY <1>p, <2>1, <2>2, <2>3
<1>5. CASE RegisterFile
  <2>1. /\ events # <<>> /\ dl \in Downloader
        /\ UNCHANGED <<disk, online, offlines, currentHash, canceled, answers, over, commandLine>>
    BY <1>5 DEF RegisterFile, Deliver, DownloaderTypeOK
  <2>2. CASE UNCHANGED <<dl, toDownload, registered, retryCount, finished, error>> /\ events' = Tail(events)
    <3>1. boxes' \in Seq({"archiveDownloadError", "DownloadError"})
      <4>1. boxes' = boxes \/ boxes' = Append(boxes, "DownloadError")
        BY <1>5, <2>2 DEF RegisterFile
      <4> QED
        BY <1>b, <4>1
    <3>2. Posts(events', dl', toDownload')
      BY <1>r, <2>1, <2>2 DEF Posts
    <3> QED
      BY <1>p, <2>1, <2>2, <3>1, <3>2
  <2>3. CASE /\ toDownload # <<>> /\ retryCount' = ScMaxRetries
             /\ registered' = [registered EXCEPT ![Head(toDownload)] =
                                 IF dl.named THEN dl.file ELSE NoName]
             /\ FetchNextArchiveHash(Tail(events), Tail(toDownload)) /\ UNCHANGED boxes
    <3>1. Posts(Tail(events), dl, Tail(toDownload))
      BY <1>r, <2>1, <2>3, HeadTailInSeq DEF Posts
    <3>2. registered' \in [Archives -> Files \cup {NoName, None}]
      BY <2>1, <2>3 DEF Downloader
    <3>3. retryCount' \in 0..MaxUInt
      BY <2>3, JobAssumption
    <3> QED
      BY <1>p, <2>1, <2>3, <3>1, <3>2, <3>3, FetchTypes
  <2> QED
    BY <1>5, <2>2, <2>3 DEF RegisterFile, NotFinished
<1>6. CASE DownloadFailed
  <2>1. /\ events # <<>> /\ events' = Tail(events)
        /\ UNCHANGED <<dl, disk, online, offlines, toDownload, currentHash, registered,
                 canceled, retryCount, error, finished, answers, over, commandLine>>
    BY <1>6 DEF DownloadFailed, Deliver
  <2>2. boxes' \in Seq({"archiveDownloadError", "DownloadError"})
    BY <1>6, <1>b DEF DownloadFailed
  <2>3. Posts(events', dl', toDownload')
    BY <1>r, <2>1 DEF Posts
  <2> QED
    BY <1>p, <2>1, <2>2, <2>3
<1>7. CASE AnswerCancel \/ AnswerRetry
  <2>1. boxes' \in Seq({"archiveDownloadError", "DownloadError"})
    BY <1>7, FrontElements DEF AnswerCancel, AnswerRetry
  <2>2. /\ retryCount' \in 0..MaxUInt /\ answers' \in 0..MaxAnswers
        /\ UNCHANGED <<disk, online, offlines, currentHash, registered, canceled, over, commandLine>>
    BY <1>7, JobAssumption DEF AnswerCancel, AnswerRetry, Decremented, downloaderVars
  <2>3. /\ Posts(events', dl', toDownload')
        /\ error' \in {"NoError", "Canceled", "DownloadError"} /\ finished' \in BOOLEAN
    <3>1. Posts(events, dl, toDownload)
      BY <1>q DEF Posts, DownloaderTypeOK
    <3>2. CASE AnswerCancel
      BY <3>1, <3>2 DEF AnswerCancel, EmitFinishedWithError, downloaderVars, Posts
    <3>3. CASE AnswerRetry
      <4>1. \E isLast \in BOOLEAN : Retry(isLast)
        BY <3>3 DEF AnswerRetry
      <4>2. SelfEvent("fetchNextArchiveHash") \in PostedEvents
        BY DEF SelfEvent, Event, PostedEvents, EventTypes
      <4>3. Append(events, SelfEvent("fetchNextArchiveHash")) \in Seq(PostedEvents)
        BY <1>q, <4>2, AppendProperties
      <4> QED
        BY <3>1, <4>1, <4>3, FetchTypes DEF Retry, EmitFinishedWithError, NotFinished, Posts
    <3> QED
      BY <1>7, <3>2, <3>3
  <2> QED
    BY <1>p, <2>1, <2>2, <2>3
<1>8. CASE Cancel
  <2>1. dl # None => Cancelled(dl) \in Downloader /\ CompletedEvent \in PostedEvents
    BY DEF Cancelled, Completed, CompletedEvent, Event, PostedEvents, EventTypes, Downloader,
           DownloaderTypeOK
  <2>2. Posts(events', dl', toDownload')
    <3>1. toDownload' \in Seq(Archives) /\ dl \in Downloader \cup {None}
      BY <1>8 DEF Cancel, DownloaderTypeOK
    <3>2. dl' \in Downloader \cup {None}
      BY <1>8, <2>1, <3>1 DEF Cancel
    <3>3. events' \in Seq(PostedEvents)
      <4>1. events' = events \/ (dl # None /\ events' = Append(events, CompletedEvent))
        BY <1>8 DEF Cancel
      <4> QED
        BY <1>q, <2>1, <4>1, PostTyped
    <3> QED
      BY <3>1, <3>2, <3>3 DEF Posts
  <2> QED
    BY <1>8, <1>p, <2>2 DEF Cancel
<1>9. CASE Return \/ UNCHANGED vars
  BY <1>9 DEF Return, vars, jobVars, downloaderVars, DownloaderTypeOK
<1> QED
  BY <1>1, <1>2, <1>3, <1>4, <1>5, <1>6, <1>7, <1>8, <1>9 DEF JobNext, Events

LEMMA JobTypeAlways == JobSpec => []JobTypeOK
  BY JobTypeInit, JobTypeStep, PTL DEF JobSpec

\* The job stays within its types, whatever is retried and for any list: what was
\* read from a .sha1 is the sum of an archive or of none, and the counter of retries
\* does not leave the range of an unsigned (DownloadArchivesJob).
THEOREM JobTypeCorrect == JobSpec => []JobTypeOK
  BY JobTypeAlways, PTL

-----------------------------------------------------------------------------
(* Success                                                                 *)

\* An archive is registered, or there is no downloader for it, or it is still to
\* come; a job that ended well has none to come, and a canceled one has an error.
Settled(a) == a \in Unobtainable \/ registered[a] # None \/ a \in ToSet(toDownload)

SuccessInv ==
  /\ JobTypeOK
  /\ \A a \in ToSet(List) : Settled(a)
  /\ finished /\ error = "NoError" => toDownload = <<>>
  /\ canceled => error # "NoError"
  /\ over => finished

\* What is left to download when the next archive is gone on to, and how the job
\* ends there.
LEMMA FetchOutcome ==
  ASSUME NEW rest, NEW list \in Seq(Archives),
         FetchNextArchive(rest, list) \/ FetchNextArchiveHash(rest, list)
  PROVE  /\ \/ toDownload' = list
            \/ list # <<>> /\ toDownload' = Tail(list) /\ Head(list) \in Unobtainable
         /\ \/ UNCHANGED <<finished, error>>
            \/ finished' = TRUE /\ error' = "DownloadError"
            \/ finished' = TRUE /\ error' = error /\ toDownload' = <<>>
         /\ list = <<>> => toDownload' = <<>>
<1>1. ASSUME NEW kind \in Kinds, list # <<>>, SetupDownloader(rest, list, kind)
      PROVE  /\ \/ toDownload' = list
                \/ toDownload' = Tail(list) /\ Head(list) \in Unobtainable
             /\ UNCHANGED <<finished, error>>
  BY <1>1 DEF SetupDownloader, NotFinished
<1>2. CASE FetchNextArchive(rest, list)
  <2>1. CASE canceled \/ list = <<>>
    BY <1>2, <2>1 DEF FetchNextArchive, EmitFinished, EmitFinishedWithError
  <2>2. CASE ~canceled /\ list # <<>>
    <3>1. SetupDownloader(rest, list, "archive") /\ "archive" \in Kinds
      BY <1>2, <2>2 DEF FetchNextArchive, Kinds
    <3> QED
      BY <1>1, <2>2, <3>1
  <2> QED
    BY <2>1, <2>2
<1>3. CASE FetchNextArchiveHash(rest, list)
  <2>1. CASE list = <<>> \/ (list # <<>> /\ Head(list) \in Checked /\ canceled)
    BY <1>3, <2>1 DEF FetchNextArchiveHash, EmitFinished, EmitFinishedWithError
  <2>2. CASE list # <<>> /\ Head(list) \notin Checked
    BY <1>3, <2>2 DEF FetchNextArchiveHash, NotFinished
  <2>3. CASE list # <<>> /\ Head(list) \in Checked /\ ~canceled
    <3>1. SetupDownloader(rest, list, "hash") /\ "hash" \in Kinds
      BY <1>3, <2>3 DEF FetchNextArchiveHash, Kinds
    <3> QED
      BY <1>1, <2>3, <3>1
  <2> QED
    BY <2>1, <2>2, <2>3
<1> QED
  BY <1>2, <1>3

\* A step that goes on from the list as it is, or does not touch it.
LEMMA SettledStep ==
  ASSUME SuccessInv, JobTypeOK',
         \/ UNCHANGED toDownload
         \/ toDownload # <<>> /\ toDownload' = Tail(toDownload) /\ Head(toDownload) \in Unobtainable,
         \/ UNCHANGED <<finished, error>>
         \/ finished' = TRUE /\ error' # "NoError"
         \/ finished' = TRUE /\ error' = error /\ toDownload' = <<>>,
         toDownload = <<>> => toDownload' = <<>>,
         canceled' => canceled \/ error' # "NoError", over' => over \/ finished,
         UNCHANGED registered
  PROVE  SuccessInv'
<1>1. toDownload \in Seq(Archives)
  BY DEF SuccessInv, JobTypeOK
<1>2. \A a \in ToSet(List) : Settled(a)'
  BY <1>1, ToSetHeadTail DEF SuccessInv, Settled
<1> QED
  BY <1>2 DEF SuccessInv

\* registerFile() settles the first archive that is left, and goes on.
LEMMA RegisterSettles ==
  ASSUME SuccessInv, RegisterFile, JobTypeOK' PROVE SuccessInv'
<1>t. /\ toDownload \in Seq(Archives) /\ registered \in [Archives -> Files \cup {NoName, None}]
      /\ dl \in Downloader
  BY DEF SuccessInv, JobTypeOK, DownloaderTypeOK, RegisterFile
<1>1. CASE UNCHANGED <<dl, toDownload, registered, finished, error>>
  BY <1>1, SettledStep DEF RegisterFile
<1>2. CASE /\ toDownload # <<>>
           /\ registered' = [registered EXCEPT ![Head(toDownload)] =
                               IF dl.named THEN dl.file ELSE NoName]
           /\ FetchNextArchiveHash(Tail(events), Tail(toDownload))
  <2>1. Tail(toDownload) \in Seq(Archives) /\ Head(toDownload) \in Archives
    BY <1>t, <1>2, HeadTailInSeq
  <2>2. registered'[Head(toDownload)] # None
    BY <1>t, <1>2, <2>1, JobAssumption DEF Downloader, NoName
  <2>3. \A a \in Archives : registered[a] # None => registered'[a] # None
    BY <1>t, <1>2, <2>1, <2>2
  <2>4. /\ \/ toDownload' = Tail(toDownload)
           \/ /\ Tail(toDownload) # <<>> /\ toDownload' = Tail(Tail(toDownload))
              /\ Head(Tail(toDownload)) \in Unobtainable
        /\ \/ UNCHANGED <<finished, error>>
           \/ finished' = TRUE /\ error' = "DownloadError"
           \/ finished' = TRUE /\ error' = error /\ toDownload' = <<>>
    BY <1>2, <2>1, FetchOutcome
  <2>5. ASSUME NEW a \in ToSet(List) PROVE Settled(a)'
    <3>1. a \in Archives
      BY JobAssumption, ElementOfSeq DEF ToSet
    <3>2. ToSet(toDownload) = {Head(toDownload)} \cup ToSet(Tail(toDownload))
      BY <1>t, <1>2, ToSetHeadTail
    <3>3. Tail(toDownload) # <<>> =>
            ToSet(Tail(toDownload)) = {Head(Tail(toDownload))} \cup ToSet(Tail(Tail(toDownload)))
      BY <2>1, ToSetHeadTail
    <3> QED
      BY <2>2, <2>3, <2>4, <3>1, <3>2, <3>3 DEF SuccessInv, Settled
  <2>6. finished' /\ error' = "NoError" => toDownload' = <<>>
    BY <1>2, <2>4 DEF SuccessInv
  <2>7. (canceled' => error' # "NoError") /\ (over' => finished')
    BY <2>4 DEF SuccessInv, RegisterFile
  <2> QED
    BY <2>5, <2>6, <2>7 DEF SuccessInv
<1> QED
  BY <1>1, <1>2 DEF RegisterFile, NotFinished

LEMMA SuccessInvStep == SuccessInv /\ [JobNext]_vars => SuccessInv'
<1> SUFFICES ASSUME SuccessInv, [JobNext]_vars PROVE SuccessInv'
  OBVIOUS
<1>t. JobTypeOK'
  BY JobTypeStep DEF SuccessInv
<1>l. toDownload \in Seq(Archives)
  BY DEF SuccessInv, JobTypeOK
<1>f. ASSUME NEW rest, FetchNextArchive(rest, toDownload) \/ FetchNextArchiveHash(rest, toDownload),
             UNCHANGED <<registered, canceled, over>>
      PROVE  SuccessInv'
  BY <1>f, <1>l, <1>t, FetchOutcome, SettledStep
<1>1. CASE Network \/ DoDownloadEvent \/ DownloadFailed \/ Return \/ UNCHANGED vars
  <2>1. /\ UNCHANGED <<toDownload, registered, canceled, finished, error>>
        /\ over' => over \/ finished
    <3>1. CASE Network \/ DoDownloadEvent
      BY <3>1 DEF Network, DoDownloadEvent, jobVars
    <3>2. CASE DownloadFailed
      BY <3>2 DEF DownloadFailed
    <3>3. CASE Return
      BY <3>3 DEF Return
    <3>4. CASE UNCHANGED vars
      BY <3>4 DEF vars, jobVars
    <3> QED
      BY <1>1, <3>1, <3>2, <3>3, <3>4
  <2> QED
    BY <1>t, <2>1, SettledStep
<1>2. CASE FetchHashEvent \/ FetchArchiveEvent
  BY <1>2, <1>f DEF FetchHashEvent, FetchArchiveEvent
<1>3. CASE FinishedHashDownload
  <2>1. CASE FetchNextArchive(Tail(events), toDownload)
    BY <1>3, <1>f, <2>1 DEF FinishedHashDownload
  <2>2. CASE EmitFinishedWithError("DownloadError") /\ UNCHANGED toDownload
    BY <1>3, <1>t, <2>2, SettledStep DEF FinishedHashDownload, EmitFinishedWithError
  <2> QED
    BY <1>3, <2>1, <2>2 DEF FinishedHashDownload
<1>4. CASE RegisterFile
  BY <1>4, <1>t, RegisterSettles
<1>5. CASE AnswerCancel
  BY <1>5, <1>t, SettledStep DEF AnswerCancel, EmitFinishedWithError
<1>6. CASE AnswerRetry
  <2>1. UNCHANGED <<registered, canceled, over>>
    BY <1>6 DEF AnswerRetry
  <2>2. \/ EmitFinishedWithError("DownloadError") /\ UNCHANGED toDownload
        \/ FetchNextArchiveHash(events, toDownload)
        \/ NotFinished /\ UNCHANGED toDownload
    BY <1>6 DEF AnswerRetry, Retry
  <2> QED
    BY <1>f, <1>t, <2>1, <2>2, SettledStep DEF EmitFinishedWithError, NotFinished
<1>7. CASE Cancel
  <2>1. /\ finished' = TRUE /\ error' # "NoError" /\ UNCHANGED <<registered, toDownload, over>>
    BY <1>7 DEF Cancel
  <2> QED
    BY <1>t, <2>1, SettledStep
<1> QED
  BY <1>1, <1>2, <1>3, <1>4, <1>5, <1>6, <1>7 DEF JobNext, Events

\* A job that ends without an error has registered all that it could, and was not
\* canceled, through whatever failures, late events and retries, and for any list
\* (DownloadArchivesJob).
THEOREM SuccessIsComplete == JobSpec => []SuccessMeansAll
<1>1. JobInit => SuccessInv
  BY JobTypeInit DEF JobInit, SuccessInv, Settled
<1>2. SuccessInv => SuccessMeansAll
  <2> SUFFICES ASSUME SuccessInv, over, error = "NoError" PROVE SuccessMeansAll
    BY DEF SuccessMeansAll
  <2>1. ToSet(toDownload) = {}
    BY DEF SuccessInv, ToSet
  <2> QED
    BY <2>1 DEF SuccessInv, Settled, SuccessMeansAll
<1> QED
  BY <1>1, <1>2, SuccessInvStep, PTL DEF JobSpec

-----------------------------------------------------------------------------
(* The lock file and the cache of the metadata                             *)

\* What a process has opened to lock, and does not give up, is at the path.
OpenIsNamed ==
  ~slipped => \A p \in Processes \ leaving : handle[p] # 0 => handle[p] = name

LockedIsOpen ==
  /\ locked \cap leaving = {} /\ \A p \in locked : handle[p] # 0

FlockExcludes == \A p, q \in locked : handle[p] = handle[q] => p = q

\* The inductive invariant of LockFile.
LockInv == LockTypeOK /\ OpenIsNamed /\ LockedIsOpen /\ FlockExcludes

\* Nobody has opened anything at first.
LEMMA LockInvInit == LockInit => LockInv
<1> SUFFICES ASSUME LockInit PROVE LockInv
  OBVIOUS
<1>1. LockTypeOK
  <2>1. 0 \in 0..created /\ created \in 0..MaxFiles
    BY LockAssumption DEF LockInit
  <2>2. handle \in [Processes -> 0..created]
    BY <2>1 DEF LockInit
  <2> QED
    BY <2>1, <2>2 DEF LockInit, LockTypeOK
<1>2. OpenIsNamed /\ LockedIsOpen /\ FlockExcludes
  BY DEF LockInit, OpenIsNamed, LockedIsOpen, FlockExcludes
<1> QED
  BY <1>1, <1>2 DEF LockInv

\* The types are kept by every system call of lock() and unlock().
LEMMA LockTypeStep == LockTypeOK /\ [LockNext]_lockVars => LockTypeOK'
<1> SUFFICES ASSUME LockTypeOK, [LockNext]_lockVars PROVE LockTypeOK'
  OBVIOUS
<1> USE DEF LockTypeOK
<1>1. ASSUME NEW p \in Processes, OpenLock(p) PROVE LockTypeOK'
  <2>1. CASE name # 0
    BY <1>1, <2>1 DEF OpenLock
  <2>2. CASE name = 0
    <3>1. created' \in 0..MaxFiles /\ created' > created /\ name' = created'
      BY <1>1, <2>2, LockAssumption DEF OpenLock
    <3>2. handle' \in [Processes -> 0..created']
      BY <1>1, <2>2, <3>1, LockAssumption DEF OpenLock
    <3> QED
      BY <1>1, <3>1, <3>2, LockAssumption DEF OpenLock
  <2> QED
    BY <2>1, <2>2
<1>2. ASSUME NEW p \in Processes, TryLock(p) PROVE LockTypeOK'
  BY <1>2 DEF TryLock, Opened
<1>3. ASSUME NEW p \in Processes, Unlock(p) PROVE LockTypeOK'
  BY <1>3 DEF Unlock
<1>4. ASSUME NEW p \in Processes, Unlink(p) PROVE LockTypeOK'
  BY <1>4 DEF Unlink
<1>5. ASSUME NEW p \in Processes, LockCrash(p) PROVE LockTypeOK'
  BY <1>5 DEF LockCrash
<1>6. CASE UNCHANGED lockVars
  BY <1>6 DEF lockVars
<1> QED
  BY <1>1, <1>2, <1>3, <1>4, <1>5, <1>6 DEF LockNext

\* Each system call keeps the invariant: a new file is only created when there
\* is none at the path, and then nobody has another open.
LEMMA LockInvStep == LockInv /\ [LockNext]_lockVars => LockInv'
<1> SUFFICES ASSUME LockInv, [LockNext]_lockVars PROVE LockInv'
  OBVIOUS
<1>t. LockTypeOK'
  BY LockTypeStep DEF LockInv
<1> SUFFICES OpenIsNamed' /\ LockedIsOpen' /\ FlockExcludes'
  BY <1>t DEF LockInv
<1> USE DEF LockInv, LockTypeOK, OpenIsNamed, LockedIsOpen, FlockExcludes
<1>1. ASSUME NEW p \in Processes, OpenLock(p)
      PROVE  OpenIsNamed' /\ LockedIsOpen' /\ FlockExcludes'
  <2>1. p \notin locked
    BY <1>1 DEF OpenLock
  <2>2. \A q \in locked : handle'[q] = handle[q]
    BY <1>1, <2>1 DEF OpenLock
  <2>3. CASE name # 0
    BY <1>1, <2>1, <2>2, <2>3 DEF OpenLock
  <2>4. CASE name = 0
    <3>1. name' # 0 /\ handle'[p] = name' /\ slipped' = slipped /\ leaving' = leaving
      BY <1>1, <2>4, LockAssumption DEF OpenLock
    <3>2. ~slipped => \A q \in Processes \ leaving : handle[q] = 0
      BY <2>4
    <3>3. OpenIsNamed'
      BY <1>1, <2>4, <3>1, <3>2 DEF OpenLock
    <3> QED
      BY <1>1, <2>1, <2>2, <3>3 DEF OpenLock
  <2> QED
    BY <2>3, <2>4
<1>2. ASSUME NEW p \in Processes, TryLock(p)
      PROVE  OpenIsNamed' /\ LockedIsOpen' /\ FlockExcludes'
  <2>1. CASE \E q \in locked : handle[q] = handle[p]
    BY <1>2, <2>1 DEF TryLock, Opened
  <2>2. CASE ~\E q \in locked : handle[q] = handle[p]
    BY <1>2, <2>2 DEF TryLock, Opened
  <2> QED
    BY <2>1, <2>2
<1>3. ASSUME NEW p \in Processes, Unlock(p)
      PROVE  OpenIsNamed' /\ LockedIsOpen' /\ FlockExcludes'
  BY <1>3 DEF Unlock
<1>4. ASSUME NEW p \in Processes, Unlink(p)
      PROVE  OpenIsNamed' /\ LockedIsOpen' /\ FlockExcludes'
  <2>1. p \notin locked /\ \A q \in locked : handle'[q] = handle[q]
    BY <1>4 DEF Unlink
  <2>2. OpenIsNamed'
    BY <1>4 DEF Unlink
  <2> QED
    BY <1>4, <2>1, <2>2 DEF Unlink
<1>5. ASSUME NEW p \in Processes, LockCrash(p)
      PROVE  OpenIsNamed' /\ LockedIsOpen' /\ FlockExcludes'
  <2>1. \A q \in locked' : handle'[q] = handle[q] /\ q \in locked
    BY <1>5 DEF LockCrash
  <2>2. OpenIsNamed'
    BY <1>5 DEF LockCrash
  <2> QED
    BY <1>5, <2>1, <2>2 DEF LockCrash
<1>6. CASE UNCHANGED lockVars
  BY <1>6 DEF lockVars
<1> QED
  BY <1>1, <1>2, <1>3, <1>4, <1>5, <1>6 DEF LockNext

\* Two owners would have the same file open, which one flock() excludes.
LEMMA LockInvOneOwner == LockInv => OneOwner
  BY DEF LockInv, LockTypeOK, OpenIsNamed, LockedIsOpen, FlockExcludes, OneOwner

\* The lock file lets one process in, whoever uses it in whatever order.
THEOREM LockExcludes == LockSpec => []OneOwner
<1>1. LockInit => LockInv
  BY LockInvInit
<1>2. LockInv /\ [LockNext]_lockVars => LockInv'
  BY LockInvStep
<1>3. LockInv => OneOwner
  BY LockInvOneOwner
<1> QED
  BY <1>1, <1>2, <1>3, PTL DEF LockSpec

-----------------------------------------------------------------------------
(* The cache uses the lock file as it is meant to be used                  *)

\* Every step of a cache is a step of its lock file, or leaves that alone.
LEMMA CacheStepIsLockStep == [CacheNext]_cacheVars => [LockNext]_lockVars
<1> SUFFICES ASSUME [CacheNext]_cacheVars PROVE [LockNext]_lockVars
  OBVIOUS
<1>1. ASSUME NEW p \in Processes,
             Initialize(p) \/ Lock(p) \/ Closed(p) \/ Cleared(p) \/ Left(p) \/ Crash(p)
      PROVE  LockNext
  BY <1>1 DEF Initialize, Lock, Closed, Cleared, Left, Crash, Invalidate, LockNext
<1>2. ASSUME NEW p \in Processes, NEW i \in Items,
             Use(p, i) \/ RemoveItem(p, i) \/ RegisterItem(p, i) \/ ClearItem(p, i)
      PROVE  UNCHANGED lockVars
  BY <1>2 DEF Use, RemoveItem, RegisterItem, ClearItem, Begin
<1>3. ASSUME NEW p \in Processes,
             Load(p) \/ Removed(p) \/ Fails(p) \/ MovePart(p) \/ Moved(p) \/ Synced(p) \/ Clear(p)
             \/ BeginToDisk(p, "sync") \/ BeginToDisk(p, "last")
      PROVE  UNCHANGED lockVars
  BY <1>3 DEF Load, Removed, Fails, MovePart, Moved, Synced, Clear, BeginToDisk
<1>4. CASE UNCHANGED cacheVars
  BY <1>4 DEF cacheVars
<1> QED
  BY <1>1, <1>2, <1>3, <1>4 DEF CacheNext

\* The caches of all processes together implement the lock file's protocol.
THEOREM CacheImplementsLock == CacheSpec => LockSpec
<1>1. CacheInit => LockInit
  BY DEF CacheInit
<1>2. [CacheNext]_cacheVars => [LockNext]_lockVars
  BY CacheStepIsLockStep
<1> QED
  BY <1>1, <1>2, PTL DEF CacheSpec, LockSpec

\* At most one process has the cache directory, unless its lock file was
\* removed when another had opened it.
THEOREM CacheHasOneOwner == CacheSpec => []OneOwner
  BY LockExcludes, CacheImplementsLock, PTL

-----------------------------------------------------------------------------
(* Only an owner changes the directory                                     *)

Manifests == {<<"no">>, <<"cut">>} \cup {<<"of", s>> : s \in SUBSET Items}
Owning == {"load", "valid"} \cup Busy

\* A manifest that names items names items of the cache.
LEMMA ManifestNames ==
  ASSUME manifest \in Manifests, manifest[1] = "of" PROVE manifest[2] \in SUBSET Items
<1>1. <<"no">>[1] = "no" /\ <<"cut">>[1] = "cut"
  OBVIOUS
<1>2. manifest # <<"no">> /\ manifest # <<"cut">>
  BY <1>1
<1>3. PICK s \in SUBSET Items : manifest = <<"of", s>>
  BY <1>2 DEF Manifests
<1> QED
  BY <1>3

\* The types are kept by every step, given those of the lock file.
LEMMA CacheTypeStep ==
  ASSUME CacheTypeOK, [CacheNext]_cacheVars, LockTypeOK'
  PROVE  CacheTypeOK'
<1> USE DEF CacheTypeOK, Phases, Busy, Goes
<1>1. ASSUME NEW p \in Processes, Initialize(p) PROVE CacheTypeOK'
  BY <1>1 DEF Initialize, OpenLock, diskVars
<1>2. ASSUME NEW p \in Processes, Lock(p) PROVE CacheTypeOK'
  BY <1>2 DEF Lock, TryLock, Opened, diskVars
<1>3. ASSUME NEW p \in Processes, Load(p) PROVE CacheTypeOK'
  <2>1. manifest[1] = "of" => manifest[2] \in SUBSET Items
    BY ManifestNames DEF Manifests
  <2>2. items' \in [Processes -> SUBSET Items] /\ \A q \in Processes \ {p} : items'[q] = items[q]
    BY <1>3, <2>1 DEF Load
  <2>3. active[p] = {}
    BY <1>3 DEF Load
  <2> QED
    BY <1>3, <2>2, <2>3 DEF Load, lockVars, diskVars
<1>4. ASSUME NEW p \in Processes, NEW i \in Items, Use(p, i) PROVE CacheTypeOK'
  BY <1>4 DEF Use, lockVars, diskVars
<1>5. ASSUME NEW p \in Processes, NEW i \in Items, RemoveItem(p, i) \/ RegisterItem(p, i)
      PROVE  CacheTypeOK'
  BY <1>5 DEF RemoveItem, RegisterItem, Begin, lockVars
<1>6. ASSUME NEW p \in Processes, NEW i \in Items, ClearItem(p, i) PROVE CacheTypeOK'
  <2>1. items' \in [Processes -> SUBSET Items] /\ active' \in [Processes -> SUBSET Items]
    BY <1>6 DEF ClearItem
  <2>2. dir' \in [Items -> {"none", "part", "whole"}]
    BY <1>6 DEF ClearItem
  <2>3. \A q \in Processes : active'[q] \subseteq items'[q] /\ items'[q] \subseteq items[q]
    BY <1>6 DEF ClearItem
  <2> QED
    BY <1>6, <2>1, <2>2, <2>3 DEF ClearItem, lockVars
<1>7. ASSUME NEW p \in Processes, Removed(p) \/ Fails(p) \/ MovePart(p) PROVE CacheTypeOK'
  BY <1>7 DEF Removed, Fails, MovePart, lockVars, processVars, diskVars
<1>8. ASSUME NEW p \in Processes, Moved(p) PROVE CacheTypeOK'
  BY <1>8 DEF Moved, lockVars
<1>9. ASSUME NEW p \in Processes,
             BeginToDisk(p, "sync") \/ BeginToDisk(p, "last") \/ Synced(p) \/ Clear(p)
      PROVE  CacheTypeOK'
  BY <1>9 DEF BeginToDisk, Synced, Clear, lockVars
<1>10. ASSUME NEW p \in Processes, Closed(p) \/ Cleared(p) PROVE CacheTypeOK'
  BY <1>10 DEF Closed, Cleared, Invalidate, Unlock, diskVars
<1>11. ASSUME NEW p \in Processes, Left(p) PROVE CacheTypeOK'
  BY <1>11 DEF Left, Unlink, diskVars
<1>12. ASSUME NEW p \in Processes, Crash(p) PROVE CacheTypeOK'
  BY <1>12, CacheAssumption DEF Crash, LockCrash, diskVars
<1>13. CASE UNCHANGED cacheVars
  BY <1>13 DEF cacheVars, lockVars, processVars, diskVars
<1> QED
  BY <1>1, <1>2, <1>3, <1>4, <1>5, <1>6, <1>7, <1>8, <1>9, <1>10, <1>11, <1>12, <1>13
     DEF CacheNext

\* An item that is removed or moved in is not in m_items meanwhile.
AtIsOut == \A p \in Processes : phase[p] \in {"removing", "room", "moving"} => at[p] \notin items[p]

\* While clear() runs there is no manifest.
ClearingIsUnnamed == ~slipped => \A p \in Processes : phase[p] = "clearing" => manifest = <<"no">>

\* Without crashes the items of an owner are whole, and so are those of the
\* manifest that the next owner loads.
OwnedIsWhole ==
  crashes = 0 /\ ~slipped =>
    \A p \in Processes : phase[p] \in Busy \cup {"valid"} /\ phase[p] # "clearing" =>
      \A i \in items[p] : dir[i] = "whole"

NamedIsWhole ==
  crashes = 0 /\ ~slipped =>
    (manifest[1] = "of" /\ (\A p \in Processes : phase[p] \notin Busy \cup {"valid"})
       => \A i \in manifest[2] : dir[i] = "whole")

\* The inductive invariant of MetadataCache.
CacheInv == /\ LockInv /\ CacheTypeOK /\ AtIsOut /\ ActiveIsWhole
            /\ ClearingIsUnnamed /\ OwnedIsWhole /\ NamedIsWhole

\* What there is to show of a step besides the types.
DirProperties == AtIsOut /\ ActiveIsWhole /\ ClearingIsUnnamed /\ OwnedIsWhole /\ NamedIsWhole

\* An empty directory that nobody has locked satisfies the invariant.
LEMMA CacheInvInit == CacheInit => CacheInv
<1> SUFFICES ASSUME CacheInit PROVE CacheInv
  OBVIOUS
<1>1. LockInv
  BY LockInvInit DEF CacheInit
<1>2. CacheTypeOK
  BY <1>1, CacheAssumption DEF CacheInit, CacheTypeOK, LockInv, LockInit, Phases, Busy
<1>3. AtIsOut /\ ActiveIsWhole /\ ClearingIsUnnamed /\ OwnedIsWhole /\ NamedIsWhole
  BY DEF CacheInit, AtIsOut, ActiveIsWhole, ClearingIsUnnamed, OwnedIsWhole, NamedIsWhole, Busy
<1> QED
  BY <1>1, <1>2, <1>3 DEF CacheInv

\* The steps of a process that owns the directory: it is the only one, and it
\* changes at most the directory of the item it is at.
LEMMA OneOwning ==
  ASSUME CacheInv, ~slipped, NEW p \in Processes, NEW q \in Processes,
         phase[p] \in Owning, phase[q] \in Owning
  PROVE  p = q
<1>1. p \in locked /\ q \in locked
  BY DEF CacheInv, CacheTypeOK, Owning
<1> QED
  BY <1>1, LockInvOneOwner DEF CacheInv, OneOwner

\* Every step of an owner keeps what is said of the directory; those of the
\* others do not touch it.
LEMMA DirStep == CacheInv /\ [CacheNext]_cacheVars => DirProperties'
<1> SUFFICES ASSUME CacheInv, [CacheNext]_cacheVars PROVE DirProperties'
  OBVIOUS
<1> USE DEF CacheInv, CacheTypeOK, Phases, Busy, Goes, DirProperties, AtIsOut, ActiveIsWhole,
            ClearingIsUnnamed, OwnedIsWhole, NamedIsWhole
<1>o. ~slipped => \A p, q \in Processes : phase[p] \in Owning /\ phase[q] \in Owning => p = q
  BY OneOwning
<1> USE DEF Owning
<1>1. ASSUME NEW p \in Processes, Initialize(p) PROVE DirProperties'
  BY <1>1 DEF Initialize, OpenLock, diskVars
<1>2. ASSUME NEW p \in Processes, Lock(p) PROVE DirProperties'
  BY <1>2 DEF Lock, TryLock, Opened, diskVars
<1>3. ASSUME NEW p \in Processes, Load(p) PROVE DirProperties'
  BY <1>3, <1>o DEF Load, lockVars, diskVars
<1>4. ASSUME NEW p \in Processes, NEW i \in Items, Use(p, i) PROVE DirProperties'
  BY <1>4, <1>o DEF Use, lockVars, diskVars
<1>5. ASSUME NEW p \in Processes, NEW i \in Items, RemoveItem(p, i) \/ RegisterItem(p, i)
      PROVE  DirProperties'
  BY <1>5, <1>o DEF RemoveItem, RegisterItem, Begin, lockVars
<1>6. ASSUME NEW p \in Processes, NEW i \in Items, ClearItem(p, i) PROVE DirProperties'
  BY <1>6, <1>o DEF ClearItem, lockVars
<1>7. ASSUME NEW p \in Processes, Removed(p) PROVE DirProperties'
  BY <1>7, <1>o DEF Removed, lockVars
<1>8. ASSUME NEW p \in Processes, Fails(p) PROVE DirProperties'
  BY <1>8, <1>o DEF Fails, lockVars, diskVars
<1>9. ASSUME NEW p \in Processes, MovePart(p) PROVE DirProperties'
  BY <1>9, <1>o DEF MovePart, lockVars, processVars
<1>10. ASSUME NEW p \in Processes, Moved(p) PROVE DirProperties'
  BY <1>10, <1>o DEF Moved, lockVars
<1>11. ASSUME NEW p \in Processes, BeginToDisk(p, "sync") \/ BeginToDisk(p, "last") \/ Clear(p)
      PROVE  DirProperties'
  BY <1>11, <1>o DEF BeginToDisk, Clear, lockVars
<1>12. ASSUME NEW p \in Processes, Synced(p) PROVE DirProperties'
  BY <1>12, <1>o DEF Synced, lockVars
<1>13. ASSUME NEW p \in Processes, Closed(p) PROVE DirProperties'
  BY <1>13, <1>o DEF Closed, Invalidate, Unlock
<1>14. ASSUME NEW p \in Processes, Cleared(p) PROVE DirProperties'
  BY <1>14, <1>o DEF Cleared, Invalidate, Unlock, diskVars
<1>15. ASSUME NEW p \in Processes, Left(p) PROVE DirProperties'
  <2>1. /\ phase[p] = "leave" /\ phase' = [phase EXCEPT ![p] = "off"]
        /\ UNCHANGED <<at, items, active, diskVars, crashes>>
    BY <1>15 DEF Left
  <2>2. ~slipped' => ~slipped
    BY <1>15 DEF Left, Unlink
  <2>3. \A q \in Processes : phase'[q] = IF q = p THEN "off" ELSE phase[q]
    BY <2>1
  <2> QED
    BY <2>1, <2>2, <2>3 DEF diskVars
<1>16. ASSUME NEW p \in Processes, Crash(p) PROVE DirProperties'
  BY <1>16 DEF Crash, LockCrash, diskVars
<1>17. CASE UNCHANGED cacheVars
  BY <1>17 DEF cacheVars, lockVars, processVars, diskVars
<1> QED
  BY <1>1, <1>2, <1>3, <1>4, <1>5, <1>6, <1>7, <1>8, <1>9, <1>10, <1>11, <1>12, <1>13, <1>14,
     <1>15, <1>16, <1>17 DEF CacheNext

\* The invariant is inductive.
LEMMA CacheInvStep == CacheInv /\ [CacheNext]_cacheVars => CacheInv'
<1> SUFFICES ASSUME CacheInv, [CacheNext]_cacheVars PROVE CacheInv'
  OBVIOUS
<1>1. LockInv'
  BY CacheStepIsLockStep, LockInvStep DEF CacheInv
<1>2. CacheTypeOK'
  BY <1>1, CacheTypeStep DEF CacheInv, LockInv
<1>3. DirProperties'
  BY DirStep
<1> QED
  BY <1>1, <1>2, <1>3 DEF CacheInv, DirProperties

\* The invariant says enough about a directory nobody owns.
LEMMA CacheInvResting == CacheInv => RestingCacheIsWhole
<1> SUFFICES ASSUME CacheInv, locked = {} PROVE RestingCacheIsWhole
  BY DEF RestingCacheIsWhole
<1>1. \A p \in Processes : phase[p] \notin {"load", "valid"} \cup Busy
  BY DEF CacheInv, CacheTypeOK
<1> QED
  BY <1>1 DEF CacheInv, NamedIsWhole, RestingCacheIsWhole

\* The variables have their types, and a process is in the phases of an owner
\* just when it has the lock.
THEOREM CacheTypeCorrect == CacheSpec => []CacheTypeOK
<1>1. CacheInv => CacheTypeOK
  BY DEF CacheInv
<1> QED
  BY <1>1, CacheInvInit, CacheInvStep, PTL DEF CacheSpec

\* No crash, failure or other process makes an item that is in use less than
\* whole, as long as the lock file is not removed under somebody.
THEOREM ActiveStaysWhole == CacheSpec => []ActiveIsWhole
<1>1. CacheInv => ActiveIsWhole
  BY DEF CacheInv
<1> QED
  BY <1>1, CacheInvInit, CacheInvStep, PTL DEF CacheSpec

\* Whatever fails, what a process leaves behind for the next is whole unless
\* one crashed.
THEOREM RestingStaysWhole == CacheSpec => []RestingCacheIsWhole
  BY CacheInvResting, CacheInvInit, CacheInvStep, PTL DEF CacheSpec
==============================================================================
