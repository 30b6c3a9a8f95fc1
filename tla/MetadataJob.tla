----------------------------- MODULE MetadataJob -----------------------------
(***************************************************************************)
(* QInstaller::MetadataJob and its caller: fetchRemotePackagesTree() runs  *)
(* the job once for the repositories and, when that succeeded, once more   *)
(* for the compressed ones, each time waiting in an event loop for the     *)
(* first finished() signal.  The job itself is a chain of tasks in other   *)
(* threads -- Updates.xml downloads, meta archive downloads, one unzip per *)
(* archive, the update of the cache -- whose ends arrive as events, in a   *)
(* later fetch too if nothing stopped the task.                            *)
(*                                                                         *)
(* A repository stands for its Updates.xml, its one meta archive, its      *)
(* Metadata object and its item of the cache.  Temporary directories can   *)
(* be created, allowUnstableComponents() is off, and the events doStart()  *)
(* and the test of an unpacked repository process come after them.         *)
(***************************************************************************)
EXTENDS Naturals, FiniteSets

CONSTANTS
  Default,      \* the default repositories, enabled and valid
  Categorized,  \* those of a category that the user may enable
  Archives,     \* compressed repositories given as files
  WithoutMeta,  \* those whose packages have nothing to fetch but Updates.xml
  KnownSum,     \* those whose Updates.xml checksum is known beforehand
  ChunkSize,    \* m_downloadableChunkSize
  Persistent,   \* settings().persistentLocalCache()
  MaxFetches, MaxCancels, MaxRestarts   \* bounds

Repos == Default \cup Categorized \cup Archives

ASSUME MetadataAssumption ==
  /\ Default \cap Categorized = {} /\ (Default \cup Categorized) \cap Archives = {}
  /\ WithoutMeta \subseteq Repos /\ KnownSum \subseteq Default \cup Categorized
  /\ ChunkSize \in Nat \ {0} /\ Persistent \in BOOLEAN
  /\ {MaxFetches, MaxCancels, MaxRestarts} \subseteq Nat

VARIABLES
  caller,     \* "waiting" in waitForFinished(), or "idle"
  kind,       \* m_downloadType: "all" or "compressed"
  told,       \* what the last call returned: "none" yet, "ok" or "failed"
  starts,     \* queued calls of doStart()
  error,      \* error() of the job
  enabled,    \* the category is enabled
  archives,   \* the archives still enabled
  defaultsFetched, categoryFetched,
  items,      \* m_updatesXmlItems
  xml,        \* m_xmlTask: what it downloads, and whether it was canceled
  xmlResults, \* m_updatesXmlResult
  packages,   \* m_packages
  meta,       \* m_metadataTask
  metaResults,\* m_metadataResult
  unzips,     \* m_unzipTasks: how many run for a repository
  unpacking,  \* m_unzipRepositoryTasks that run
  left,       \* which of these two maps keeps a watcher whose event is over
  fetched,    \* m_fetchedMetadata
  updating,   \* m_updateCacheTask, up to the event of its end
  valid,      \* m_metaFromCache.isValid()
  cache,      \* its items
  active,     \* those with a repository of this program run
  skipped,    \* repositories found unusable when they were last tried
  unpacked,   \* the archives this fetch began with
  tainted,    \* this fetch began amid "tasks" of an earlier one, or the job
              \* may take repositories for fetched that are not ("flags"):
              \* an earlier one ended without a reset()
  undefined,  \* a task uses what another thread has deleted
  fetches, cancels, restarts

callVars == <<caller, kind, told, starts, error>>
choiceVars == <<enabled, archives>>
xmlVars == <<items, xml, xmlResults>>
metaVars == <<packages, meta, metaResults>>
flagVars == <<defaultsFetched, categoryFetched>>
unzipVars == <<unzips, unpacking, left>>
cacheVars == <<valid, cache, active>>
updateVars == <<fetched, updating>>
boundVars == <<fetches, cancels, restarts>>
metadataVars == <<callVars, choiceVars, xmlVars, metaVars, flagVars, unzipVars, cacheVars,
                  updateVars, skipped, unpacked, tainted, undefined, boundVars>>

NoTask == [state |-> "none", of |-> {}]
Task(repos) == [state |-> "running", of |-> repos]
Tasks == [state : {"none", "running", "canceled"}, of : SUBSET Repos]
None == [r \in Repos |-> 0]

MetadataTypeOK ==
  /\ caller \in {"idle", "waiting"} /\ kind \in {"all", "compressed"}
  /\ told \in {"none", "ok", "failed"} /\ starts \in 0..(2 * MaxFetches + MaxRestarts)
  /\ error \in {"none", "canceled", "download", "extraction", "cache"}
  /\ {enabled, defaultsFetched, valid, undefined} \subseteq BOOLEAN
  /\ {archives, unpacked, unpacking} \subseteq SUBSET Archives
  /\ categoryFetched \subseteq Categorized /\ skipped \subseteq Repos
  /\ {items, xmlResults, packages, metaResults, fetched, cache} \subseteq SUBSET Repos
  /\ active \subseteq cache
  /\ xml \in Tasks /\ meta \in Tasks
  /\ unzips \in [Repos -> Nat] /\ left \subseteq {"unzip", "unpack"}
  /\ updating \in {"none", "running", "registered", "failed"}
  /\ tainted \subseteq {"tasks", "flags"}
  /\ fetches \in 0..MaxFetches /\ cancels \in 0..MaxCancels /\ restarts \in 0..MaxRestarts

MetadataInit ==
  /\ caller = "idle" /\ kind = "all" /\ told = "none" /\ starts = 0 /\ error = "none"
  /\ enabled = FALSE /\ archives = Archives
  /\ defaultsFetched = FALSE /\ categoryFetched = {}
  /\ items = {} /\ xml = NoTask /\ xmlResults = {}
  /\ packages = {} /\ meta = NoTask /\ metaResults = {}
  /\ unzips = None /\ unpacking = {} /\ left = {}
  /\ fetched = {} /\ updating = "none" /\ valid = FALSE /\ active = {}
  /\ cache \in SUBSET (Default \cup Categorized)   \* cached by an earlier run
  /\ skipped = {} /\ unpacked = {} /\ tainted = {} /\ undefined = FALSE
  /\ fetches = 0 /\ cancels = 0 /\ restarts = 0

-----------------------------------------------------------------------------
(* Parts of several handlers                                               *)

\* emitFinished() with this error, where "starts" calls of doStart() are left:
\* a caller that waits fetches the compressed repositories next, or returns.
Finish(e, queued) ==
  LET more == caller = "waiting" /\ e = "none" /\ kind = "all"
  IN /\ error' = e
     /\ kind' = IF more THEN "compressed" ELSE kind
     /\ starts' = IF more THEN queued + 1 ELSE queued
     /\ caller' = IF more THEN caller ELSE "idle"
     /\ told' = IF caller = "idle" \/ more THEN told
                ELSE IF e = "none" THEN "ok" ELSE "failed"

Canceled(task) == IF task.state = "running" THEN [task EXCEPT !.state = "canceled"] ELSE task

\* qDeleteAll(m_fetchedMetadata) while UpdateCacheTask goes through it
DeletesInUse == updating = "running" /\ fetched # {}

\* Mutation: the default repositories still count as fetched.
ResetKeepsDefaults(xmlOver, metaOver) ==
  /\ items' = {} /\ xmlResults' = {} /\ packages' = {} /\ metaResults' = {}
  /\ categoryFetched' = {} /\ UNCHANGED defaultsFetched
  /\ xml' = IF xmlOver THEN NoTask ELSE Canceled(xml)
  /\ meta' = IF metaOver THEN NoTask ELSE Canceled(meta)
  /\ fetched' = {} /\ undefined' = DeletesInUse

\* reset(): the two downloads are stopped (their ends still arrive) unless this
\* is the handler of their end; unzip and cache tasks go on.
Reset(xmlOver, metaOver) ==
  /\ items' = {} /\ xmlResults' = {} /\ packages' = {} /\ metaResults' = {}
  /\ categoryFetched' = {} /\ defaultsFetched' = FALSE
  /\ xml' = IF xmlOver THEN NoTask ELSE Canceled(xml)
  /\ meta' = IF metaOver THEN NoTask ELSE Canceled(meta)
  /\ fetched' = {} /\ undefined' = DeletesInUse

\* reset() and emitFinishedWithError()
Fail(e, xmlOver, metaOver) ==
  /\ Reset(xmlOver, metaOver) /\ Finish(e, starts) /\ tainted' = tainted \ {"flags"}
  /\ UNCHANGED <<choiceVars, cacheVars, updating, skipped, unpacked, boundVars>>

\* The next chunk of a list, any of its elements for a set.
Chunks(list) == {c \in SUBSET list : Cardinality(c) =
                   IF Cardinality(list) < ChunkSize THEN Cardinality(list) ELSE ChunkSize}

\* startXMLTask() and fetchMetaDataPackages() with these lists
StartXml(list) ==
  \E chunk \in Chunks(list) : xml' = Task(chunk) /\ items' = list \ chunk

StartMeta(list) ==
  \E chunk \in Chunks(list) : meta' = Task(chunk) /\ packages' = list \ chunk

\* Mutation: no task when nothing is fetched yet.
StartUpdateForNew ==
  /\ updating' = IF fetched = {} THEN updating ELSE "running"
  /\ undefined' = (updating = "running" /\ fetched # {})

\* startUpdateCacheTask(): a second task would change the same hash.
StartUpdate ==
  /\ updating' = "running" /\ undefined' = (updating = "running" /\ fetched # {})

\* Nothing of a fetch is under way or left in the way of the next.
AtRest == /\ xml = NoTask /\ meta = NoTask /\ unzips = None /\ unpacking = {}
          /\ "unzip" \notin left /\ updating = "none"

\* Nothing of an earlier fetch is known to the job.
AsNew == ~defaultsFetched /\ categoryFetched = {} /\ fetched = {}

-----------------------------------------------------------------------------
(* The caller                                                              *)

\* fetchRemotePackagesTree(), the category enabled before or now
FetchAll ==
  /\ caller = "idle" /\ fetches < MaxFetches
  /\ caller' = "waiting" /\ kind' = "all" /\ told' = "none" /\ starts' = starts + 1
  /\ enabled' \in {enabled, TRUE} /\ fetches' = fetches + 1
  /\ tainted' = IF ~(AtRest /\ starts = 0) THEN (tainted \cap {"flags"}) \cup {"tasks"}
                ELSE IF "tasks" \in tainted /\ ~AsNew THEN {"flags"}
                ELSE tainted \cap {"flags"}
  /\ UNCHANGED <<error, archives, xmlVars, metaVars, flagVars, unzipVars, cacheVars,
                 updateVars, skipped, unpacked, undefined, cancels, restarts>>

\* cancelMetaInfoJob(), by the user, a script or changed network settings:
\* doCancel() resets the job and the cache, which is invalid from then on;
\* what is not persistent is deleted.
Cancel ==
  /\ cancels < MaxCancels /\ cancels' = cancels + 1
  /\ Reset(FALSE, FALSE) /\ tainted' = tainted \ {"flags"}
  /\ valid' = FALSE /\ active' = {}
  /\ cache' = IF Persistent \/ ~valid THEN cache ELSE {}
  /\ error' = "canceled" /\ caller' = "idle"
  /\ told' = IF caller = "waiting" THEN "failed" ELSE "none"
  /\ UNCHANGED <<kind, starts, choiceVars, updating, unzipVars, skipped, unpacked,
                 fetches, restarts>>

-----------------------------------------------------------------------------
(* doStart()                                                               *)

Wanted == (IF defaultsFetched THEN {} ELSE Default)
          \cup (IF enabled THEN Categorized \ categoryFetched ELSE {})

StartFailed ==
  /\ starts > 0 /\ ~valid
  /\ Finish("cache", starts - 1) /\ metaResults' = {}
  /\ UNCHANGED <<choiceVars, xmlVars, packages, meta, flagVars, unzipVars, cacheVars,
                 updateVars, skipped, unpacked, tainted, undefined, boundVars>>

\* Valid items of a known checksum are in use again at once, broken ones are
\* removed, and the repositories without one are downloaded.
StartAll ==
  /\ starts > 0 /\ kind = "all" /\ valid' = TRUE
  /\ \E hit \in SUBSET (Wanted \cap cache \cap KnownSum) :
       LET broken == (Wanted \ hit) \cap KnownSum
           list == items \cup (Wanted \ hit)
       IN /\ cache' = cache \ broken /\ active' = (active \ broken) \cup hit
          /\ categoryFetched' = categoryFetched \cup (hit \cap Categorized)
          /\ IF list = {} THEN Finish("none", starts - 1) /\ UNCHANGED <<items, xml>>
             ELSE /\ StartXml(list) /\ error' = "none" /\ starts' = starts - 1
                  /\ UNCHANGED <<caller, kind, told>>
  /\ defaultsFetched' = TRUE /\ metaResults' = {} /\ skipped' = skipped \ Wanted
  /\ UNCHANGED <<choiceVars, xmlResults, packages, meta, unzipVars, updateVars,
                 unpacked, tainted, undefined, boundVars>>

\* A cached Updates.xml has a RepositoryUpdate for the default repositories:
\* what was fetched is forgotten and doStart() queued once more.
StartRestarts ==
  /\ starts > 0 /\ kind = "all" /\ valid' = TRUE
  /\ restarts < MaxRestarts /\ restarts' = restarts + 1
  /\ \E r \in Wanted \cap cache \cap KnownSum, hit, list \in SUBSET Wanted :
       /\ hit \subseteq cache \cap KnownSum /\ hit \cap list = {}
       /\ cache' = cache \ {r} /\ active' = {}   \* its Updates.xml is removed
       /\ items' = items \cup (list \ {r})
       /\ categoryFetched' = categoryFetched \cup ((hit \cup {r}) \cap Categorized)
  /\ defaultsFetched' = FALSE /\ fetched' = {} /\ undefined' = DeletesInUse
  /\ tainted' = IF categoryFetched' = {} THEN tainted ELSE tainted \cup {"flags"}
  /\ error' = "none" /\ metaResults' = {}
  /\ UNCHANGED <<caller, kind, told, starts, choiceVars, xml, xmlResults, packages, meta,
                 unzipVars, updating, skipped, unpacked, fetches, cancels>>

\* resetCompressedFetch() deletes the tasks that still run, and each archive is
\* unpacked, once.
StartCompressed ==
  /\ starts > 0 /\ kind = "compressed" /\ valid' = TRUE
  /\ undefined' = (unzips # None \/ unpacking # {})
  /\ unzips' = None /\ left' = {}
  /\ unpacking' = archives /\ unpacked' = archives /\ archives' = {}
  /\ IF archives = {} THEN Finish("none", starts - 1)
     ELSE error' = "none" /\ starts' = starts - 1 /\ UNCHANGED <<caller, kind, told>>
  /\ metaResults' = {} /\ UNCHANGED <<enabled, xmlVars, packages, meta, flagVars, cache,
                                    active, updateVars, skipped, tainted, boundVars>>

-----------------------------------------------------------------------------
(* xmlTaskFinished()                                                       *)

XmlNext ==
  /\ xml.state # "none" /\ items # {} /\ StartXml(items)
  /\ xmlResults' = IF xml.state = "running" THEN xmlResults \cup xml.of ELSE xmlResults
  /\ UNCHANGED <<callVars, choiceVars, metaVars, flagVars, unzipVars, cacheVars, updateVars,
                 skipped, unpacked, tainted, undefined, boundVars>>

\* After an error, a cancel too, the results are thrown away.
XmlDropped ==
  /\ xml.state # "none" /\ items = {} /\ error # "none"
  /\ xml' = NoTask /\ xmlResults' = {}
  /\ UNCHANGED <<callVars, choiceVars, items, metaVars, flagVars, unzipVars, cacheVars,
                 updateVars, skipped, unpacked, tainted, undefined, boundVars>>

\* parseUpdatesXml() over all results: unusable repositories are left out,
\* valid items of the cache are in use again, the others are fetched.
XmlParsed ==
  /\ xml.state # "none" /\ items = {} /\ error = "none"
  /\ LET results == xmlResults \cup (IF xml.state = "running" THEN xml.of ELSE {})
     IN \E bad \in SUBSET results :
        \E hit \in SUBSET ((results \ bad) \cap (IF valid THEN cache ELSE {})) :
          LET new == results \ (bad \cup hit)
          IN /\ hit \cap Archives = {} /\ skipped' = (skipped \ results) \cup bad
             /\ cache' = cache \ new /\ active' = (active \ new) \cup hit
             /\ fetched' = fetched \cup new
             /\ categoryFetched' = categoryFetched \cup ((hit \cup new) \cap Categorized)
             /\ LET list == packages \cup (new \ WithoutMeta)
                IN IF list = {} THEN StartUpdate /\ UNCHANGED <<packages, meta>>
                   ELSE StartMeta(list) /\ UNCHANGED <<updating, undefined>>
  /\ xml' = NoTask /\ xmlResults' = {}
  /\ UNCHANGED <<callVars, choiceVars, items, metaResults, defaultsFetched, unzipVars, valid,
                 unpacked, tainted, boundVars>>

\* A download or a file failed, or nobody gave credentials; told after a cancel,
\* too, if the exception was there before it.
XmlFails ==
  /\ xml.state # "none"
  /\ Fail("download", TRUE, FALSE) /\ UNCHANGED unzipVars

\* New credentials, or a RepositoryUpdate, which takes the repository of every
\* cached item away; doStart() in the compressed fetch brings none back.
XmlRestarts ==
  /\ xml.state = "running" /\ error = "none"
  /\ restarts < MaxRestarts /\ restarts' = restarts + 1
  /\ Reset(TRUE, FALSE) /\ starts' = starts + 1
  /\ \/ kind = "all" /\ UNCHANGED active /\ tainted' = tainted \ {"flags"}
     \/ /\ items = {} /\ active' = {}
        /\ tainted' = IF kind = "all" THEN tainted \ {"flags"} ELSE tainted \cup {"flags"}
  /\ UNCHANGED <<caller, kind, told, error, choiceVars, unzipVars, valid, cache, updating,
                 skipped, unpacked, fetches, cancels>>

-----------------------------------------------------------------------------
(* metadataTaskFinished(), which asks for no error()                       *)

MetaNext ==
  /\ meta.state # "none" /\ packages # {} /\ StartMeta(packages)
  /\ metaResults' = metaResults \cup (IF meta.state = "running" THEN meta.of ELSE {})
  /\ UNCHANGED <<callVars, choiceVars, xmlVars, flagVars, unzipVars, cacheVars, updateVars,
                 skipped, unpacked, tainted, undefined, boundVars>>

\* Each archive is unzipped by a task of its own.
MetaFetched ==
  /\ meta.state # "none" /\ packages = {}
  /\ \E got \in SUBSET meta.of :
       /\ meta.state = "running" => got = meta.of
       /\ metaResults' = metaResults \cup got
       /\ unzips' = [r \in Repos |-> IF r \in metaResults' THEN unzips[r] + 1 ELSE unzips[r]]
       /\ IF unzips' = None /\ "unzip" \notin left THEN StartUpdate
          ELSE UNCHANGED <<updating, undefined>>
  /\ meta' = NoTask
  /\ UNCHANGED <<callVars, choiceVars, xmlVars, packages, flagVars, unpacking, left, cacheVars,
                 fetched, skipped, unpacked, tainted, boundVars>>

\* The download fails, or an archive has a wrong checksum when some before it
\* are unzipped already.
MetaFails ==
  /\ meta.state # "none"
  /\ \E begun \in SUBSET (metaResults \cup meta.of) :
       /\ begun # {} => packages = {} /\ begun # metaResults \cup meta.of
       /\ unzips' = [r \in Repos |-> IF r \in begun THEN unzips[r] + 1 ELSE unzips[r]]
  /\ Reset(FALSE, TRUE) /\ Finish("download", starts) /\ tainted' = tainted \ {"flags"}
  /\ UNCHANGED <<choiceVars, unpacking, left, cacheVars, updating, skipped, unpacked, boundVars>>

-----------------------------------------------------------------------------
(* unzipTaskFinished(), unzipRepositoryTaskFinished()                      *)

\* Mutation: the first archive that is unzipped starts the update.
UnzippedAtOnce(r) ==
  /\ unzips[r] > 0 /\ unzips' = [unzips EXCEPT ![r] = @ - 1]
  /\ IF error # "none" THEN left' = left \cup {"unzip"} /\ UNCHANGED <<updating, undefined>>
     ELSE UNCHANGED left /\ StartUpdate
  /\ UNCHANGED <<callVars, choiceVars, xmlVars, metaVars, flagVars, unpacking, cacheVars,
                 fetched, skipped, unpacked, tainted, boundVars>>

\* The last one starts the update.  After an error its watcher stays.
Unzipped(r) ==
  /\ unzips[r] > 0 /\ unzips' = [unzips EXCEPT ![r] = @ - 1]
  /\ IF error # "none" THEN left' = left \cup {"unzip"} /\ UNCHANGED <<updating, undefined>>
     ELSE /\ UNCHANGED left
          /\ IF unzips' = None /\ "unzip" \notin left THEN StartUpdate
             ELSE UNCHANGED <<updating, undefined>>
  /\ UNCHANGED <<callVars, choiceVars, xmlVars, metaVars, flagVars, unpacking, cacheVars,
                 fetched, skipped, unpacked, tainted, boundVars>>

\* An error without a reset(): what this fetch found still counts as fetched.
UnzipFails(r) ==
  /\ unzips[r] > 0 /\ unzips' = [unzips EXCEPT ![r] = @ - 1]
  /\ left' = left \cup {"unzip"} /\ Finish("extraction", starts)
  /\ tainted' = tainted \cup {"flags"}
  /\ UNCHANGED <<choiceVars, xmlVars, metaVars, flagVars, unpacking, cacheVars, updateVars,
                 skipped, unpacked, undefined, boundVars>>

\* An archive is unpacked; its Updates.xml is read with those of the others.
\* The error of an unusable one is reported at once unless the reading begins.
Unpacked(a, usable) ==
  LET list == IF usable THEN items \cup {a} ELSE items
  IN /\ a \in unpacking /\ unpacking' = unpacking \ {a}
     /\ skipped' = IF usable THEN skipped \ {a} ELSE skipped \cup {a}
     /\ IF list # {} /\ unpacking' = {} /\ "unpack" \notin left
        THEN StartXml(list) /\ UNCHANGED callVars
        ELSE /\ items' = list /\ UNCHANGED xml
             /\ IF usable THEN UNCHANGED callVars ELSE Finish("download", starts)
     /\ UNCHANGED <<choiceVars, xmlResults, metaVars, flagVars, unzips, left, cacheVars,
                    updateVars, unpacked, tainted, undefined, boundVars>>

UnpackFails(a) ==
  /\ a \in unpacking /\ unpacking' = unpacking \ {a} /\ left' = left \cup {"unpack"}
  /\ UNCHANGED unzips /\ Fail("extraction", FALSE, FALSE)

-----------------------------------------------------------------------------
(* UpdateCacheTask and updateCacheTaskFinished()                           *)

\* Mutation: items in use may be removed, too.
ObsoleteOrUsed(used) == cache

\* obsoleteItems() is among these: another item has the repository's path.
ObsoleteItems(used) == cache \ used

UpdateRuns ==
  /\ updating = "running"
  /\ \/ /\ valid /\ updating' = "registered" /\ fetched' = {}
        /\ active' = active \cup fetched
        /\ \E obsolete \in SUBSET ObsoleteItems(active') :
             cache' = (cache \cup fetched) \ obsolete
     \/ /\ updating' = "failed"
        /\ \E part \in SUBSET (IF valid THEN fetched ELSE {}) :
             /\ cache' = cache \cup part /\ active' = active \cup part
             /\ fetched' = fetched \ part
  /\ UNCHANGED <<callVars, choiceVars, xmlVars, metaVars, flagVars, unzipVars, valid, skipped,
                 unpacked, tainted, undefined, boundVars>>

UpdateEnds ==
  /\ updating \in {"registered", "failed"} /\ updating' = "none"
  /\ IF updating = "failed"
     THEN Finish("cache", starts) /\ tainted' = tainted \cup {"flags"}
     ELSE /\ IF error = "none" THEN Finish("none", starts) ELSE UNCHANGED callVars
          /\ UNCHANGED tainted
  /\ UNCHANGED <<choiceVars, xmlVars, metaVars, flagVars, unzipVars, cacheVars, fetched,
                 skipped, unpacked, undefined, boundVars>>

-----------------------------------------------------------------------------
Start == StartFailed \/ StartAll \/ StartRestarts \/ StartCompressed
XmlEnds == XmlNext \/ XmlDropped \/ XmlParsed \/ XmlFails \/ XmlRestarts
MetaEnds == MetaNext \/ MetaFetched \/ MetaFails
UnzipEnds(r) == Unzipped(r) \/ UnzipFails(r)
UnpackEnds(a) == (\E usable \in BOOLEAN : Unpacked(a, usable)) \/ UnpackFails(a)

\* Nothing is said of a run once it uses what is deleted.
MetadataNext ==
  /\ ~undefined
  /\ \/ FetchAll \/ Cancel \/ Start \/ XmlEnds \/ MetaEnds
     \/ \E r \in Repos : UnzipEnds(r)
     \/ \E a \in Archives : UnpackEnds(a)
     \/ UpdateRuns \/ UpdateEnds

\* Tasks end, and the event loop that the caller waits in delivers each event.
MetadataFairness ==
  /\ WF_metadataVars(~undefined /\ Start) /\ WF_metadataVars(~undefined /\ XmlEnds)
  /\ WF_metadataVars(~undefined /\ MetaEnds)
  /\ \A r \in Repos : WF_metadataVars(~undefined /\ UnzipEnds(r))
  /\ \A a \in Archives : WF_metadataVars(~undefined /\ UnpackEnds(a))
  /\ WF_metadataVars(~undefined /\ UpdateRuns) /\ WF_metadataVars(~undefined /\ UpdateEnds)

MetadataSpec == MetadataInit /\ [][MetadataNext]_metadataVars /\ MetadataFairness

-----------------------------------------------------------------------------
(* What a fetch promises                                                   *)

\* A successful fetch leaves every repository that can be used in use, those of
\* the cache and the restarted ones too (getRepositories() leaves out what it
\* takes for fetched), if it did not begin amid what an earlier one left.  And
\* it leaves nothing for a later one: no task, no list, no watcher.
SuccessMeansFetched ==
  caller = "idle" /\ told = "ok" /\ tainted = {} /\ ~undefined
    => /\ (Default \cup (IF enabled THEN Categorized ELSE {}) \cup unpacked) \ skipped
            \subseteq active
       /\ AtRest /\ items = {} /\ packages = {} /\ fetched = {}

\* Only a cancel can delete what a task of another thread uses: no error of a
\* fetch does (reset() deletes m_fetchedMetadata, doStart() the tasks).
DeletedInUseAfterCancel == undefined => cancels > 0 \/ tainted # {}

\* The caller's event loop ends: some task's end reports finished().
FetchEnds == (caller = "waiting" /\ "tasks" \notin tainted) ~> (caller = "idle" \/ undefined)

\* "The repository update may have removed or replaced current repositories,
\* clear repository information from cached items and refresh on next fetch
\* run": the fetch that follows brings the default repositories back.
RefreshedAfterUpdate ==
  caller = "idle" /\ told = "ok" /\ "tasks" \notin tainted /\ cancels = 0 /\ fetches = 1
    => Default \ skipped \subseteq active

\* "In the first run, get always the default repositories" (metadatajob.cpp:1016) and
\* "If repository is already fetched, do not fetch it again" (1023): what a later
\* fetch leaves out for this reason is in use when it succeeds.
FetchedIsInUse ==
  caller = "idle" /\ told = "ok" /\ "tasks" \notin tainted
    => (Default \cup (IF enabled THEN Categorized ELSE {})) \ skipped \subseteq active
==============================================================================
