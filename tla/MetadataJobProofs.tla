------------------------- MODULE MetadataJobProofs -------------------------
(***************************************************************************)
(* Proofs about MetadataJob, for any repositories and any number of        *)
(* fetches, cancels and restarts.                                          *)
(*                                                                         *)
(* The stages: unless a fetch begins amid what an earlier one left, it is  *)
(* in exactly one stage -- doStart() queued, Updates.xml files, archives,  *)
(* unzips, the update of the cache, unpacked archives -- and nothing of    *)
(* another stage runs; or it is dead: an error has ended it, and what      *)
(* still runs can begin nothing.  So no error deletes what a task uses.    *)
(*                                                                         *)
(* The repositories: in each stage every repository that is wanted, and    *)
(* every one that the job takes for fetched, is in a list of that stage,   *)
(* in use, or left out as unusable.                                        *)
(***************************************************************************)
EXTENDS MetadataJob, TLAPS

\* A list is kept only while a task works it off.
ListsHaveTasks ==
  /\ packages # {} => meta.state # "none"
  /\ xmlResults # {} => xml.state # "none"

\* Each fetch queues doStart() twice at most, each restart once.
StartsBounded ==
  starts + (IF caller = "waiting" /\ kind = "all" THEN 1 ELSE 0) <= 2 * fetches + restarts

-----------------------------------------------------------------------------
(* The stages of a fetch, with or without a caller that waits for it       *)

NoTasks == meta = NoTask /\ unzips = None /\ updating = "none"

Resting ==   \* before the first fetch, and after a successful one
  starts = 0 /\ caller = "idle" /\ xml = NoTask /\ NoTasks /\ unpacking = {} /\ items = {}
Starting ==  \* doStart() is queued
  /\ starts = 1 /\ told # "ok" /\ xml = NoTask /\ NoTasks /\ unpacking = {}
  /\ kind = "compressed" => items = {}
AtWork == starts = 0 /\ told # "ok" /\ error = "none"
Reading == AtWork /\ xml.state = "running" /\ NoTasks /\ unpacking = {}
Getting ==   \* the meta archives
  /\ AtWork /\ xml = NoTask /\ meta.state = "running" /\ unzips = None /\ updating = "none"
  /\ unpacking = {} /\ items = {}
Unzipping ==
  /\ AtWork /\ xml = NoTask /\ meta = NoTask /\ unzips # None /\ updating = "none"
  /\ unpacking = {} /\ items = {}
Updating ==
  /\ AtWork /\ xml = NoTask /\ meta = NoTask /\ unzips = None /\ updating # "none"
  /\ unpacking = {} /\ items = {}
Unpacking ==
  /\ AtWork /\ xml = NoTask /\ NoTasks /\ unpacking # {} /\ items \subseteq Archives
  /\ kind = "compressed" /\ "unpack" \notin left

Live ==
  /\ "unzip" \notin left
  /\ Resting \/ Starting \/ Reading \/ Getting \/ Unzipping \/ Updating \/ Unpacking

\* An error ended the fetch: what still runs cannot begin anything new, except
\* after a cancel, which does not stop the tasks.
Dead ==
  /\ starts = 0 /\ error # "none" /\ caller = "idle" /\ told # "ok"
  /\ cancels = 0 => meta = NoTask /\ updating = "none"

-----------------------------------------------------------------------------
(* No repository is lost on the way                                        *)

\* Where a repository is from doStart() until it is in use or left out.
Pipe == active \cup skipped
        \cup (IF AtWork THEN items \cup xml.of \cup xmlResults \cup fetched ELSE {})

\* What the job takes for fetched is on the way or there.
FlagsTrue == (defaultsFetched => Default \subseteq Pipe) /\ categoryFetched \subseteq Pipe

\* The job keeps metadata only from the parsing to the end of the update.
FetchedKept ==
  fetched # {}
    => AtWork /\ (meta.state = "running" \/ unzips # None \/ updating \in {"running", "failed"})

\* What the caller waits for, from doStart() on.
Covered ==
  /\ ~(Starting /\ kind = "all")
       => Default \cup (IF enabled THEN Categorized ELSE {}) \subseteq Pipe
  /\ kind = "compressed" /\ ~Starting => unpacked \subseteq Pipe \cup unpacking

NothingLost ==
  /\ FlagsTrue /\ FetchedKept
  /\ caller = "waiting" \/ told = "ok" => Covered

-----------------------------------------------------------------------------
\* What holds of every fetch, amid tasks of another or not.
AlwaysInv == MetadataTypeOK /\ ListsHaveTasks /\ StartsBounded

\* A fetch that did not begin amid such tasks.
StagesOK == (Live \/ Dead) /\ (told = "ok" => Resting /\ kind = "compressed")
StageInv ==
  /\ undefined => cancels > 0 \/ "tasks" \in tainted
  /\ ~undefined /\ "tasks" \notin tainted => StagesOK

\* The inductive invariant.
MetadataInv == AlwaysInv /\ StageInv /\ (~undefined /\ tainted = {} => NothingLost)

-----------------------------------------------------------------------------
\* What the job starts with satisfies the invariant.
LEMMA MetadataInvInit == MetadataInit => MetadataInv
<1> SUFFICES ASSUME MetadataInit PROVE MetadataInv
  OBVIOUS
<1> USE MetadataAssumption DEF MetadataInit
<1>1. MetadataTypeOK
  <2>1. NoTask \in Tasks /\ None \in [Repos -> Nat]
    BY DEF Tasks, NoTask, None
  <2>2. cache \subseteq Repos
    BY DEF Repos
  <2>3. {items, xmlResults, packages, metaResults, fetched, cache} \subseteq SUBSET Repos
    BY <2>2
  <2>4. /\ {enabled, defaultsFetched, valid, undefined} \subseteq BOOLEAN
        /\ {archives, unpacked, unpacking} \subseteq SUBSET Archives
        /\ active \subseteq cache
    OBVIOUS
  <2>5. /\ starts \in 0..(2 * MaxFetches + MaxRestarts)
        /\ fetches \in 0..MaxFetches /\ cancels \in 0..MaxCancels /\ restarts \in 0..MaxRestarts
    OBVIOUS
  <2>6. categoryFetched \subseteq Categorized /\ skipped \subseteq Repos
    OBVIOUS
  <2> QED
    BY <2>1, <2>3, <2>4, <2>5, <2>6 DEF MetadataTypeOK
<1>2. ListsHaveTasks /\ StartsBounded
  BY DEF ListsHaveTasks, StartsBounded
<1>3. Live /\ told # "ok"
  BY DEF Live, Resting, NoTasks
<1>4. NothingLost
  BY DEF NothingLost, FlagsTrue, FetchedKept, Covered, Pipe
<1> QED
  BY <1>1, <1>2, <1>3, <1>4 DEF MetadataInv, AlwaysInv, StageInv, StagesOK

-----------------------------------------------------------------------------
(* Types                                                                   *)

\* Every step keeps the number of queued calls of doStart() bounded.
LEMMA StartsStep ==
  ASSUME MetadataTypeOK, StartsBounded, MetadataNext
  PROVE  StartsBounded' /\ starts' \in Nat
<1> USE MetadataAssumption DEF MetadataTypeOK, StartsBounded
<1>f. ASSUME NEW e, NEW queued \in Nat, Finish(e, queued), queued <= starts,
             fetches' = fetches, restarts' = restarts
      PROVE  StartsBounded' /\ starts' \in Nat
  BY <1>f DEF Finish
<1>s. ASSUME starts' = starts, UNCHANGED <<caller, kind, fetches, restarts>>
      PROVE  StartsBounded' /\ starts' \in Nat
  BY <1>s
<1>1. CASE FetchAll
  BY <1>1 DEF FetchAll
<1>2. CASE Cancel
  BY <1>2 DEF Cancel
<1>3. CASE StartFailed
  BY <1>3, <1>f DEF StartFailed, boundVars
<1>4. CASE StartAll
  <2>1. Finish("none", starts - 1) \/ (starts' = starts - 1 /\ UNCHANGED <<caller, kind>>)
    BY <1>4 DEF StartAll
  <2> QED
    BY <1>4, <1>f, <2>1 DEF StartAll, boundVars
<1>5. CASE StartRestarts
  BY <1>5 DEF StartRestarts
<1>6. CASE StartCompressed
  <2>1. Finish("none", starts - 1) \/ (starts' = starts - 1 /\ UNCHANGED <<caller, kind>>)
    BY <1>6 DEF StartCompressed
  <2> QED
    BY <1>6, <1>f, <2>1 DEF StartCompressed, boundVars
<1>7. CASE XmlNext \/ XmlDropped \/ XmlParsed
  BY <1>7, <1>s DEF XmlNext, XmlDropped, XmlParsed, callVars, boundVars
<1>8. CASE XmlFails
  BY <1>8, <1>f DEF XmlFails, Fail, boundVars
<1>9. CASE XmlRestarts
  BY <1>9 DEF XmlRestarts
<1>10. CASE MetaNext \/ MetaFetched
  BY <1>10, <1>s DEF MetaNext, MetaFetched, callVars, boundVars
<1>11. CASE MetaFails
  BY <1>11, <1>f DEF MetaFails, boundVars
<1>12. ASSUME NEW r \in Repos, UnzipEnds(r)
       PROVE  StartsBounded' /\ starts' \in Nat
  BY <1>12, <1>f, <1>s DEF UnzipEnds, Unzipped, UnzipFails, callVars, boundVars
<1>13. ASSUME NEW a \in Archives, UnpackEnds(a)
       PROVE  StartsBounded' /\ starts' \in Nat
  <2>1. ASSUME NEW usable \in BOOLEAN, Unpacked(a, usable)
        PROVE  UNCHANGED <<starts, caller, kind>> \/ Finish("download", starts)
    BY <2>1 DEF Unpacked, callVars
  <2>2. ASSUME NEW usable \in BOOLEAN, Unpacked(a, usable)
        PROVE  UNCHANGED <<fetches, restarts>>
    BY <2>2 DEF Unpacked, boundVars
  <2>3. ASSUME NEW usable \in BOOLEAN, Unpacked(a, usable)
        PROVE  StartsBounded' /\ starts' \in Nat
    BY <1>f, <1>s, <2>1, <2>2, <2>3
  <2>4. CASE UnpackFails(a)
    BY <1>f, <2>4 DEF UnpackFails, Fail, boundVars
  <2> QED
    BY <1>13, <2>3, <2>4 DEF UnpackEnds
<1>14. CASE UpdateRuns
  BY <1>14, <1>s DEF UpdateRuns, callVars, boundVars
<1>15. CASE UpdateEnds
  BY <1>15, <1>f, <1>s DEF UpdateEnds, callVars, boundVars
<1> QED
  BY <1>1, <1>2, <1>3, <1>4, <1>5, <1>6, <1>7, <1>8, <1>9, <1>10, <1>11, <1>12, <1>13, <1>14,
     <1>15 DEF MetadataNext, Start, XmlEnds, MetaEnds

\* The types, one variable at a time.
TypesFlat ==
  /\ caller \in {"idle", "waiting"} /\ kind \in {"all", "compressed"}
  /\ told \in {"none", "ok", "failed"}
  /\ error \in {"none", "canceled", "download", "extraction", "cache"}
  /\ enabled \in BOOLEAN /\ defaultsFetched \in BOOLEAN
  /\ valid \in BOOLEAN /\ undefined \in BOOLEAN
  /\ archives \subseteq Archives /\ unpacked \subseteq Archives /\ unpacking \subseteq Archives
  /\ categoryFetched \subseteq Categorized /\ skipped \subseteq Repos
  /\ items \subseteq Repos /\ xmlResults \subseteq Repos /\ packages \subseteq Repos
  /\ metaResults \subseteq Repos /\ fetched \subseteq Repos /\ cache \subseteq Repos
  /\ active \subseteq cache
  /\ xml \in Tasks /\ meta \in Tasks
  /\ unzips \in [Repos -> Nat] /\ left \subseteq {"unzip", "unpack"}
  /\ updating \in {"none", "running", "registered", "failed"}
  /\ tainted \subseteq {"tasks", "flags"}
  /\ fetches \in 0..MaxFetches /\ cancels \in 0..MaxCancels /\ restarts \in 0..MaxRestarts

LEMMA TypesAreFlat ==
  MetadataTypeOK <=> TypesFlat /\ starts \in 0..(2 * MaxFetches + MaxRestarts)
  BY DEF MetadataTypeOK, TypesFlat

\* What tasks are made of and come to.
LEMMA TaskTypes ==
  /\ NoTask \in Tasks
  /\ \A repos \in SUBSET Repos : Task(repos) \in Tasks
  /\ \A task \in Tasks : Canceled(task) \in Tasks /\ task.of \subseteq Repos
  BY DEF Tasks, NoTask, Task, Canceled

LEMMA StartXmlTypes ==
  ASSUME NEW list \in SUBSET Repos, StartXml(list)
  PROVE  xml' \in Tasks /\ items' \subseteq Repos
  BY TaskTypes DEF StartXml, Chunks

LEMMA StartMetaTypes ==
  ASSUME NEW list \in SUBSET Repos, StartMeta(list)
  PROVE  meta' \in Tasks /\ packages' \subseteq Repos
  BY TaskTypes DEF StartMeta, Chunks

LEMMA FinishTypes ==
  ASSUME TypesFlat, NEW e \in {"none", "download", "extraction", "cache"}, NEW queued,
         Finish(e, queued)
  PROVE  /\ caller' \in {"idle", "waiting"} /\ kind' \in {"all", "compressed"}
         /\ told' \in {"none", "ok", "failed"}
         /\ error' \in {"none", "canceled", "download", "extraction", "cache"}
  BY DEF Finish, TypesFlat

LEMMA ResetTypes ==
  ASSUME TypesFlat, NEW xmlOver \in BOOLEAN, NEW metaOver \in BOOLEAN, Reset(xmlOver, metaOver)
  PROVE  /\ items' \subseteq Repos /\ xmlResults' \subseteq Repos /\ packages' \subseteq Repos
         /\ metaResults' \subseteq Repos /\ fetched' \subseteq Repos
         /\ defaultsFetched' \in BOOLEAN /\ categoryFetched' \subseteq Categorized
         /\ xml' \in Tasks /\ meta' \in Tasks /\ undefined' \in BOOLEAN
  BY TaskTypes DEF Reset, TypesFlat, DeletesInUse

LEMMA StartUpdateTypes ==
  ASSUME StartUpdate
  PROVE  updating' \in {"none", "running", "registered", "failed"} /\ undefined' \in BOOLEAN
  BY DEF StartUpdate

\* Every step keeps the types.
LEMMA TypesStep ==
  ASSUME TypesFlat, MetadataNext
  PROVE  TypesFlat'
<1> USE MetadataAssumption DEF TypesFlat
<1>s. UNCHANGED metadataVars => TypesFlat'
  BY DEF metadataVars, callVars, choiceVars, xmlVars, metaVars, flagVars, unzipVars, cacheVars,
         updateVars, boundVars
<1>1. CASE FetchAll
  <2>1. tainted' \subseteq {"tasks", "flags"} /\ enabled' \in BOOLEAN
    BY <1>1 DEF FetchAll
  <2>2. fetches' \in 0..MaxFetches /\ cancels' = cancels /\ restarts' = restarts
    BY <1>1 DEF FetchAll
  <2> QED
    BY <1>1, <2>1, <2>2 DEF FetchAll, xmlVars, metaVars, flagVars, unzipVars, cacheVars, updateVars
<1>2. CASE Cancel
  <2>1. cancels' \in 0..MaxCancels /\ fetches' = fetches /\ restarts' = restarts
    BY <1>2 DEF Cancel
  <2>2. /\ items' \subseteq Repos /\ xmlResults' \subseteq Repos /\ packages' \subseteq Repos
        /\ metaResults' \subseteq Repos /\ fetched' \subseteq Repos
        /\ defaultsFetched' \in BOOLEAN /\ categoryFetched' \subseteq Categorized
        /\ xml' \in Tasks /\ meta' \in Tasks /\ undefined' \in BOOLEAN
    BY <1>2, ResetTypes DEF Cancel
  <2>3. /\ valid' \in BOOLEAN /\ cache' \subseteq Repos /\ active' \subseteq cache'
        /\ tainted' \subseteq {"tasks", "flags"} /\ told' \in {"none", "ok", "failed"}
    BY <1>2 DEF Cancel
  <2> QED
    BY <1>2, <2>1, <2>2, <2>3 DEF Cancel, choiceVars, unzipVars
<1>3. CASE StartFailed
  BY <1>3, FinishTypes DEF StartFailed, choiceVars, xmlVars, flagVars, unzipVars, cacheVars,
     updateVars, boundVars
<1>4. CASE StartAll
  <2>w. Wanted \subseteq Repos
    BY DEF Wanted, Repos
  <2>1. PICK hit \in SUBSET (Wanted \cap cache \cap KnownSum) :
          LET broken == (Wanted \ hit) \cap KnownSum
              list == items \cup (Wanted \ hit)
          IN /\ cache' = cache \ broken /\ active' = (active \ broken) \cup hit
             /\ categoryFetched' = categoryFetched \cup (hit \cap Categorized)
             /\ IF list = {} THEN Finish("none", starts - 1) /\ UNCHANGED <<items, xml>>
                ELSE /\ StartXml(list) /\ error' = "none" /\ starts' = starts - 1
                     /\ UNCHANGED <<caller, kind, told>>
    BY <1>4 DEF StartAll
  <2> DEFINE list == items \cup (Wanted \ hit)
  <2>2. list \in SUBSET Repos
    BY <2>w
  <2>3. xml' \in Tasks /\ items' \subseteq Repos
    BY <2>1, <2>2, StartXmlTypes
  <2>4. /\ caller' \in {"idle", "waiting"} /\ kind' \in {"all", "compressed"}
        /\ told' \in {"none", "ok", "failed"}
        /\ error' \in {"none", "canceled", "download", "extraction", "cache"}
    BY <2>1, FinishTypes
  <2>5. cache' \subseteq Repos /\ active' \subseteq cache' /\ categoryFetched' \subseteq Categorized
    BY <2>1
  <2> QED
    BY <1>4, <2>3, <2>4, <2>5 DEF StartAll, choiceVars, unzipVars, updateVars, boundVars
<1>5. CASE StartRestarts
  <2>w. Wanted \subseteq Repos
    BY DEF Wanted, Repos
  <2>1. /\ items' \subseteq Repos /\ cache' \subseteq Repos /\ active' = {}
        /\ categoryFetched' \subseteq Categorized
    BY <1>5, <2>w DEF StartRestarts
  <2>2. restarts' \in 0..MaxRestarts /\ fetches' = fetches /\ cancels' = cancels
    BY <1>5 DEF StartRestarts
  <2>3. tainted' \subseteq {"tasks", "flags"} /\ undefined' \in BOOLEAN
    BY <1>5 DEF StartRestarts, DeletesInUse
  <2> QED
    BY <1>5, <2>1, <2>2, <2>3 DEF StartRestarts, choiceVars, unzipVars
<1>6. CASE StartCompressed
  <2>1. /\ caller' \in {"idle", "waiting"} /\ kind' \in {"all", "compressed"}
        /\ told' \in {"none", "ok", "failed"}
        /\ error' \in {"none", "canceled", "download", "extraction", "cache"}
    BY <1>6, FinishTypes DEF StartCompressed
  <2>2. unzips' \in [Repos -> Nat] /\ undefined' \in BOOLEAN
    BY <1>6 DEF StartCompressed, None
  <2> QED
    BY <1>6, <2>1, <2>2 DEF StartCompressed, xmlVars, flagVars, updateVars, boundVars
<1>7. CASE XmlNext
  <2>1. xml' \in Tasks /\ items' \subseteq Repos
    BY <1>7, StartXmlTypes DEF XmlNext
  <2>2. xmlResults' \subseteq Repos
    BY <1>7, TaskTypes DEF XmlNext
  <2> QED
    BY <1>7, <2>1, <2>2 DEF XmlNext, callVars, choiceVars, metaVars, flagVars, unzipVars,
       cacheVars, updateVars, boundVars
<1>8. CASE XmlDropped
  BY <1>8, TaskTypes DEF XmlDropped, callVars, choiceVars, metaVars, flagVars, unzipVars,
     cacheVars, updateVars, boundVars
<1>9. CASE XmlParsed
  <2> DEFINE results == xmlResults \cup (IF xml.state = "running" THEN xml.of ELSE {})
  <2>1. results \subseteq Repos
    BY TaskTypes
  <2>p. PICK bad \in SUBSET results :
          \E hit \in SUBSET ((results \ bad) \cap (IF valid THEN cache ELSE {})) :
          LET new == results \ (bad \cup hit)
          IN /\ hit \cap Archives = {} /\ skipped' = (skipped \ results) \cup bad
             /\ cache' = cache \ new /\ active' = (active \ new) \cup hit
             /\ fetched' = fetched \cup new
             /\ categoryFetched' = categoryFetched \cup ((hit \cup new) \cap Categorized)
             /\ LET list == packages \cup (new \ WithoutMeta)
                IN IF list = {} THEN StartUpdate /\ UNCHANGED <<packages, meta>>
                   ELSE StartMeta(list) /\ UNCHANGED <<updating, undefined>>
    BY <1>9 DEF XmlParsed
  <2>2. PICK hit \in SUBSET ((results \ bad) \cap (IF valid THEN cache ELSE {})) :
          LET new == results \ (bad \cup hit)
          IN /\ hit \cap Archives = {} /\ skipped' = (skipped \ results) \cup bad
             /\ cache' = cache \ new /\ active' = (active \ new) \cup hit
             /\ fetched' = fetched \cup new
             /\ categoryFetched' = categoryFetched \cup ((hit \cup new) \cap Categorized)
             /\ LET list == packages \cup (new \ WithoutMeta)
                IN IF list = {} THEN StartUpdate /\ UNCHANGED <<packages, meta>>
                   ELSE StartMeta(list) /\ UNCHANGED <<updating, undefined>>
    BY <2>p
  <2> DEFINE new == results \ (bad \cup hit)
             list == packages \cup (new \ WithoutMeta)
  <2>3. skipped' \subseteq Repos /\ fetched' \subseteq Repos /\ categoryFetched' \subseteq Categorized
    BY <2>1, <2>2
  <2>4. cache' \subseteq Repos /\ active' \subseteq cache'
    BY <2>1, <2>2
  <2>5. list \in SUBSET Repos
    BY <2>1
  <2>6. /\ meta' \in Tasks /\ packages' \subseteq Repos /\ undefined' \in BOOLEAN
        /\ updating' \in {"none", "running", "registered", "failed"}
    BY <2>2, <2>5, StartMetaTypes, StartUpdateTypes
  <2> QED
    BY <1>9, <2>3, <2>4, <2>6, TaskTypes DEF XmlParsed, callVars, choiceVars, unzipVars, boundVars
<1>10. CASE XmlFails
  BY <1>10, ResetTypes, FinishTypes DEF XmlFails, Fail, choiceVars, cacheVars, boundVars, unzipVars
<1>11. CASE XmlRestarts
  <2>1. restarts' \in 0..MaxRestarts /\ fetches' = fetches /\ cancels' = cancels
    BY <1>11 DEF XmlRestarts
  <2>2. /\ items' \subseteq Repos /\ xmlResults' \subseteq Repos /\ packages' \subseteq Repos
        /\ metaResults' \subseteq Repos /\ fetched' \subseteq Repos
        /\ defaultsFetched' \in BOOLEAN /\ categoryFetched' \subseteq Categorized
        /\ xml' \in Tasks /\ meta' \in Tasks /\ undefined' \in BOOLEAN
    BY <1>11, ResetTypes DEF XmlRestarts
  <2>3. active' \subseteq cache' /\ cache' = cache /\ tainted' \subseteq {"tasks", "flags"}
    BY <1>11 DEF XmlRestarts
  <2> QED
    BY <1>11, <2>1, <2>2, <2>3 DEF XmlRestarts, choiceVars, unzipVars
<1>12. CASE MetaNext
  <2>1. meta' \in Tasks /\ packages' \subseteq Repos
    BY <1>12, StartMetaTypes DEF MetaNext
  <2>2. metaResults' \subseteq Repos
    BY <1>12, TaskTypes DEF MetaNext
  <2> QED
    BY <1>12, <2>1, <2>2 DEF MetaNext, callVars, choiceVars, xmlVars, flagVars, unzipVars,
       cacheVars, updateVars, boundVars
<1>13. CASE MetaFetched
  <2>1. metaResults' \subseteq Repos /\ unzips' \in [Repos -> Nat]
    BY <1>13, TaskTypes DEF MetaFetched
  <2>2. updating' \in {"none", "running", "registered", "failed"} /\ undefined' \in BOOLEAN
    BY <1>13, StartUpdateTypes DEF MetaFetched
  <2> QED
    BY <1>13, <2>1, <2>2, TaskTypes DEF MetaFetched, callVars, choiceVars, xmlVars, flagVars,
       cacheVars, boundVars
<1>14. CASE MetaFails
  <2>1. unzips' \in [Repos -> Nat]
    BY <1>14 DEF MetaFails
  <2> QED
    BY <1>14, <2>1, ResetTypes, FinishTypes DEF MetaFails, choiceVars, cacheVars, boundVars
<1>15. ASSUME NEW r \in Repos, Unzipped(r) PROVE TypesFlat'
  <2>1. unzips' \in [Repos -> Nat]
    BY <1>15 DEF Unzipped
  <2>2. updating' \in {"none", "running", "registered", "failed"} /\ undefined' \in BOOLEAN
    BY <1>15, StartUpdateTypes DEF Unzipped
  <2>3. left' \subseteq {"unzip", "unpack"}
    BY <1>15 DEF Unzipped
  <2> QED
    BY <1>15, <2>1, <2>2, <2>3 DEF Unzipped, callVars, choiceVars, xmlVars, metaVars, flagVars,
       cacheVars, boundVars
<1>16. ASSUME NEW r \in Repos, UnzipFails(r) PROVE TypesFlat'
  <2>1. unzips' \in [Repos -> Nat]
    BY <1>16 DEF UnzipFails
  <2> QED
    BY <1>16, <2>1, FinishTypes DEF UnzipFails, choiceVars, xmlVars, metaVars, flagVars,
       cacheVars, updateVars, boundVars
<1>17. ASSUME NEW a \in Archives, NEW usable \in BOOLEAN, Unpacked(a, usable) PROVE TypesFlat'
  <2> DEFINE list == IF usable THEN items \cup {a} ELSE items
  <2>1. list \in SUBSET Repos /\ a \in Repos
    BY DEF Repos
  <2>2. xml' \in Tasks /\ items' \subseteq Repos
    BY <1>17, <2>1, StartXmlTypes DEF Unpacked
  <2>3. /\ caller' \in {"idle", "waiting"} /\ kind' \in {"all", "compressed"}
        /\ told' \in {"none", "ok", "failed"}
        /\ error' \in {"none", "canceled", "download", "extraction", "cache"}
    BY <1>17, FinishTypes DEF Unpacked, callVars
  <2>4. skipped' \subseteq Repos /\ unpacking' \subseteq Archives
    BY <1>17, <2>1 DEF Unpacked
  <2> QED
    BY <1>17, <2>2, <2>3, <2>4 DEF Unpacked, choiceVars, metaVars, flagVars, cacheVars,
       updateVars, boundVars
<1>18. ASSUME NEW a \in Archives, UnpackFails(a) PROVE TypesFlat'
  BY <1>18, ResetTypes, FinishTypes DEF UnpackFails, Fail, choiceVars, cacheVars, boundVars
<1>19. CASE UpdateRuns
  <2>1. /\ updating' \in {"none", "running", "registered", "failed"} /\ fetched' \subseteq Repos
        /\ cache' \subseteq Repos /\ active' \subseteq cache'
    BY <1>19 DEF UpdateRuns, ObsoleteItems
  <2> QED
    BY <1>19, <2>1 DEF UpdateRuns, callVars, choiceVars, xmlVars, metaVars, flagVars, unzipVars,
       boundVars
<1>20. CASE UpdateEnds
  <2>1. /\ updating' = "none" /\ tainted' \in SUBSET (tainted \cup {"flags"})
        /\ UNCHANGED <<choiceVars, xmlVars, metaVars, flagVars, unzipVars, cacheVars, fetched,
                       skipped, unpacked, undefined, boundVars>>
    BY <1>20 DEF UpdateEnds
  <2>2. /\ caller' \in {"idle", "waiting"} /\ kind' \in {"all", "compressed"}
        /\ told' \in {"none", "ok", "failed"}
        /\ error' \in {"none", "canceled", "download", "extraction", "cache"}
    BY <1>20, FinishTypes DEF UpdateEnds, callVars
  <2> QED
    BY <2>1, <2>2 DEF callVars, choiceVars, xmlVars, metaVars, flagVars, unzipVars,
       cacheVars, boundVars
<1> QED
  BY <1>1, <1>2, <1>3, <1>4, <1>5, <1>6, <1>7, <1>8, <1>9, <1>10, <1>11, <1>12, <1>13, <1>14,
     <1>15, <1>16, <1>17, <1>18, <1>19, <1>20
     DEF MetadataNext, Start, XmlEnds, MetaEnds, UnzipEnds, UnpackEnds

\* A list is emptied with its task: a chunk is taken from it with a new task,
\* and what ends the last task takes what is left.
LEMMA ListsStep ==
  ASSUME MetadataTypeOK, ListsHaveTasks, MetadataNext
  PROVE  ListsHaveTasks'
<1> USE DEF ListsHaveTasks
<1>x. ASSUME NEW list, StartXml(list) PROVE xml'.state = "running"
  BY <1>x DEF StartXml, Task
<1>m. ASSUME NEW list, StartMeta(list) PROVE meta'.state = "running"
  BY <1>m DEF StartMeta, Task
<1>r. ASSUME NEW xmlOver, NEW metaOver, Reset(xmlOver, metaOver) PROVE ListsHaveTasks'
  BY <1>r DEF Reset
<1>p. ASSUME UNCHANGED metaVars, xmlResults' = xmlResults,
             xml' = xml \/ xml'.state = "running"
      PROVE  ListsHaveTasks'
  BY <1>p DEF metaVars
<1>q. ASSUME xmlResults' = {}, (UNCHANGED <<packages, meta>>) \/ meta'.state = "running"
      PROVE  ListsHaveTasks'
  BY <1>q
<1>1. CASE FetchAll \/ UpdateRuns \/ UpdateEnds
  BY <1>1, <1>p DEF FetchAll, UpdateRuns, UpdateEnds, xmlVars
<1>2. CASE Cancel \/ XmlFails \/ XmlRestarts \/ MetaFails
  BY <1>2, <1>r DEF Cancel, XmlFails, XmlRestarts, MetaFails, Fail
<1>3. CASE StartFailed
  BY <1>3 DEF StartFailed, xmlVars
<1>4. CASE StartAll
  BY <1>4, <1>x DEF StartAll
<1>5. CASE StartRestarts
  BY <1>5 DEF StartRestarts
<1>6. CASE StartCompressed
  BY <1>6 DEF StartCompressed, xmlVars
<1>7. CASE XmlNext
  BY <1>7, <1>x DEF XmlNext, metaVars
<1>8. CASE XmlDropped
  BY <1>8, <1>q DEF XmlDropped, metaVars
<1>9. CASE XmlParsed
  BY <1>9, <1>m, <1>q DEF XmlParsed
<1>10. CASE MetaNext
  BY <1>10, <1>m DEF MetaNext, xmlVars
<1>11. CASE MetaFetched
  BY <1>11 DEF MetaFetched, xmlVars
<1>12. ASSUME NEW r \in Repos, UnzipEnds(r) PROVE ListsHaveTasks'
  BY <1>12, <1>p DEF UnzipEnds, Unzipped, UnzipFails, metaVars, xmlVars
<1>13. ASSUME NEW a \in Archives, NEW usable \in BOOLEAN, Unpacked(a, usable)
       PROVE  ListsHaveTasks'
  BY <1>13, <1>p, <1>x DEF Unpacked
<1>14. ASSUME NEW a \in Archives, UnpackFails(a) PROVE ListsHaveTasks'
  BY <1>14, <1>r DEF UnpackFails, Fail
<1> QED
  BY <1>1, <1>2, <1>3, <1>4, <1>5, <1>6, <1>7, <1>8, <1>9, <1>10, <1>11, <1>12, <1>13, <1>14
     DEF MetadataNext, Start, XmlEnds, MetaEnds, UnpackEnds

\* The bound on queued calls, by the bounds on fetches and restarts.
LEMMA StartsArithmetic ==
  ASSUME NEW s \in Nat, NEW w \in Nat, NEW f \in Nat, NEW r \in Nat, NEW mf \in Nat, NEW mr \in Nat,
         f <= mf, r <= mr, s + w <= 2 * f + r
  PROVE  s \in 0..(2 * mf + mr)
  OBVIOUS

\* Every step keeps all this.
LEMMA AlwaysStep == AlwaysInv /\ [MetadataNext]_metadataVars => AlwaysInv'
<1> SUFFICES ASSUME AlwaysInv, [MetadataNext]_metadataVars PROVE AlwaysInv'
  OBVIOUS
<1> USE DEF AlwaysInv
<1>1. CASE UNCHANGED metadataVars
  BY <1>1 DEF MetadataTypeOK, ListsHaveTasks, StartsBounded, metadataVars, callVars, choiceVars,
     xmlVars, metaVars, flagVars, unzipVars, cacheVars, updateVars, boundVars
<1>2. CASE MetadataNext
  <2>1. TypesFlat' /\ ListsHaveTasks' /\ StartsBounded' /\ starts' \in Nat
    BY <1>2, TypesAreFlat, TypesStep, ListsStep, StartsStep
  <2>2. starts' \in 0..(2 * MaxFetches + MaxRestarts)
    <3>1. fetches' \in 0..MaxFetches /\ restarts' \in 0..MaxRestarts
      BY <2>1 DEF TypesFlat
    <3>2. MaxFetches \in Nat /\ MaxRestarts \in Nat
      BY MetadataAssumption
    <3>3. fetches' \in Nat /\ restarts' \in Nat /\ fetches' <= MaxFetches /\ restarts' <= MaxRestarts
      BY <3>1, <3>2
    <3>4. PICK w \in Nat : starts' + w <= 2 * fetches' + restarts'
      BY <2>1 DEF StartsBounded
    <3> QED
      BY <2>1, <3>2, <3>3, <3>4, StartsArithmetic
  <2>3. MetadataTypeOK'
    <3>1. /\ {enabled', defaultsFetched', valid', undefined'} \subseteq BOOLEAN
          /\ {archives', unpacked', unpacking'} \subseteq SUBSET Archives
      BY <2>1 DEF TypesFlat
    <3>2. {items', xmlResults', packages', metaResults', fetched', cache'} \subseteq SUBSET Repos
      BY <2>1 DEF TypesFlat
    <3> QED
      BY <2>1, <2>2, <3>1, <3>2 DEF MetadataTypeOK, TypesFlat
  <2> QED
    BY <2>1, <2>3
<1> QED
  BY <1>1, <1>2

\* The state of the job keeps its types, however its tasks end: no repository
\* is unzipped less than never, no repository is in use without an item of the
\* cache, and doStart() is queued twice per fetch and once per restart at most.
THEOREM MetadataTypeCorrect == MetadataSpec => []MetadataTypeOK
<1>1. MetadataInit => AlwaysInv
  BY MetadataInvInit DEF MetadataInv, AlwaysInv
<1> QED
  BY <1>1, AlwaysStep, PTL DEF MetadataSpec, AlwaysInv

-----------------------------------------------------------------------------
(* The stages                                                              *)

\* What a step may do, and what it must leave.
StageGoal == (undefined' => cancels' > 0) /\ (~undefined' => StagesOK')

\* After a success nothing is left to happen.
LEMMA WhoActs ==
  ASSUME AlwaysInv, StagesOK
  PROVE  /\ starts > 0 => Starting
         /\ xml.state # "none" => Reading \/ Dead
         /\ xml.state # "none" /\ error = "none" => Reading
         /\ meta.state # "none" => Getting \/ (Dead /\ cancels > 0)
         /\ \A r \in Repos : unzips[r] > 0 => Unzipping \/ Dead
         /\ unpacking # {} => Unpacking \/ Dead
         /\ updating # "none" => Updating \/ (Dead /\ cancels > 0)
         /\ ~Resting => told # "ok"
         /\ Live \/ Dead
<1>1. NoTask.state = "none" /\ \A r \in Repos : None[r] = 0
  BY DEF NoTask, None
<1>2. starts \in Nat /\ cancels \in Nat
  BY MetadataAssumption DEF AlwaysInv, MetadataTypeOK
<1>3. CASE Dead
  BY <1>2, <1>3, <1>1 DEF Dead, StagesOK, Starting, AtWork
<1>4. CASE Live
  BY <1>1, <1>2, <1>4 DEF Live, Resting, Starting, Reading, Getting, Unzipping, Updating,
     Unpacking, AtWork, NoTasks, StagesOK
<1> QED
  BY <1>3, <1>4 DEF StagesOK

\* An error ends a fetch, whatever runs.
LEMMA EndsDead ==
  ASSUME told # "ok", error' # "none", caller' = "idle", starts' = 0,
         told' = told \/ told' = "failed",
         undefined' => cancels' > 0,
         cancels' = 0 => meta' = NoTask /\ updating' = "none"
  PROVE  StageGoal
  BY DEF StageGoal, StagesOK, Dead

LEMMA CancelsNat == ASSUME AlwaysInv PROVE cancels \in Nat
BY MetadataAssumption DEF AlwaysInv, MetadataTypeOK

\* A dead fetch stays dead while doStart() is not called.
LEMMA StaysDead ==
  ASSUME AlwaysInv, Dead, UNCHANGED <<callVars, cancels>>,
         cancels > 0 \/ UNCHANGED <<meta, updating, undefined>>, ~undefined
  PROVE  StageGoal
<1>1. cancels \in Nat
  BY MetadataAssumption DEF AlwaysInv, MetadataTypeOK
<1> QED
  BY <1>1, EndsDead DEF Dead, callVars

LEMMA StageCancel ==
  ASSUME AlwaysInv, StagesOK, ~undefined, Cancel PROVE StageGoal
<1>1. cancels' > 0 /\ error' # "none" /\ caller' = "idle" /\ starts' = starts /\ told' # "ok"
  BY MetadataAssumption DEF AlwaysInv, MetadataTypeOK, Cancel
<1>2. CASE starts = 0
  BY <1>1, <1>2 DEF StageGoal, StagesOK, Dead
<1>3. CASE starts > 0
  <2>1. Starting /\ Live
    BY <1>3, WhoActs DEF StagesOK, Dead
  <2>2. xml' = NoTask /\ meta' = NoTask /\ items' = {}
    BY <2>1 DEF Cancel, Reset, Canceled, Starting, NoTasks, NoTask
  <2> QED
    BY <1>1, <2>1, <2>2 DEF StageGoal, StagesOK, Live, Starting, NoTasks, Cancel, unzipVars
<1> QED
  BY <1>2, <1>3, MetadataAssumption DEF AlwaysInv, MetadataTypeOK

LEMMA StageStarts ==
  ASSUME AlwaysInv, StagesOK, ~undefined, Start PROVE StageGoal
<1>1. Starting /\ Live /\ told # "ok"
  <2>1. starts > 0
    BY DEF Start, StartFailed, StartAll, StartRestarts, StartCompressed
  <2> QED
    BY <2>1, WhoActs DEF Starting, Dead
<1>x. ASSUME NEW list, StartXml(list) PROVE xml'.state = "running"
  BY <1>x DEF StartXml, Task
<1>2. CASE StartFailed
  BY <1>1, <1>2, EndsDead DEF StartFailed, Finish, Starting, NoTasks, metaVars, updateVars,
     boundVars
<1>3. CASE StartAll
  <2>1. \/ /\ Finish("none", starts - 1) /\ UNCHANGED xml
           /\ items' = {}
        \/ /\ xml'.state = "running" /\ error' = "none" /\ starts' = 0
           /\ UNCHANGED <<caller, kind, told>>
    BY <1>1, <1>3, <1>x DEF StartAll, Starting
  <2>2. CASE Finish("none", starts - 1) /\ UNCHANGED xml /\ items' = {}
    <3>1. /\ kind = "all" /\ starts = 1 /\ told' # "ok" /\ undefined' = undefined
          /\ UNCHANGED <<meta, unzips, unpacking, left, updating>>
      <4>1. caller \in {"idle", "waiting"}
        BY DEF AlwaysInv, MetadataTypeOK
      <4>2. kind = "all"
        BY <1>3 DEF StartAll
      <4>3. told' # "ok"
        BY <1>1, <2>2, <4>1, <4>2 DEF Finish
      <4> QED
        BY <1>1, <1>3, <4>2, <4>3 DEF StartAll, Starting, unzipVars, updateVars
    <3>2. CASE caller = "waiting"
      <4>1. kind' = "compressed" /\ starts' = 1
        BY <2>2, <3>1, <3>2 DEF Finish
      <4> QED
        BY <1>1, <2>2, <3>1, <4>1 DEF StageGoal, StagesOK, Live, Starting, NoTasks
    <3>3. CASE caller # "waiting"
      <4>1. caller' = "idle" /\ starts' = 0
        BY <2>2, <3>1, <3>3 DEF Finish
      <4> QED
        BY <1>1, <2>2, <3>1, <4>1 DEF StageGoal, StagesOK, Live, Starting, Resting, NoTasks
    <3> QED
      BY <3>2, <3>3
  <2>3. CASE xml'.state = "running" /\ error' = "none" /\ starts' = 0 /\ told' = told
    BY <1>1, <1>3, <2>3 DEF StartAll, StageGoal, StagesOK, Live, Starting, Reading, AtWork,
       NoTasks, unzipVars, updateVars
  <2> QED
    BY <2>1, <2>2, <2>3
<1>4. CASE StartRestarts
  <2>1. undefined' = FALSE
    BY <1>1, <1>4 DEF StartRestarts, DeletesInUse, Starting, NoTasks
  <2> QED
    BY <1>1, <1>4, <2>1 DEF StartRestarts, StageGoal, StagesOK, Live, Starting, NoTasks, unzipVars
<1>5. CASE StartCompressed
  <2>1. undefined' = FALSE /\ left' = {} /\ unzips' = None
    BY <1>1, <1>5 DEF StartCompressed, Starting, NoTasks
  <2>2. CASE archives = {}
    BY <1>1, <1>5, <2>1, <2>2 DEF StartCompressed, Finish, StageGoal, StagesOK, Live, Starting,
       Resting, NoTasks, xmlVars, updateVars
  <2>3. CASE archives # {}
    BY <1>1, <1>5, <2>1, <2>3 DEF StartCompressed, StageGoal, StagesOK, Live, Starting,
       Unpacking, AtWork, NoTasks, xmlVars, updateVars
  <2> QED
    BY <2>2, <2>3
<1> QED
  BY <1>2, <1>3, <1>4, <1>5 DEF Start

LEMMA StageXml ==
  ASSUME AlwaysInv, StagesOK, ~undefined, XmlEnds PROVE StageGoal
<1>1. (Reading /\ Live) \/ Dead
  BY WhoActs DEF XmlEnds, XmlNext, XmlDropped, XmlParsed, XmlFails, XmlRestarts, Reading, Dead,
     AtWork, StagesOK
<1>e. error = "none" => Reading /\ Live
  BY <1>1 DEF Dead
<1>x. ASSUME NEW list, StartXml(list) PROVE xml'.state = "running"
  BY <1>x DEF StartXml, Task
<1>m. ASSUME NEW list, StartMeta(list) PROVE meta'.state = "running"
  BY <1>m DEF StartMeta, Task
<1>2. CASE XmlNext
  <2>1. CASE Dead
    BY <1>2, <2>1, StaysDead DEF XmlNext, metaVars, updateVars, boundVars
  <2>2. CASE Reading /\ Live
    BY <1>2, <2>2, <1>x DEF XmlNext, StageGoal, StagesOK, Live, Reading, AtWork, NoTasks,
       callVars, metaVars, unzipVars, updateVars
  <2> QED
    BY <1>1, <2>1, <2>2
<1>3. CASE XmlDropped
  <2>1. Dead
    BY <1>1, <1>3 DEF XmlDropped, Reading, AtWork
  <2> QED
    BY <1>3, <2>1, StaysDead DEF XmlDropped, metaVars, updateVars, boundVars
<1>4. CASE XmlParsed
  <2>1. xml' = NoTask /\ items' = {} /\ UNCHANGED <<callVars, unzipVars>>
    BY <1>4 DEF XmlParsed
  <2>2. \/ StartUpdate /\ meta' = meta
        \/ meta'.state = "running" /\ UNCHANGED <<updating, undefined>>
    BY <1>4, <1>m DEF XmlParsed
  <2>3. Reading /\ Live
    BY <1>4, <1>e DEF XmlParsed
  <2> QED
    <3>1. /\ AtWork' /\ unzips' = None /\ unpacking' = {} /\ "unzip" \notin left'
      BY <2>1, <2>3 DEF Live, Reading, AtWork, NoTasks, callVars, unzipVars
    <3>2. CASE StartUpdate /\ meta' = meta
      <4>1. undefined' = FALSE /\ updating' # "none" /\ meta' = NoTask
        BY <2>3, <3>2 DEF StartUpdate, Reading, NoTasks
      <4> QED
        BY <2>1, <3>1, <4>1 DEF StageGoal, StagesOK, Live, Updating, AtWork
    <3>3. CASE meta'.state = "running" /\ UNCHANGED <<updating, undefined>>
      BY <2>1, <2>3, <3>1, <3>3 DEF StageGoal, StagesOK, Live, Reading, Getting, NoTasks, AtWork
    <3> QED
      BY <2>2, <3>2, <3>3
<1>5. CASE XmlFails
  <2>1. undefined' => updating = "running"
    BY <1>5 DEF XmlFails, Fail, Reset, DeletesInUse
  <2>2. meta = NoTask => meta' = NoTask
    BY <1>5 DEF XmlFails, Fail, Reset, Canceled, NoTask
  <2>3. /\ error' # "none" /\ caller' = "idle" /\ starts' = starts
        /\ told' = told \/ told' = "failed"
        /\ UNCHANGED <<updating, cancels>>
    BY <1>5 DEF XmlFails, Fail, Finish, boundVars
  <2>4. /\ told # "ok" /\ starts = 0
        /\ cancels > 0 \/ (meta = NoTask /\ updating = "none")
    BY <1>1, CancelsNat DEF Reading, NoTasks, AtWork, Dead
  <2> QED
    BY <2>1, <2>2, <2>3, <2>4, CancelsNat, EndsDead
<1>6. CASE XmlRestarts
  <2>1. Reading /\ Live
    BY <1>6, <1>e DEF XmlRestarts
  <2>2. undefined' = FALSE /\ meta' = NoTask /\ xml' = NoTask /\ items' = {}
    BY <1>6, <2>1 DEF XmlRestarts, Reset, DeletesInUse, Canceled, Reading, NoTasks, NoTask
  <2> QED
    BY <1>6, <2>1, <2>2 DEF XmlRestarts, StageGoal, StagesOK, Live, Starting, Reading, AtWork,
       NoTasks, unzipVars
<1> QED
  BY <1>2, <1>3, <1>4, <1>5, <1>6 DEF XmlEnds

LEMMA StageMeta ==
  ASSUME AlwaysInv, StagesOK, ~undefined, MetaEnds PROVE StageGoal
<1>1. (Getting /\ Live) \/ (Dead /\ cancels > 0)
  BY WhoActs DEF MetaEnds, MetaNext, MetaFetched, MetaFails, Getting, Dead, AtWork, StagesOK
<1>m. ASSUME NEW list, StartMeta(list) PROVE meta'.state = "running"
  BY <1>m DEF StartMeta, Task
<1>2. CASE MetaNext
  <2>1. CASE Dead /\ cancels > 0
    BY <1>2, <2>1, StaysDead DEF MetaNext, boundVars
  <2>2. CASE Getting /\ Live
    BY <1>2, <2>2, <1>m DEF MetaNext, StageGoal, StagesOK, Live, Getting, AtWork,
       callVars, xmlVars, unzipVars, updateVars
  <2> QED
    BY <1>1, <2>1, <2>2
<1>3. CASE MetaFetched
  <2>1. CASE Dead /\ cancels > 0
    BY <1>3, <2>1, StaysDead DEF MetaFetched, boundVars
  <2>2. CASE Getting /\ Live
    <3>1. (unzips' = None /\ StartUpdate) \/ (unzips' # None /\ UNCHANGED <<updating, undefined>>)
      BY <1>3, <2>2 DEF MetaFetched, Live
    <3>2. meta' = NoTask /\ UNCHANGED <<callVars, xmlVars, unpacking, left>>
      BY <1>3 DEF MetaFetched
    <3>3. /\ AtWork' /\ unpacking' = {} /\ "unzip" \notin left' /\ xml' = NoTask /\ items' = {}
      BY <2>2, <3>2 DEF Live, Getting, AtWork, callVars, xmlVars
    <3>4. CASE unzips' = None /\ StartUpdate
      <4>1. undefined' = FALSE /\ updating' # "none"
        BY <2>2, <3>4 DEF StartUpdate, Getting
      <4> QED
        BY <3>2, <3>3, <3>4, <4>1 DEF StageGoal, StagesOK, Live, Updating, AtWork
    <3>5. CASE unzips' # None /\ UNCHANGED <<updating, undefined>>
      BY <2>2, <3>2, <3>3, <3>5 DEF StageGoal, StagesOK, Live, Getting, Unzipping, AtWork
    <3> QED
      BY <3>1, <3>4, <3>5
  <2> QED
    BY <1>1, <2>1, <2>2
<1>4. CASE MetaFails
  <2>1. meta' = NoTask /\ undefined' = DeletesInUse
    BY <1>4 DEF MetaFails, Reset
  <2>2. CASE Dead /\ cancels > 0
    BY <1>4, <2>1, <2>2, EndsDead DEF MetaFails, Finish, Dead, boundVars
  <2>3. CASE Getting /\ Live
    <3>1. undefined' = FALSE
      BY <2>1, <2>3 DEF DeletesInUse, Getting
    <3> QED
      BY <1>4, <2>1, <2>3, <3>1, EndsDead DEF MetaFails, Finish, Getting, AtWork, boundVars
  <2> QED
    BY <1>1, <2>2, <2>3
<1> QED
  BY <1>2, <1>3, <1>4 DEF MetaEnds

LEMMA StageUnzip ==
  ASSUME AlwaysInv, StagesOK, ~undefined, NEW r \in Repos, UnzipEnds(r) PROVE StageGoal
<1>1. unzips[r] > 0
  BY DEF UnzipEnds, Unzipped, UnzipFails
<1>2. (Unzipping /\ Live) \/ Dead
  BY <1>1, WhoActs DEF StagesOK, Unzipping, Dead, AtWork
<1>3. CASE Unzipped(r)
  <2>1. CASE Dead
    BY <1>3, <2>1, StaysDead DEF Unzipped, Dead, metaVars, boundVars
  <2>2. CASE Unzipping /\ Live
    <3>1. UNCHANGED <<callVars, xmlVars, meta, unpacking, left>>
      BY <1>3, <2>2 DEF Unzipped, Unzipping, AtWork, metaVars
    <3>2. (unzips' = None /\ StartUpdate) \/ (unzips' # None /\ UNCHANGED <<updating, undefined>>)
      BY <1>3, <2>2 DEF Unzipped, Unzipping, AtWork, Live
    <3>3. /\ AtWork' /\ unpacking' = {} /\ "unzip" \notin left' /\ xml' = NoTask /\ items' = {}
          /\ meta' = NoTask
      BY <2>2, <3>1 DEF Live, Unzipping, AtWork, callVars, xmlVars
    <3>4. CASE unzips' = None /\ StartUpdate
      <4>1. undefined' = FALSE /\ updating' # "none"
        BY <2>2, <3>4 DEF StartUpdate, Unzipping
      <4> QED
        BY <3>3, <3>4, <4>1 DEF StageGoal, StagesOK, Live, Updating, AtWork
    <3>5. CASE unzips' # None /\ UNCHANGED <<updating, undefined>>
      BY <2>2, <3>3, <3>5 DEF StageGoal, StagesOK, Live, Unzipping, AtWork
    <3> QED
      BY <3>2, <3>4, <3>5
  <2> QED
    BY <1>2, <2>1, <2>2
<1>4. CASE UnzipFails(r)
  <2>1. /\ told # "ok" /\ starts = 0 /\ undefined' = undefined
        /\ cancels' = 0 => meta' = NoTask /\ updating' = "none"
    BY <1>2, <1>4 DEF UnzipFails, Dead, Unzipping, AtWork, metaVars, updateVars, boundVars
  <2> QED
    BY <1>4, <2>1, EndsDead DEF UnzipFails, Finish
<1> QED
  BY <1>3, <1>4 DEF UnzipEnds

LEMMA StageUnpack ==
  ASSUME AlwaysInv, StagesOK, ~undefined, NEW a \in Archives, UnpackEnds(a) PROVE StageGoal
<1>1. unpacking # {}
  BY DEF UnpackEnds, Unpacked, UnpackFails
<1>2. (Unpacking /\ Live) \/ Dead
  BY <1>1, WhoActs DEF StagesOK, Unpacking, Dead, AtWork
<1>d. /\ told # "ok" /\ starts = 0
      /\ cancels = 0 => meta = NoTask /\ updating = "none"
  BY <1>2 DEF Dead, Unpacking, AtWork, NoTasks
<1>x. ASSUME NEW list, StartXml(list) PROVE xml'.state = "running"
  BY <1>x DEF StartXml, Task
<1>3. ASSUME NEW usable \in BOOLEAN, Unpacked(a, usable) PROVE StageGoal
  <2>1. UNCHANGED <<meta, unzips, left, updating, undefined, cancels>>
    BY <1>3 DEF Unpacked, metaVars, updateVars, boundVars
  <2>2. CASE UNCHANGED callVars /\ Dead
    BY <2>1, <2>2, StaysDead
  <2>3. CASE Finish("download", starts)
    BY <1>d, <2>1, <2>3, EndsDead DEF Finish
  <2>4. CASE UNCHANGED callVars /\ Unpacking /\ Live
    <3>1. AtWork' /\ NoTasks' /\ kind' = "compressed" /\ "unzip" \notin left' /\ "unpack" \notin left'
      BY <2>1, <2>4 DEF Unpacking, AtWork, NoTasks, Live, callVars
    <3>5. StartXml(items) \/ StartXml(items \cup {a}) \/ items' \subseteq Archives
      BY <1>3, <2>4 DEF Unpacked, Unpacking
    <3>2. CASE unpacking' = {} /\ xml'.state = "running"
      BY <2>1, <3>1, <3>2 DEF StageGoal, StagesOK, Live, Reading, AtWork
    <3>3. CASE unpacking' # {} /\ xml' = NoTask
      BY <1>x, <2>1, <3>1, <3>3, <3>5 DEF StageGoal, StagesOK, Live, Unpacking, AtWork, NoTask
    <3>4. \/ unpacking' = {} /\ xml'.state = "running"
          \/ unpacking' # {} /\ xml' = NoTask
          \/ Finish("download", starts)
      BY <1>3, <1>x, <2>4 DEF Unpacked, Unpacking
    <3> QED
      BY <2>3, <3>2, <3>3, <3>4
  <2>5. UNCHANGED callVars \/ Finish("download", starts)
    BY <1>3 DEF Unpacked
  <2> QED
    BY <1>2, <2>2, <2>3, <2>4, <2>5
<1>4. CASE UnpackFails(a)
  <2>1. Finish("extraction", starts) /\ updating' = updating /\ cancels' = cancels
    BY <1>4 DEF UnpackFails, Fail, boundVars
  <2>2. (meta = NoTask => meta' = NoTask) /\ undefined' = DeletesInUse
    BY <1>4 DEF UnpackFails, Fail, Reset, Canceled, NoTask
  <2>3. cancels \in Nat
    BY MetadataAssumption DEF AlwaysInv, MetadataTypeOK
  <2>4. undefined' => cancels' > 0
    <3>1. CASE cancels = 0
      <4>1. undefined' = FALSE
        BY <1>d, <2>2, <3>1 DEF DeletesInUse
      <4> QED
        BY <4>1
    <3> QED
      BY <2>1, <2>3, <3>1
  <2> QED
    BY <1>d, <2>1, <2>2, <2>4, EndsDead DEF Finish
<1> QED
  BY <1>3, <1>4 DEF UnpackEnds

LEMMA StageUpdate ==
  ASSUME AlwaysInv, StagesOK, ~undefined, UpdateRuns \/ UpdateEnds PROVE StageGoal
<1>1. (Updating /\ Live) \/ (Dead /\ cancels > 0)
  BY WhoActs DEF StagesOK, Updating, Dead, AtWork, UpdateRuns, UpdateEnds
<1>2. UNCHANGED <<undefined, cancels, xml, items, meta, unzips, unpacking, left>>
  BY DEF UpdateRuns, UpdateEnds, xmlVars, metaVars, unzipVars, boundVars
<1>3. CASE UNCHANGED callVars /\ Dead /\ cancels > 0
  BY <1>2, <1>3, StaysDead
<1>4. CASE UpdateRuns /\ Updating /\ Live
  <2>1. updating' # "none" /\ UNCHANGED callVars
    BY <1>4 DEF UpdateRuns
  <2> QED
    BY <1>2, <1>4, <2>1 DEF StageGoal, StagesOK, Live, Updating, AtWork, callVars
<1>5. CASE UpdateEnds /\ updating = "failed"
  <2>1. Finish("cache", starts) /\ updating' = "none"
    BY <1>5 DEF UpdateEnds
  <2>2. told # "ok" /\ starts = 0 /\ (cancels > 0 \/ meta = NoTask)
    BY <1>1 DEF Updating, AtWork, Dead
  <2>3. (cancels' = 0 => meta' = NoTask) /\ ~undefined'
    BY <1>2, <2>2
  <2>4. error' = "cache" /\ caller' = "idle" /\ starts' = 0 /\ (told' = told \/ told' = "failed")
    BY <2>1, <2>2 DEF Finish
  <2> QED
    BY <2>1, <2>2, <2>3, <2>4, EndsDead
<1>6. CASE UpdateEnds /\ updating # "failed" /\ Updating /\ Live
  <2>1. Finish("none", 0) /\ updating' = "none" /\ starts = 0 /\ told # "ok"
    BY <1>6 DEF UpdateEnds, Updating, AtWork
  <2>2. caller \in {"idle", "waiting"} /\ kind \in {"all", "compressed"}
    BY DEF AlwaysInv, MetadataTypeOK
  <2>3. CASE caller = "waiting" /\ kind = "all"
    <3>1. starts' = 1 /\ kind' = "compressed" /\ told' = told
      BY <2>1, <2>3 DEF Finish
    <3> QED
      BY <1>2, <1>6, <2>1, <3>1 DEF StageGoal, StagesOK, Live, Updating, Starting, NoTasks
  <2>4. CASE ~(caller = "waiting" /\ kind = "all")
    <3>1. starts' = 0 /\ caller' = "idle" /\ (told' = "ok" => kind' = "compressed")
      BY <2>1, <2>2, <2>4 DEF Finish
    <3> QED
      BY <1>2, <1>6, <2>1, <3>1 DEF StageGoal, StagesOK, Live, Updating, Resting, NoTasks
  <2> QED
    BY <2>3, <2>4
<1> QED
  <2>1. UpdateRuns => UNCHANGED callVars
    BY DEF UpdateRuns
  <2>2. UpdateEnds /\ updating # "failed" /\ Dead => UNCHANGED callVars
    BY DEF UpdateEnds, Dead
  <2> QED
    BY <1>1, <1>3, <1>4, <1>5, <1>6, <2>1, <2>2

\* A fetch that begins when nothing is left of an earlier one is in its first
\* stage, whatever the earlier one was.
LEMMA StageFetch ==
  ASSUME AlwaysInv, StageInv, ~undefined, FetchAll PROVE StageInv'
<1>1. ~undefined' /\ starts' = starts + 1 /\ told' = "none" /\ kind' = "all"
  BY DEF FetchAll
<1>2. UNCHANGED <<xml, meta, unzips, unpacking, left, updating>>
  BY DEF FetchAll, xmlVars, metaVars, unzipVars, updateVars
<1>3. CASE AtRest /\ starts = 0
  BY <1>1, <1>2, <1>3 DEF AtRest, StageInv, StagesOK, Live, Starting, NoTasks
<1>4. CASE ~(AtRest /\ starts = 0)
  BY <1>1, <1>4 DEF FetchAll, StageInv
<1> QED
  BY <1>3, <1>4

\* Only the begin of a fetch changes whether it is amid such tasks.
LEMMA TasksTaintStays ==
  ASSUME MetadataNext, ~FetchAll
  PROVE  "tasks" \in tainted' <=> "tasks" \in tainted
<1> DEFINE Same == tainted' \in {tainted, tainted \ {"flags"}, tainted \cup {"flags"}}
<1>1. Cancel => Same
  BY DEF Cancel
<1>2. Start => Same
  BY DEF Start, StartFailed, StartAll, StartRestarts, StartCompressed
<1>3. XmlEnds => Same
  BY DEF XmlEnds, XmlNext, XmlDropped, XmlParsed, XmlFails, XmlRestarts, Fail
<1>4. MetaEnds => Same
  BY DEF MetaEnds, MetaNext, MetaFetched, MetaFails
<1>5. ASSUME NEW r \in Repos, UnzipEnds(r) PROVE Same
  BY <1>5 DEF UnzipEnds, Unzipped, UnzipFails
<1>6. ASSUME NEW a \in Archives, UnpackEnds(a) PROVE Same
  BY <1>6 DEF UnpackEnds, Unpacked, UnpackFails, Fail
<1>7. UpdateRuns \/ UpdateEnds => Same
  BY DEF UpdateRuns, UpdateEnds
<1>8. Same
  BY <1>1, <1>2, <1>3, <1>4, <1>5, <1>6, <1>7 DEF MetadataNext
<1> QED
  BY <1>8

\* Every step keeps the stages.
LEMMA StageStep == AlwaysInv /\ StageInv /\ [MetadataNext]_metadataVars => StageInv'
<1> SUFFICES ASSUME AlwaysInv, StageInv, [MetadataNext]_metadataVars PROVE StageInv'
  OBVIOUS
<1>1. CASE UNCHANGED metadataVars
  BY <1>1 DEF StageInv, StagesOK, Live, Dead, Resting, Starting, Reading, Getting, Unzipping,
     Updating, Unpacking, AtWork, NoTasks, metadataVars, callVars, choiceVars, xmlVars, metaVars,
     flagVars, unzipVars, cacheVars, updateVars, boundVars
<1>2. CASE MetadataNext /\ FetchAll
  BY <1>2, StageFetch DEF MetadataNext
<1>3. CASE MetadataNext /\ ~FetchAll /\ "tasks" \in tainted
  BY <1>3, TasksTaintStays DEF StageInv
<1>4. CASE MetadataNext /\ ~FetchAll /\ "tasks" \notin tainted
  <2>1. ~undefined /\ StagesOK
    BY <1>4 DEF MetadataNext, StageInv
  <2>2. StageGoal
    BY <1>4, <2>1, StageCancel, StageStarts, StageXml, StageMeta, StageUnzip, StageUnpack,
       StageUpdate DEF MetadataNext
  <2> QED
    BY <2>2 DEF StageGoal, StageInv
<1> QED
  BY <1>1, <1>2, <1>3, <1>4

\* The stages hold of every reachable state.
LEMMA StageInvariant == MetadataSpec => [](AlwaysInv /\ StageInv)
<1>1. MetadataInit => AlwaysInv /\ StageInv
  BY MetadataInvInit DEF MetadataInv
<1> QED
  BY <1>1, AlwaysStep, StageStep, PTL DEF MetadataSpec

\* An error never deletes what a task of another thread uses (reset() deletes
\* m_fetchedMetadata under an UpdateCacheTask, doStart() the unzip tasks): only
\* a cancel can, or a fetch that begins amid the tasks of an earlier one.
THEOREM DeletedAfterCancelOnly == MetadataSpec => []DeletedInUseAfterCancel
<1>1. StageInv => DeletedInUseAfterCancel
  BY DEF StageInv, DeletedInUseAfterCancel
<1> QED
  BY <1>1, StageInvariant, PTL

-----------------------------------------------------------------------------
(* The repositories                                                        *)

LossGoal == ~undefined' /\ tainted' = {} => NothingLost'

Promised == Default \cup (IF enabled THEN Categorized ELSE {})
Waits == caller = "waiting" \/ told = "ok"

\* Outside the tasks a repository is in use or left out, or it is not known.
LEMMA PipeAtRest ==
  ASSUME ~AtWork PROVE Pipe = active \cup skipped
  BY DEF Pipe

LEMMA PipeAtWork ==
  ASSUME AtWork
  PROVE  Pipe = active \cup skipped \cup items \cup xml.of \cup xmlResults \cup fetched
  BY DEF Pipe

\* When reset() forgets what is fetched, nothing can be lost.
LEMMA NothingToLose ==
  ASSUME defaultsFetched' = FALSE, categoryFetched' = {}, fetched' = {},
         (caller' = "idle" /\ told' # "ok") \/ (Starting' /\ kind' = "all")
  PROVE  NothingLost'
<1>1. Starting' => told' # "ok"
  BY DEF Starting
<1>2. Starting' /\ kind' = "all" => Covered'
  BY DEF Covered
<1> QED
  BY <1>1, <1>2 DEF NothingLost, FlagsTrue, FetchedKept

\* A step within a fetch that moves repositories along and drops none.
LEMMA NothingDropped ==
  ASSUME NothingLost, Pipe \subseteq Pipe', FetchedKept',
         UNCHANGED <<enabled, defaultsFetched>>, categoryFetched' \subseteq categoryFetched \cup Pipe',
         Waits' => /\ Waits /\ ~(Starting /\ kind = "all")
                   /\ kind' = "compressed" /\ ~Starting'
                        => /\ kind = "compressed" /\ ~Starting /\ unpacked' = unpacked
                           /\ unpacking \subseteq Pipe' \cup unpacking'
  PROVE  NothingLost'
<1>1. FlagsTrue'
  BY DEF NothingLost, FlagsTrue
<1>2. Waits' => Covered'
  BY DEF NothingLost, Covered, Waits
<1> QED
  BY <1>1, <1>2 DEF NothingLost, Waits

LEMMA LossResets ==
  ASSUME AlwaysInv, StagesOK, ~undefined, StagesOK' \/ undefined',
         Cancel \/ XmlFails \/ XmlRestarts \/ MetaFails \/ \E a \in Archives : UnpackFails(a)
  PROVE  LossGoal
<1>1. defaultsFetched' = FALSE /\ categoryFetched' = {} /\ fetched' = {}
  BY DEF Cancel, XmlFails, XmlRestarts, MetaFails, UnpackFails, Fail, Reset
<1>2. CASE Cancel
  BY <1>1, <1>2, NothingToLose DEF Cancel, LossGoal
<1>3. CASE XmlFails \/ MetaFails \/ \E a \in Archives : UnpackFails(a)
  <2>1. told # "ok"
    <3>1. xml.state # "none" \/ meta.state # "none" \/ unpacking # {}
      BY <1>3 DEF XmlFails, MetaFails, UnpackFails
    <3>2. ~Resting
      BY <3>1 DEF Resting, NoTasks, NoTask
    <3> QED
      BY <3>2, WhoActs
  <2>2. caller' = "idle" /\ told' # "ok"
    BY <1>3, <2>1 DEF XmlFails, MetaFails, UnpackFails, Fail, Finish
  <2> QED
    BY <1>1, <2>2, NothingToLose DEF LossGoal
<1>4. CASE XmlRestarts
  <2> SUFFICES ASSUME ~undefined', tainted' = {} PROVE NothingLost'
    BY DEF LossGoal
  <2>1. kind = "all" /\ kind' = "all" /\ starts' = starts + 1
    BY <1>4 DEF XmlRestarts
  <2>2. starts = 0
    BY <1>4, WhoActs DEF XmlRestarts, Reading, AtWork
  <2>3. Starting'
    BY <2>1, <2>2 DEF StagesOK, Live, Dead, Resting, Starting, Reading, Getting, Unzipping,
       Updating, Unpacking, AtWork
  <2> QED
    BY <1>1, <2>1, <2>3, NothingToLose
<1> QED
  BY <1>2, <1>3, <1>4

LEMMA LossStartFailed ==
  ASSUME AlwaysInv, StagesOK, NothingLost, StartFailed PROVE NothingLost'
<1>1. Starting /\ ~AtWork /\ told # "ok"
  BY WhoActs DEF StartFailed, Starting, AtWork
<1>2. caller' = "idle" /\ told' # "ok" /\ error' # "none"
  BY <1>1 DEF StartFailed, Finish
<1>3. Pipe' = Pipe
  BY <1>1, <1>2, PipeAtRest DEF Pipe, AtWork, StartFailed, cacheVars
<1>4. fetched' = {}
  BY <1>1 DEF NothingLost, FetchedKept, StartFailed, updateVars
<1> QED
  BY <1>2, <1>3, <1>4, NothingDropped DEF Waits, FetchedKept, StartFailed, choiceVars, flagVars

LEMMA LossStartRestarts ==
  ASSUME AlwaysInv, StagesOK, StagesOK', StartRestarts, tainted' = {} PROVE NothingLost'
<1>1. starts > 0 /\ starts' = starts /\ kind' = "all"
  BY DEF StartRestarts
<1>2. Starting'
  BY <1>1, WhoActs DEF Starting, StagesOK, Live, Dead, Resting, Reading, Getting, Unzipping,
     Updating, Unpacking, AtWork
<1>3. defaultsFetched' = FALSE /\ categoryFetched' = {} /\ fetched' = {}
  BY DEF StartRestarts
<1> QED
  BY <1>1, <1>2, <1>3, NothingToLose

LEMMA LossStartCompressed ==
  ASSUME AlwaysInv, StagesOK, NothingLost, StartCompressed PROVE NothingLost'
<1>1. Starting /\ ~AtWork /\ told # "ok" /\ kind = "compressed" /\ starts = 1
  BY WhoActs DEF StartCompressed, Starting, AtWork
<1>2. fetched' = {} /\ FetchedKept'
  BY <1>1 DEF NothingLost, FetchedKept, StartCompressed, updateVars
<1>3. active \cup skipped \subseteq Pipe'
  BY DEF Pipe, StartCompressed
<1>4. Pipe \subseteq Pipe'
  BY <1>1, <1>3, PipeAtRest
<1>5. unpacked' \subseteq unpacking' /\ kind' = "compressed" /\ starts' = 0
  BY <1>1 DEF StartCompressed, Finish
<1>6. Waits' => caller = "waiting"
  <2>1. caller \in {"idle", "waiting"}
    BY DEF AlwaysInv, MetadataTypeOK
  <2> QED
    BY <1>1, <2>1 DEF Waits, StartCompressed, Finish
<1>7. UNCHANGED <<enabled, flagVars>>
  BY DEF StartCompressed
<1>8. FlagsTrue'
  BY <1>4, <1>7 DEF NothingLost, FlagsTrue, flagVars
<1>9. Waits' => Covered'
  BY <1>1, <1>4, <1>5, <1>6, <1>7 DEF NothingLost, Covered
<1> QED
  BY <1>2, <1>8, <1>9 DEF NothingLost, Waits

LEMMA LossStartAll ==
  ASSUME AlwaysInv, StagesOK, NothingLost, StartAll PROVE NothingLost'
<1>1. /\ Starting /\ ~AtWork /\ told # "ok" /\ starts = 1 /\ kind = "all"
      /\ xml.of = {} /\ xmlResults = {}
  BY WhoActs DEF StartAll, Starting, AtWork, AlwaysInv, ListsHaveTasks, NoTask
<1>2. fetched' = {} /\ FetchedKept'
  BY <1>1 DEF NothingLost, FetchedKept, StartAll, updateVars
<1>3. PICK hit \in SUBSET (Wanted \cap cache \cap KnownSum) :
        LET broken == (Wanted \ hit) \cap KnownSum
            list == items \cup (Wanted \ hit)
        IN /\ cache' = cache \ broken /\ active' = (active \ broken) \cup hit
           /\ categoryFetched' = categoryFetched \cup (hit \cap Categorized)
           /\ IF list = {} THEN Finish("none", starts - 1) /\ UNCHANGED <<items, xml>>
              ELSE /\ StartXml(list) /\ error' = "none" /\ starts' = starts - 1
                   /\ UNCHANGED <<caller, kind, told>>
  BY DEF StartAll
<1> DEFINE list == items \cup (Wanted \ hit)
<1>4. list \subseteq Pipe'
  <2>1. CASE list # {}
    <3>1. list \subseteq items' \cup xml'.of
      BY <1>3, <2>1 DEF StartXml, Task
    <3>2. AtWork'
      BY <1>1, <1>3, <2>1 DEF AtWork
    <3> QED
      BY <3>1, <3>2 DEF Pipe
  <2> QED
    BY <2>1
<1>5. Wanted \subseteq Pipe'
  BY <1>3, <1>4 DEF Pipe
<1>6. Pipe \subseteq Pipe'
  <2>1. Pipe \subseteq active \cup skipped
    BY <1>1, PipeAtRest
  <2>2. active \ Wanted \subseteq Pipe' /\ skipped \ Wanted \subseteq Pipe'
    BY <1>3 DEF Pipe, StartAll
  <2> QED
    BY <1>5, <2>1, <2>2
<1>7. Promised \subseteq Pipe'
  BY <1>5, <1>6 DEF NothingLost, FlagsTrue, Wanted, Promised
<1>8. defaultsFetched' /\ enabled' = enabled /\ categoryFetched' \subseteq categoryFetched \cup hit
  BY <1>3 DEF StartAll, choiceVars
<1>9. FlagsTrue'
  BY <1>3, <1>5, <1>6, <1>7, <1>8 DEF NothingLost, FlagsTrue, Promised
<1>10. Covered' \/ ~Waits'
  <2>1. CASE kind' = "all" \/ Starting'
    BY <1>7, <1>8, <2>1 DEF Covered, Promised
  <2>2. CASE kind' # "all" /\ ~Starting'
    <3>1. list = {} /\ Finish("none", starts - 1)
      BY <1>1, <1>3, <2>2
    <3>2. starts' = 1 /\ told' = told
      BY <1>1, <2>2, <3>1 DEF Finish
    <3>3. xml' = xml /\ items' = {}
      BY <1>3, <3>1
    <3>4. UNCHANGED <<meta, unzips, unpacking, updating>>
      BY DEF StartAll, unzipVars, updateVars
    <3> QED
      BY <1>1, <2>2, <3>2, <3>3, <3>4 DEF Starting, NoTasks
  <2> QED
    BY <2>1, <2>2
<1> QED
  BY <1>2, <1>9, <1>10 DEF NothingLost, Waits

\* A step that goes on with the fetch it is in.
LEMMA NothingDroppedWithin ==
  ASSUME NothingLost, Pipe \subseteq Pipe', FetchedKept', starts = 0,
         UNCHANGED <<caller, kind, told, enabled, defaultsFetched, unpacked>>,
         categoryFetched' \subseteq categoryFetched \cup Pipe',
         unpacking \subseteq Pipe' \cup unpacking'
  PROVE  NothingLost'
<1>1. ~Starting
  BY DEF Starting
<1> QED
  BY <1>1, NothingDropped DEF Waits

\* The end of the whole fetch without success.
LEMMA NothingDroppedAtEnd ==
  ASSUME NothingLost, FetchedKept', FlagsTrue', caller' = "idle", told' # "ok"
  PROVE  NothingLost'
  BY DEF NothingLost

\* A fetch holds metadata only between its parsing and its update.
LEMMA FetchedEmpty ==
  ASSUME NothingLost,
         Dead \/ starts > 0 \/ (meta = NoTask /\ unzips = None /\ updating \in {"none", "registered"})
  PROVE  fetched = {}
  BY DEF NothingLost, FetchedKept, Dead, AtWork, NoTask

LEMMA LossXmlNext ==
  ASSUME AlwaysInv, StagesOK, NothingLost, XmlNext PROVE NothingLost'
<1>1. Reading \/ Dead
  BY WhoActs DEF XmlNext
<1>2. fetched' = {} /\ starts = 0
  BY <1>1, FetchedEmpty DEF XmlNext, updateVars, Reading, NoTasks, Dead, AtWork
<1>3. AtWork' = AtWork
  BY DEF XmlNext, callVars, AtWork
<1>4. items \subseteq items' \cup xml'.of
  BY DEF XmlNext, StartXml, Task
<1>5. Pipe \subseteq Pipe'
  <2>1. CASE Reading
    <3>1. xml.of \cup xmlResults \subseteq xmlResults'
      BY <2>1 DEF XmlNext, Reading
    <3> QED
      BY <1>3, <1>4, <3>1 DEF Pipe, XmlNext, cacheVars, updateVars
  <2>2. CASE Dead
    BY <1>3, <2>2 DEF Pipe, XmlNext, cacheVars, Dead, AtWork
  <2> QED
    BY <1>1, <2>1, <2>2
<1> QED
  BY <1>2, <1>5, NothingDroppedWithin
     DEF FetchedKept, XmlNext, callVars, choiceVars, flagVars, unzipVars

LEMMA LossXmlDropped ==
  ASSUME AlwaysInv, StagesOK, NothingLost, XmlDropped PROVE NothingLost'
<1>1. Dead
  BY WhoActs DEF XmlDropped, Reading, AtWork
<1>2. fetched' = {} /\ starts = 0
  BY <1>1, FetchedEmpty DEF XmlDropped, updateVars, Dead
<1>3. Pipe' = Pipe
  BY <1>1 DEF XmlDropped, callVars, cacheVars, AtWork, Pipe, Dead
<1> QED
  BY <1>2, <1>3, NothingDroppedWithin
     DEF FetchedKept, XmlDropped, callVars, choiceVars, flagVars, unzipVars

LEMMA LossXmlParsed ==
  ASSUME AlwaysInv, StagesOK, NothingLost, XmlParsed PROVE NothingLost'
<1>1. Reading
  BY WhoActs DEF XmlParsed
<1>2. AtWork /\ AtWork'
  BY <1>1 DEF Reading, AtWork, XmlParsed, callVars
<1> DEFINE results == xmlResults \cup xml.of
<1>3. PICK bad, hit :
        /\ skipped' = (skipped \ results) \cup bad
        /\ active' = (active \ (results \ (bad \cup hit))) \cup hit
        /\ fetched' = fetched \cup (results \ (bad \cup hit))
        /\ categoryFetched'
             = categoryFetched \cup ((hit \cup (results \ (bad \cup hit))) \cap Categorized)
  BY <1>1 DEF XmlParsed, Reading
<1>4. results \subseteq Pipe' /\ fetched \subseteq Pipe'
  BY <1>2, <1>3, PipeAtWork DEF Pipe
<1>5. active \subseteq Pipe' /\ skipped \subseteq Pipe' /\ items = {}
  <2>1. active \subseteq active' \cup results /\ skipped \subseteq skipped' \cup results
    BY <1>3
  <2> QED
    BY <1>4, <2>1 DEF Pipe, XmlParsed
<1>6. Pipe \subseteq Pipe'
  BY <1>2, <1>4, <1>5, PipeAtWork
<1>7. categoryFetched' \subseteq categoryFetched \cup Pipe'
  BY <1>2, <1>3 DEF Pipe
<1>8. meta'.state = "running" \/ updating' = "running"
  BY DEF XmlParsed, StartMeta, StartUpdate, Task
<1> QED
  BY <1>2, <1>6, <1>7, <1>8, NothingDroppedWithin
     DEF FetchedKept, XmlParsed, callVars, choiceVars, unzipVars, AtWork

LEMMA LossMeta ==
  ASSUME AlwaysInv, StagesOK, NothingLost, MetaNext \/ MetaFetched PROVE NothingLost'
<1>1. (Getting /\ Live) \/ Dead
  BY WhoActs DEF MetaNext, MetaFetched, StagesOK, Getting, AtWork, Dead
<1>2. starts = 0 /\ AtWork' = AtWork
  BY <1>1 DEF Getting, Dead, AtWork, MetaNext, MetaFetched, callVars
<1>3. Pipe' = Pipe
  BY <1>2 DEF Pipe, MetaNext, MetaFetched, cacheVars, xmlVars, updateVars
<1>4. FetchedKept'
  <2>1. CASE Dead
    BY <2>1, FetchedEmpty DEF FetchedKept, MetaNext, MetaFetched, updateVars
  <2>2. CASE Getting /\ Live
    <3>1. meta'.state = "running" \/ unzips' # None \/ updating' = "running"
      BY <2>2 DEF MetaNext, MetaFetched, StartMeta, StartUpdate, Task, Live
    <3> QED
      BY <1>2, <2>2, <3>1 DEF FetchedKept, Getting
  <2> QED
    BY <1>1, <2>1, <2>2
<1> QED
  BY <1>2, <1>3, <1>4, NothingDroppedWithin
     DEF MetaNext, MetaFetched, callVars, choiceVars, flagVars, unzipVars

LEMMA LossUnzipped ==
  ASSUME AlwaysInv, StagesOK, NothingLost, NEW r \in Repos, Unzipped(r) PROVE NothingLost'
<1>1. (Unzipping /\ Live) \/ Dead
  BY WhoActs DEF Unzipped, StagesOK, Unzipping, AtWork, Dead
<1>2. starts = 0 /\ AtWork' = AtWork
  BY <1>1 DEF Unzipping, Dead, AtWork, Unzipped, callVars
<1>3. Pipe' = Pipe
  BY <1>2 DEF Pipe, Unzipped, cacheVars, xmlVars
<1>4. FetchedKept'
  <2>1. CASE Dead
    BY <2>1, FetchedEmpty DEF FetchedKept, Unzipped
  <2>2. CASE Unzipping /\ Live
    <3>1. unzips' # None \/ updating' = "running"
      BY <2>2 DEF Unzipped, StartUpdate, Live, Unzipping, AtWork
    <3> QED
      BY <1>2, <2>2, <3>1 DEF FetchedKept, Unzipping
  <2> QED
    BY <1>1, <2>1, <2>2
<1> QED
  BY <1>2, <1>3, <1>4, NothingDroppedWithin DEF Unzipped, callVars, choiceVars, flagVars

LEMMA LossUnpacked ==
  ASSUME AlwaysInv, StagesOK, NothingLost, NEW a \in Archives, NEW usable \in BOOLEAN,
         Unpacked(a, usable)
  PROVE  NothingLost'
<1> DEFINE list == IF usable THEN items \cup {a} ELSE items
<1>1. Unpacking \/ Dead
  BY WhoActs DEF Unpacked
<1>2. fetched' = {} /\ starts = 0 /\ FetchedKept'
  BY <1>1, FetchedEmpty DEF Unpacked, updateVars, Unpacking, NoTasks, Dead, AtWork, FetchedKept
<1>3. UNCHANGED <<active, flagVars, enabled, unpacked, xmlResults>>
  BY DEF Unpacked, cacheVars, choiceVars
<1>4. skipped \ {a} \subseteq skipped' /\ (~usable => a \in skipped')
  BY DEF Unpacked
<1>5. Promised \subseteq Default \cup Categorized /\ a \notin Default \cup Categorized
  BY MetadataAssumption DEF Promised
<1>6. FlagsTrue'
  <2>1. Default \cap Pipe \subseteq Pipe' /\ Categorized \cap Pipe \subseteq Pipe'
    <3>1. (Default \cup Categorized) \cap Pipe \subseteq active \cup skipped
      <4>1. CASE Dead
        BY <4>1 DEF Pipe, Dead, AtWork
      <4>2. CASE Unpacking
        <5>1. items \subseteq Archives /\ xml.of = {} /\ xmlResults = {} /\ fetched = {}
          BY <4>2, FetchedEmpty
             DEF Unpacking, AlwaysInv, ListsHaveTasks, NoTask, NoTasks
        <5> QED
          BY <5>1, MetadataAssumption DEF Pipe
      <4> QED
        BY <1>1, <4>1, <4>2
    <3>2. active \cup skipped' \subseteq Pipe'
      BY <1>3 DEF Pipe
    <3> QED
      BY <1>4, <1>5, <3>1, <3>2
  <2>2. categoryFetched \subseteq Categorized
    BY DEF AlwaysInv, MetadataTypeOK
  <2> QED
    BY <1>3, <2>1, <2>2 DEF NothingLost, FlagsTrue, flagVars
<1>7. CASE Finish("download", starts)
  <2>1. caller' = "idle" /\ told' # "ok"
    BY <1>1, <1>7 DEF Finish, Unpacking, Dead, AtWork
  <2> QED
    BY <1>2, <1>6, <2>1, NothingDroppedAtEnd
<1>8. CASE UNCHANGED callVars /\ Dead
  BY <1>2, <1>6, <1>8, NothingDroppedAtEnd DEF Dead, callVars
<1>9. CASE UNCHANGED callVars /\ Unpacking
  <2>1. AtWork /\ AtWork' /\ xml.of = {} /\ xmlResults = {} /\ fetched = {}
    BY <1>9, FetchedEmpty
       DEF Unpacking, AtWork, callVars, AlwaysInv, ListsHaveTasks, NoTask, NoTasks
  <2>2. list \subseteq items' \cup xml'.of
    BY DEF Unpacked, StartXml, Task
  <2>3. list \subseteq Pipe' /\ active \cup skipped' \subseteq Pipe'
    BY <1>3, <2>1, <2>2 DEF Pipe
  <2>4. a \in Pipe'
    BY <1>4, <2>3
  <2>5. Pipe \subseteq Pipe'
    <3>1. Pipe = active \cup skipped \cup items
      BY <2>1 DEF Pipe
    <3> QED
      BY <1>4, <2>3, <2>4, <3>1
  <2>6. unpacking \subseteq Pipe' \cup unpacking'
    BY <2>4 DEF Unpacked
  <2> QED
    BY <1>2, <1>3, <1>9, <2>5, <2>6, NothingDroppedWithin DEF callVars, flagVars
<1>10. UNCHANGED callVars \/ Finish("download", starts)
  BY DEF Unpacked
<1> QED
  BY <1>1, <1>7, <1>8, <1>9, <1>10

LEMMA LossUpdateRuns ==
  ASSUME AlwaysInv, StagesOK, NothingLost, UpdateRuns PROVE NothingLost'
<1>1. Updating \/ Dead
  BY WhoActs DEF UpdateRuns
<1>2. starts = 0 /\ AtWork' = AtWork
  BY <1>1 DEF Updating, Dead, AtWork, UpdateRuns, callVars
<1>3. active \subseteq active' /\ fetched \subseteq fetched' \cup active'
  BY DEF UpdateRuns
<1>4. Pipe \subseteq Pipe'
  BY <1>2, <1>3 DEF Pipe, UpdateRuns, xmlVars
<1>5. FetchedKept'
  <2>1. CASE Dead
    BY <2>1, FetchedEmpty DEF FetchedKept, UpdateRuns
  <2>2. CASE Updating
    BY <1>2, <2>2 DEF FetchedKept, UpdateRuns, Updating
  <2> QED
    BY <1>1, <2>1, <2>2
<1> QED
  BY <1>2, <1>4, <1>5, NothingDroppedWithin
     DEF UpdateRuns, callVars, choiceVars, flagVars, unzipVars

LEMMA LossUpdateEnds ==
  ASSUME AlwaysInv, StagesOK, StagesOK', NothingLost, UpdateEnds, tainted' = {}
  PROVE  NothingLost'
<1>1. updating = "registered"
  BY DEF UpdateEnds
<1>2. Updating \/ Dead
  BY <1>1, WhoActs
<1>3. fetched' = {} /\ starts = 0 /\ FetchedKept'
  BY <1>1, <1>2, FetchedEmpty DEF UpdateEnds, Updating, Dead, AtWork, FetchedKept
<1>4. Pipe = active \cup skipped
  <2>1. CASE Updating
    BY <1>3, <2>1 DEF Pipe, Updating, AlwaysInv, ListsHaveTasks, NoTask, UpdateEnds
  <2>2. CASE Dead
    BY <2>2, PipeAtRest DEF Dead, AtWork
  <2> QED
    BY <1>2, <2>1, <2>2
<1>5. Pipe \subseteq Pipe'
  BY <1>4 DEF Pipe, UpdateEnds, cacheVars
<1>6. UNCHANGED <<enabled, defaultsFetched, categoryFetched, unpacked, unpacking>>
  BY DEF UpdateEnds, choiceVars, flagVars, unzipVars
<1>7. CASE UNCHANGED callVars
  BY <1>3, <1>5, <1>6, <1>7, NothingDroppedWithin DEF callVars
<1>8. CASE Updating /\ Finish("none", starts)
  <2>1. unpacking = {} /\ ~Starting /\ told # "ok"
    BY <1>8 DEF Updating, Starting, AtWork
  <2>2. caller \in {"idle", "waiting"} /\ kind \in {"all", "compressed"}
    BY DEF AlwaysInv, MetadataTypeOK
  <2>3. CASE caller = "waiting" /\ kind = "all"
    <3>1. starts' = 1 /\ kind' = "compressed"
      BY <1>3, <1>8, <2>3 DEF Finish
    <3>2. Starting'
      BY <3>1 DEF StagesOK, Live, Dead, Resting, Starting, Reading, Getting, Unzipping,
         Updating, Unpacking, AtWork
    <3> QED
      BY <1>3, <1>5, <1>6, <2>1, <2>3, <3>2, NothingDropped DEF Waits
  <2>4. CASE caller = "waiting" /\ kind = "compressed"
    <3>1. kind' = "compressed"
      BY <1>8, <2>4 DEF Finish
    <3> QED
      BY <1>3, <1>5, <1>6, <2>1, <2>4, <3>1, NothingDropped DEF Waits
  <2>5. CASE caller = "idle"
    <3>1. ~Waits'
      BY <1>8, <2>1, <2>5 DEF Finish, Waits
    <3> QED
      BY <1>3, <1>5, <1>6, <3>1, NothingDropped
  <2> QED
    BY <2>2, <2>3, <2>4, <2>5
<1> QED
  BY <1>1, <1>2, <1>7, <1>8 DEF UpdateEnds, Dead

LEMMA LossFetch ==
  ASSUME AlwaysInv, StageInv, ~undefined, (tainted = {} => NothingLost), FetchAll, tainted' = {}
  PROVE  NothingLost'
<1>1. AtRest /\ starts = 0 /\ ("tasks" \in tainted => AsNew) /\ "flags" \notin tainted
  BY DEF FetchAll
<1>2. /\ UNCHANGED <<defaultsFetched, categoryFetched, fetched, active, skipped>>
      /\ kind' = "all" /\ starts' = 1
  BY <1>1 DEF FetchAll, flagVars, updateVars, cacheVars
<1>3. Starting' /\ ~AtWork'
  <2>1. /\ UNCHANGED <<xml, meta, unzips, unpacking, updating>> /\ told' = "none"
    BY DEF FetchAll, xmlVars, metaVars, unzipVars, updateVars
  <2> QED
    BY <1>1, <1>2, <2>1 DEF Starting, AtRest, NoTasks, AtWork
<1>4. CASE "tasks" \in tainted
  BY <1>1, <1>2, <1>3, <1>4, NothingToLose DEF AsNew, AlwaysInv, MetadataTypeOK
<1>5. CASE "tasks" \notin tainted
  <2>1. NothingLost /\ StagesOK
    BY <1>1, <1>5 DEF StageInv, AlwaysInv, MetadataTypeOK
  <2>2. fetched = {}
    BY <1>1, <2>1, FetchedEmpty DEF AtRest
  <2>3. Resting \/ Dead
    BY <1>1, <2>1 DEF AtRest, StagesOK, Live, Starting, Reading, Getting, Unzipping, Updating,
       Unpacking, NoTask
  <2>4. Pipe = active \cup skipped
    BY <2>2, <2>3 DEF Pipe, Resting, Dead, AtWork, AlwaysInv, ListsHaveTasks, NoTask
  <2>5. Pipe' = Pipe
    BY <1>2, <1>3, <2>4 DEF Pipe
  <2> QED
    BY <1>2, <1>3, <2>1, <2>2, <2>5 DEF NothingLost, FlagsTrue, FetchedKept, Covered, Starting
<1> QED
  BY <1>4, <1>5

\* A failed unzip or update is remembered.
LEMMA FlagsTaint ==
  ASSUME (\E r \in Repos : UnzipFails(r)) \/ (UpdateEnds /\ updating = "failed")
  PROVE  tainted' # {}
  BY DEF UnzipFails, UpdateEnds

\* What was not tainted before a step of a fetch, unless it is reset.
LEMMA TaintGrows ==
  ASSUME MetadataNext, ~FetchAll, tainted' = {},
         ~(Cancel \/ XmlFails \/ XmlRestarts \/ MetaFails \/ \E a \in Archives : UnpackFails(a))
  PROVE  tainted = {}
<1>1. Start => tainted \subseteq tainted'
  BY DEF Start, StartFailed, StartAll, StartRestarts, StartCompressed
<1>2. XmlEnds => tainted \subseteq tainted'
  BY DEF XmlEnds, XmlNext, XmlDropped, XmlParsed
<1>3. MetaEnds => tainted \subseteq tainted'
  BY DEF MetaEnds, MetaNext, MetaFetched
<1>4. ASSUME NEW r \in Repos, UnzipEnds(r) PROVE tainted \subseteq tainted'
  BY <1>4 DEF UnzipEnds, Unzipped, UnzipFails
<1>5. ASSUME NEW a \in Archives, UnpackEnds(a) PROVE tainted \subseteq tainted'
  BY <1>5 DEF UnpackEnds, Unpacked
<1>6. UpdateRuns \/ UpdateEnds => tainted \subseteq tainted'
  BY DEF UpdateRuns, UpdateEnds
<1>7. tainted \subseteq tainted'
  BY <1>1, <1>2, <1>3, <1>4, <1>5, <1>6 DEF MetadataNext
<1> QED
  BY <1>7

\* Every step keeps the repositories.
LEMMA MetadataInvStep == MetadataInv /\ [MetadataNext]_metadataVars => MetadataInv'
<1> SUFFICES ASSUME MetadataInv, [MetadataNext]_metadataVars PROVE MetadataInv'
  OBVIOUS
<1>1. AlwaysInv' /\ StageInv'
  BY AlwaysStep, StageStep DEF MetadataInv
<1>2. SUFFICES LossGoal
  BY <1>1, <1>2 DEF MetadataInv, LossGoal
<1>3. AlwaysInv /\ StageInv /\ (~undefined /\ tainted = {} => NothingLost)
  BY DEF MetadataInv
<1>4. CASE UNCHANGED metadataVars
  BY <1>3, <1>4 DEF LossGoal, NothingLost, FlagsTrue, FetchedKept, Covered, Pipe, AtWork, Starting,
     NoTasks, metadataVars, callVars, choiceVars, xmlVars, metaVars, flagVars, unzipVars,
     cacheVars, updateVars, boundVars
<1>5. CASE MetadataNext
  <2> SUFFICES ASSUME ~undefined', tainted' = {} PROVE NothingLost'
    BY DEF LossGoal
  <2>1. ~undefined
    BY <1>5 DEF MetadataNext
  <2>2. StagesOK'
    BY <1>1 DEF StageInv
  <2>3. CASE FetchAll
    BY <1>3, <2>1, <2>3, LossFetch
  <2>4. CASE ~FetchAll
    <3>1. StagesOK
      BY <1>3, <1>5, <2>1, <2>4, TasksTaintStays DEF StageInv
    <3> DEFINE Resets == Cancel \/ XmlFails \/ XmlRestarts \/ MetaFails
                         \/ \E a \in Archives : UnpackFails(a)
    <3>2. CASE Resets
      BY <1>3, <2>1, <2>2, <3>1, <3>2, LossResets DEF LossGoal
    <3>3. CASE ~Resets
      <4>1. NothingLost
        BY <1>3, <1>5, <2>1, <2>4, <3>3, TaintGrows
      <4>2. Start => NothingLost'
        BY <1>3, <2>2, <3>1, <4>1, LossStartFailed, LossStartAll, LossStartRestarts,
           LossStartCompressed DEF Start
      <4>3. XmlEnds => NothingLost'
        BY <1>3, <3>1, <3>3, <4>1, LossXmlNext, LossXmlDropped, LossXmlParsed DEF XmlEnds
      <4>4. MetaEnds => NothingLost'
        BY <1>3, <3>1, <3>3, <4>1, LossMeta DEF MetaEnds
      <4>5. ASSUME NEW r \in Repos, UnzipEnds(r) PROVE NothingLost'
        BY <1>3, <3>1, <4>1, <4>5, LossUnzipped, FlagsTaint DEF UnzipEnds
      <4>6. ASSUME NEW a \in Archives, UnpackEnds(a) PROVE NothingLost'
        BY <1>3, <3>1, <3>3, <4>1, <4>6, LossUnpacked DEF UnpackEnds
      <4>7. UpdateRuns \/ UpdateEnds => NothingLost'
        BY <1>3, <2>2, <3>1, <4>1, LossUpdateRuns, LossUpdateEnds
      <4> QED
        BY <1>5, <2>4, <3>3, <4>2, <4>3, <4>4, <4>5, <4>6, <4>7 DEF MetadataNext
    <3> QED
      BY <3>2, <3>3
  <2> QED
    BY <2>3, <2>4
<1> QED
  BY <1>4, <1>5

LEMMA MetadataInvariant == MetadataSpec => []MetadataInv
  BY MetadataInvInit, MetadataInvStep, PTL DEF MetadataSpec

\* A fetch that reports success leaves in use every repository it was asked
\* for that is not unusable -- the default ones, those of an enabled category,
\* the archives given -- and no task, list or watcher for a later fetch: for
\* any repositories, chunk size and number of fetches, cancels and restarts.
THEOREM SuccessIsFetched == MetadataSpec => []SuccessMeansFetched
<1>1. MetadataInv => SuccessMeansFetched
  <2> SUFFICES ASSUME MetadataInv, caller = "idle", told = "ok", tainted = {}, ~undefined
               PROVE  /\ (Promised \cup unpacked) \ skipped \subseteq active
                      /\ AtRest /\ items = {} /\ packages = {} /\ fetched = {}
    BY DEF SuccessMeansFetched, Promised
  <2>1. AlwaysInv /\ StagesOK /\ NothingLost
    BY DEF MetadataInv, StageInv
  <2>2. Resting /\ kind = "compressed" /\ Live /\ ~AtWork /\ ~Starting
    BY <2>1 DEF StagesOK, Dead, AtWork, Starting
  <2>3. AtRest /\ items = {} /\ packages = {}
    BY <2>1, <2>2 DEF Resting, Live, AtRest, NoTasks, NoTask, AlwaysInv, ListsHaveTasks
  <2>4. fetched = {}
    BY <2>1, <2>2, FetchedEmpty DEF Resting, NoTasks
  <2>5. Promised \cup unpacked \subseteq Pipe \cup unpacking
    BY <2>1, <2>2 DEF NothingLost, Covered, Promised
  <2>6. Pipe \cup unpacking = active \cup skipped
    BY <2>2, PipeAtRest DEF Resting
  <2> QED
    BY <2>3, <2>4, <2>5, <2>6
<1> QED
  BY <1>1, MetadataInvariant, PTL
============================================================================
