---------------------------- MODULE MetadataCache ----------------------------
(***************************************************************************)
(* QInstaller::GenericDataCache<Metadata> in a directory that several      *)
(* processes may use, one after the other under the lock of cache.lock     *)
(* and, when that fails, at once: a directory per item, named by its       *)
(* checksum, and manifest.json, which names the items.  A process may end  *)
(* without a word between any two changes of the directory.                *)
(*                                                                         *)
(* The calls of one process are serialised by m_mutex, so each process is  *)
(* in one of them at a time; what it needs to be valid is that all files   *)
(* of an item are there.  The manifest can be opened and removed.          *)
(***************************************************************************)
EXTENDS LockFile

CONSTANTS
  Items,      \* the checksums
  MaxCrashes  \* bound

ASSUME CacheAssumption == MaxCrashes \in Nat

VARIABLES
  phase,     \* where each process is
  at,        \* the item it is at
  items,     \* m_items
  active,    \* those found valid or registered by this process
  dir,       \* the directory of each item: "none", "part" or "whole"
  manifest,  \* the items named on disk, or that there is "no" file or a "cut" one
  crashes

processVars == <<phase, at, items, active>>
diskVars == <<dir, manifest>>
cacheVars == <<lockVars, processVars, diskVars, crashes>>

\* removing: remove() for removeItem().  room, moving: registerItem().  sync:
\* toDisk().  last: toDisk() of setPath() or the destructor.  clearing: clear().
Busy == {"removing", "room", "moving", "sync", "last", "clearing"}
Phases == {"off", "lock", "load", "valid", "leave"} \cup Busy

CacheTypeOK ==
  /\ LockTypeOK
  /\ phase \in [Processes -> Phases] /\ at \in [Processes -> Items]
  /\ items \in [Processes -> SUBSET Items] /\ active \in [Processes -> SUBSET Items]
  /\ \A p \in Processes : active[p] \subseteq items[p]
  /\ \A p \in Processes : phase[p] \in {"off", "lock", "load", "leave"} => items[p] = {}
  /\ \A p \in Processes : (p \in locked) = (phase[p] \in {"load", "valid"} \cup Busy)
  /\ \A p \in Processes : (p \in leaving) = (phase[p] = "leave")
  /\ dir \in [Items -> {"none", "part", "whole"}]
  /\ manifest \in {<<"no">>, <<"cut">>} \cup {<<"of", s>> : s \in SUBSET Items}
  /\ crashes \in 0..MaxCrashes

CacheInit ==
  /\ LockInit
  /\ phase = [p \in Processes |-> "off"] /\ at \in [Processes -> Items]
  /\ \A p, q \in Processes : at[p] = at[q]
  /\ items = [p \in Processes |-> {}] /\ active = [p \in Processes |-> {}]
  /\ dir = [i \in Items |-> "none"] /\ manifest = <<"no">> /\ crashes = 0

Goes(p, from, to) == phase[p] \in from /\ phase' = [phase EXCEPT ![p] = to]

-----------------------------------------------------------------------------
(* initialize()                                                            *)

Initialize(p) ==
  /\ Goes(p, {"off"}, "lock") /\ OpenLock(p)
  /\ UNCHANGED <<at, items, active, diskVars, crashes>>

Lock(p) ==
  /\ phase[p] = "lock" /\ TryLock(p)
  /\ phase' = [phase EXCEPT ![p] = IF p \in locked' THEN "load" ELSE "off"]
  /\ UNCHANGED <<at, items, active, diskVars, crashes>>

\* fromDisk(): an empty manifest has another type, its items are discarded.
Load(p) ==
  /\ Goes(p, {"load"}, "valid")
  /\ items' = [items EXCEPT ![p] = IF manifest[1] = "of" THEN manifest[2] ELSE {}]
  /\ UNCHANGED <<lockVars, at, active, diskVars, crashes>>

-----------------------------------------------------------------------------
(* removeItem(), registerItem(), sync()                                    *)

\* itemByChecksum() for a repository, and isValid().
Use(p, i) ==
  /\ phase[p] = "valid" /\ i \in items[p] /\ dir[i] = "whole"
  /\ active' = [active EXCEPT ![p] = @ \cup {i}]
  /\ UNCHANGED <<lockVars, phase, at, items, diskVars, crashes>>

\* Mutation: the item is only taken out when its directory is removed.
BeginKeeping(p, i, what) ==
  /\ Goes(p, {"valid"}, what) /\ at' = [at EXCEPT ![p] = i]
  /\ active' = [active EXCEPT ![p] = @ \ {i}] /\ UNCHANGED items
  /\ dir' = [dir EXCEPT ![i] = IF @ = "none" THEN @ ELSE "part"]
  /\ UNCHANGED <<lockVars, manifest, crashes>>

\* The item, if there is one, is taken out of m_items, and the removal of what
\* is in its directory begins.
Begin(p, i, what) ==
  /\ Goes(p, {"valid"}, what) /\ at' = [at EXCEPT ![p] = i]
  /\ items' = [items EXCEPT ![p] = @ \ {i}] /\ active' = [active EXCEPT ![p] = @ \ {i}]
  /\ dir' = [dir EXCEPT ![i] = IF @ = "none" THEN @ ELSE "part"]
  /\ UNCHANGED <<lockVars, manifest, crashes>>

\* A broken item, an obsolete one, or one that a compressed repository replaces.
RemoveItem(p, i) == i \in items[p] /\ Begin(p, i, "removing")

RegisterItem(p, i) == Begin(p, i, "room")

\* The directory is gone; removeItem() is over, registerItem() goes on.
Removed(p) ==
  /\ \/ Goes(p, {"removing"}, "valid") \/ Goes(p, {"room"}, "moving")
  /\ dir' = [dir EXCEPT ![at[p]] = "none"]
  /\ UNCHANGED <<lockVars, at, items, active, manifest, crashes>>

\* Something cannot be removed or moved: false is returned.
Fails(p) ==
  /\ Goes(p, {"removing", "room", "moving"}, "valid")
  /\ UNCHANGED <<lockVars, at, items, active, diskVars, crashes>>

\* moveDirectoryContents(): the contents one by one
MovePart(p) ==
  /\ phase[p] = "moving" /\ dir' = [dir EXCEPT ![at[p]] = "part"]
  /\ UNCHANGED <<lockVars, processVars, manifest, crashes>>

\* Mutation: m_items does not get the item.
MovedUnlisted(p) ==
  /\ Goes(p, {"moving"}, "valid") /\ dir' = [dir EXCEPT ![at[p]] = "whole"]
  /\ active' = [active EXCEPT ![p] = @ \cup {at[p]}]
  /\ UNCHANGED <<lockVars, at, items, manifest, crashes>>

Moved(p) ==
  /\ Goes(p, {"moving"}, "valid") /\ dir' = [dir EXCEPT ![at[p]] = "whole"]
  /\ items' = [items EXCEPT ![p] = @ \cup {at[p]}]
  /\ active' = [active EXCEPT ![p] = @ \cup {at[p]}]
  /\ UNCHANGED <<lockVars, at, manifest, crashes>>

\* toDisk(): opening the manifest to write cuts it.
BeginToDisk(p, what) ==
  /\ Goes(p, {"valid"}, what) /\ manifest' = <<"cut">>
  /\ UNCHANGED <<lockVars, at, items, active, dir, crashes>>

\* sync() ends: all is written, or an error is returned.
Synced(p) ==
  /\ Goes(p, {"sync"}, "valid")
  /\ manifest' \in {<<"cut">>, <<"of", items[p]>>}
  /\ UNCHANGED <<lockVars, at, items, active, dir, crashes>>

-----------------------------------------------------------------------------
(* setPath(), the destructor, clear(): invalidate() at their end           *)

Invalidate(p) ==
  /\ Unlock(p)
  /\ items' = [items EXCEPT ![p] = {}] /\ active' = [active EXCEPT ![p] = {}]

Closed(p) ==
  /\ Goes(p, {"last"}, "leave") /\ Invalidate(p)
  /\ manifest' \in {<<"cut">>, <<"of", items[p]>>}
  /\ UNCHANGED <<at, dir, crashes>>

Clear(p) ==
  /\ Goes(p, {"valid"}, "clearing") /\ manifest' = <<"no">>
  /\ UNCHANGED <<lockVars, at, items, active, dir, crashes>>

\* Each item's directory: its removal begins, and ends or fails.
ClearItem(p, i) ==
  /\ phase[p] = "clearing" /\ i \in items[p]
  /\ \/ dir[i] = "whole" /\ dir' = [dir EXCEPT ![i] = "part"] /\ UNCHANGED <<items, active>>
     \/ /\ dir' \in {dir, [dir EXCEPT ![i] = "none"]} /\ dir[i] # "whole"
        /\ items' = [items EXCEPT ![p] = @ \ {i}] /\ active' = [active EXCEPT ![p] = @ \ {i}]
  /\ UNCHANGED <<lockVars, phase, at, manifest, crashes>>

Cleared(p) ==
  /\ Goes(p, {"clearing"}, "leave") /\ items[p] = {} /\ Invalidate(p)
  /\ UNCHANGED <<at, diskVars, crashes>>

\* invalidate() removes the lock file.
Left(p) ==
  /\ Goes(p, {"leave"}, "off") /\ Unlink(p)
  /\ UNCHANGED <<at, items, active, diskVars, crashes>>

Crash(p) ==
  /\ crashes < MaxCrashes /\ crashes' = crashes + 1
  /\ phase[p] # "off" /\ phase' = [phase EXCEPT ![p] = "off"] /\ LockCrash(p)
  /\ items' = [items EXCEPT ![p] = {}] /\ active' = [active EXCEPT ![p] = {}]
  /\ UNCHANGED <<at, diskVars>>

-----------------------------------------------------------------------------
CacheNext == \E p \in Processes :
  \/ Initialize(p) \/ Lock(p) \/ Load(p)
  \/ \E i \in Items : Use(p, i) \/ RemoveItem(p, i) \/ RegisterItem(p, i) \/ ClearItem(p, i)
  \/ Removed(p) \/ Fails(p) \/ MovePart(p) \/ Moved(p)
  \/ BeginToDisk(p, "sync") \/ Synced(p) \/ BeginToDisk(p, "last") \/ Closed(p)
  \/ Clear(p) \/ Cleared(p) \/ Left(p) \/ Crash(p)

CacheSpec == CacheInit /\ [][CacheNext]_cacheVars

\* What a process takes for valid is whole on disk, whatever an earlier one left
\* there when it ended in the middle of registerItem(), removeItem() or clear().
ActiveIsWhole ==
  ~slipped => \A p \in Processes : phase[p] # "clearing" =>
                \A i \in active[p] : dir[i] = "whole"

\* After failures, but no crash, the manifest that a process leaves behind names
\* only items whose files are all there (registerItem() removes the old ones
\* before it has the new).
RestingCacheIsWhole ==
  crashes = 0 /\ ~slipped /\ locked = {} /\ manifest[1] = "of"
    => \A i \in manifest[2] : dir[i] = "whole"

\* "The cache directory is locked for access by this process only."
LockedByOne == \A p, q \in Processes : {phase[p], phase[q]} \subseteq {"valid"} \cup Busy => p = q
==============================================================================
