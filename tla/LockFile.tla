------------------------------ MODULE LockFile ------------------------------
(***************************************************************************)
(* KDUpdater::LockFile on Unix.  lock() opens the file at the path,        *)
(* creating it if need be, and takes an flock() on what it opened; unlock()*)
(* gives the flock() up and then removes whatever file is at the path.     *)
(* Each call is two system calls, and other processes come in between.     *)
(***************************************************************************)
EXTENDS Naturals

CONSTANTS
  Processes,  \* those that use the same path
  MaxFiles    \* bound: lock files ever created

ASSUME LockAssumption == MaxFiles \in Nat

VARIABLES
  name,     \* the file at the path, a number, or 0 for none
  created,  \* the number of files created so far
  handle,   \* process -> the file its LockFile has opened, or 0
  locked,   \* the processes that have the flock() of that file
  leaving,  \* those that gave it up and have not removed the file yet
  slipped   \* a file was removed that another process had opened to lock it

lockVars == <<name, created, handle, locked, leaving, slipped>>

LockTypeOK ==
  /\ created \in 0..MaxFiles /\ name \in 0..created
  /\ handle \in [Processes -> 0..created]
  /\ locked \in SUBSET Processes /\ leaving \in SUBSET Processes
  /\ slipped \in BOOLEAN

LockInit ==
  /\ name = 0 /\ created = 0 /\ handle = [p \in Processes |-> 0]
  /\ locked = {} /\ leaving = {} /\ slipped = FALSE

\* Between the two halves of lock(): what is open may be gone from the path.
Opened(p) == handle[p] # 0 /\ p \notin locked /\ p \notin leaving

\* lock(), the first half: open(O_CREAT)
OpenLock(p) ==
  /\ handle[p] = 0
  /\ IF name # 0
     THEN handle' = [handle EXCEPT ![p] = name] /\ UNCHANGED <<name, created>>
     ELSE /\ created < MaxFiles /\ created' = created + 1
          /\ name' = created' /\ handle' = [handle EXCEPT ![p] = created']
  /\ UNCHANGED <<locked, leaving, slipped>>

\* Mutation: a shared lock, which others may have too.
TryLockShared(p) ==
  /\ Opened(p) /\ locked' = locked \cup {p}
  /\ UNCHANGED <<name, created, handle, leaving, slipped>>

\* lock(), the second half: flock(LOCK_NB | LOCK_EX).  Refused, the process
\* never comes back to what it opened.
TryLock(p) ==
  /\ Opened(p)
  /\ IF \E q \in locked : handle[q] = handle[p]
     THEN handle' = [handle EXCEPT ![p] = 0] /\ UNCHANGED locked
     ELSE locked' = locked \cup {p} /\ UNCHANGED handle
  /\ UNCHANGED <<name, created, leaving, slipped>>

\* unlock(), the first half: flock(LOCK_UN)
Unlock(p) ==
  /\ p \in locked /\ locked' = locked \ {p} /\ leaving' = leaving \cup {p}
  /\ UNCHANGED <<name, created, handle, slipped>>

\* unlock(), the second half: unlink() of the path
Unlink(p) ==
  /\ p \in leaving /\ leaving' = leaving \ {p}
  /\ slipped' = (slipped \/ \E q \in Processes \ leaving : name # 0 /\ handle[q] = name)
  /\ name' = 0 /\ handle' = [handle EXCEPT ![p] = 0]
  /\ UNCHANGED <<created, locked>>

\* The end of a process: the kernel gives up its flock(), the file stays.
LockCrash(p) ==
  /\ handle' = [handle EXCEPT ![p] = 0]
  /\ locked' = locked \ {p} /\ leaving' = leaving \ {p}
  /\ UNCHANGED <<name, created, slipped>>

LockNext == \E p \in Processes : OpenLock(p) \/ TryLock(p) \/ Unlock(p) \/ Unlink(p)
                                 \/ LockCrash(p)

LockSpec == LockInit /\ [][LockNext]_lockVars

\* lock() and flock(): whoever has the lock keeps all others out, unless unlock()
\* removed a file that another process had opened by then.
OneOwner == ~slipped => \A p, q \in locked : p = q
=============================================================================
