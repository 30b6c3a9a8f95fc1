------------------------------ MODULE FileGuard ------------------------------
(***************************************************************************)
(* QInstaller::FileGuard: the process-wide list of the paths that threads  *)
(* of the installer are about to change, and FileGuardLocker, which polls  *)
(* it every 100 ms in an event loop until it has the path, and gives it    *)
(* back when it goes out of scope.  The module that extends this one says  *)
(* which thread locks what; a thread whose TryLock is not enabled waits.   *)
(***************************************************************************)
EXTENDS FiniteSets

VARIABLE paths   \* m_paths; never the same path twice, so a set

\* Mutation: the list is not looked at.
TryLockAnyway(path) == paths' = paths \cup {path}

\* tryLock() that succeeds (of a path that is not empty: no caller has one).
TryLock(path) == path \notin paths /\ paths' = paths \cup {path}

\* release(), by ~FileGuardLocker()
Release(path) == paths' = paths \ {path}
=============================================================================
