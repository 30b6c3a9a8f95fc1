SPECIFICATION SessionSpec
CONSTANTS
  lib = lib  app = app  None = None
  unpackLib = unpackLib  unpackApp = unpackApp
  installLib = installLib  installApp = installApp  mkdirTarget = mkdirTarget
  Components = {lib, app}
  Operations = {unpackLib, unpackApp, installLib, installApp, mkdirTarget}
  ComponentOf <- MCComponentOf
  UnpackOps = {unpackLib, unpackApp}
  InstallOps <- MCInstallOps
  TargetDirOp = mkdirTarget
  Plans <- MCPlans
  Fragile = {}
  BadArguments = {}
  Elevated = {}
  MaxThreadCount = 1
  MaxRetries = 0
  Order <- MCOrder
  Requires <- MCRequires
  MaxSessions = 3
  MaxRestarts = 1
  ToolWriteMayFail = FALSE
  MayCancelRemoval = TRUE
  MaxCrashes = 0
INVARIANTS
  NoOrphanedOperation
CHECK_DEADLOCK FALSE
