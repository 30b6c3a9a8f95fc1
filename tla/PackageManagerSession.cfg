SPECIFICATION SessionSpec
CONSTANTS
  lib = lib  app = app  None = None
  unpackLib = unpackLib  unpackApp = unpackApp
  installLib = installLib  installApp = installApp  mkdirTarget = mkdirTarget
  Components = {lib, app}
  Operations = {unpackLib, unpackApp, installLib, installApp, mkdirTarget}
  ComponentOf <- MCComponentOf
  UnpackOps = {unpackLib, unpackApp}
  InstallOps <- MCInstallOps
  TargetDirOp = mkdirTarget
  Plans <- MCPlans
  Fragile = {installApp}
  BadArguments = {}
  Elevated = {unpackLib}
  MaxThreadCount = 2
  MaxRetries = 1
  Order <- MCOrder
  Requires <- MCRequires
  MaxSessions = 3
  MaxRestarts = 1
  ToolWriteMayFail = TRUE
  MayCancelRemoval = TRUE
  MaxCrashes = 1
INVARIANTS
  SessionTypeOK
  EffectsTrackedAcrossProcesses
  SuccessMeansSelected
  RecordsInStep
  FirstUndoesDependentsFirst
PROPERTIES
  SessionComesToEnd
CHECK_DEADLOCK FALSE
