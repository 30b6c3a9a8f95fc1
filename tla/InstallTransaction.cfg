SPECIFICATION TransactionSpec
CONSTANTS
  lib = lib  app = app  None = None
  unpackLib = unpackLib  unpackApp = unpackApp
  installLib = installLib  installApp = installApp  setupApp = setupApp
  mkdirTarget = mkdirTarget
  Components = {lib, app}
  Operations = {unpackLib, unpackApp, installLib, installApp, setupApp, mkdirTarget}
  ComponentOf <- MCComponentOf
  UnpackOps = {unpackLib, unpackApp}
  InstallOps <- MCInstallOps
  TargetDirOp = mkdirTarget
  Plans <- MCPlans
  Fragile = {unpackApp, installLib, installApp}
  BadArguments = {setupApp}
  Elevated = {installApp}
  MaxThreadCount = 2
  MaxRetries = 1
INVARIANTS
  TransactionTypeOK
  EffectsTracked
  RecordsAgree
PROPERTIES
  InstallUndoneBeforeUnpack
  CancelStopsNewWork
CHECK_DEADLOCK FALSE
