\* Sessions of the installer, the package manager and the updater.
SPECIFICATION Spec
CONSTANTS
  Components = {"app", "lib", "ext"}
  MaxVersion = 2
  Products <- MCProducts
  MaxSessions = 3
INVARIANTS
  ChangesTypeOK
  CheckedComponentsResolve
  ResolvedWithDependencies
  ChangedForReason
  DependenciesKept
PROPERTY CalculationsEnd
