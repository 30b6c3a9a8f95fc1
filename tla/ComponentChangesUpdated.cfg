\* A newer version comes without what only it requires.
SPECIFICATION Spec
CONSTANTS
  Components = {"app", "lib", "ext"}
  MaxVersion = 2
  Products <- MCProducts
  MaxSessions = 2
INVARIANT ReplacedWithDependencies
