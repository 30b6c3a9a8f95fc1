\* What depends on a version of a component stays when the component goes.
SPECIFICATION Spec
CONSTANTS
  Components = {"app", "lib", "ext"}
  MaxVersion = 2
  Products <- MCProducts
  MaxSessions = 2
INVARIANT DependentsRemoved
