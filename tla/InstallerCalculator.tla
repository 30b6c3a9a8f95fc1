------------------------ MODULE InstallerCalculator ------------------------
(***************************************************************************)
(* InstallerCalculator: which components are installed, and in what order, *)
(* so that all their dependencies and automatic dependencies are met.      *)
(*                                                                         *)
(* solve() and solveComponent() call each other; installStack is their     *)
(* call stack, and one action is one pass of one of their loops.  The      *)
(* nested solve() of the automatic dependencies is the last thing solve()  *)
(* does, so its frame takes the place of the caller's.                     *)
(***************************************************************************)
EXTENDS ComponentSet

VARIABLES
  resolved,      \* m_resolvedComponents
  toInstall,     \* m_toInstallComponentIds
  toCheck,       \* m_componentsForAutodepencencyCheck
  visited,       \* m_visitedComponents, as pairs
  installStack,  \* the calls in progress, innermost first
  installResult  \* "none" before solve(), then "running", then what it returned

installVars ==
  <<resolved, toInstall, toCheck, visited, installStack, installResult>>

SolveFrames == [call : {"solve"}, components : Seq(Components),
                notAppended : Seq(Components)]
ComponentFrames == [call : {"solveComponent"}, component : Components,
                    version : 0..MaxVersion, dependencies : Seq(Requirements)]

Results == {"none", "running", "solved", "failed"}

InstallerTypeOK ==
  /\ resolved \in Seq(Components)
  /\ toInstall \in SUBSET Components
  /\ toCheck \in SUBSET Components
  /\ visited \in SUBSET (Components \X Components)
  /\ installStack \in Seq(SolveFrames \cup ComponentFrames)
  /\ installResult \in Results

Solve(components) ==
  [call |-> "solve", components |-> components, notAppended |-> <<>>]

SolveComponent(component, version) ==
  [call |-> "solveComponent", component |-> component, version |-> version,
   dependencies |-> CurrentDependencies(component)]

InstallerInit ==
  /\ resolved = <<>> /\ toInstall = {} /\ toCheck = {} /\ visited = {}
  /\ installStack = <<>> /\ installResult = "none"

\* clearInstallerCalculator()
ClearInstaller ==
  /\ resolved' = <<>> /\ toInstall' = {} /\ toCheck' = {} /\ visited' = {}
  /\ installStack' = <<>> /\ installResult' = "none"

\* A new calculator whose solve() is called with these components.
StartInstaller(components) ==
  /\ resolved' = <<>> /\ toInstall' = {} /\ toCheck' = {} /\ visited' = {}
  /\ IF components = <<>>
       THEN installStack' = <<>> /\ installResult' = "solved"
       ELSE installStack' = <<Solve(components)>> /\ installResult' = "running"

-----------------------------------------------------------------------------
InCall(name) == installStack # <<>> /\ Head(installStack).call = name

Frame == Head(installStack)
Callers == Tail(installStack)

\* Every caller passes on the failure of what it calls.
FailInstall ==
  /\ installStack' = <<>> /\ installResult' = "failed"
  /\ UNCHANGED <<resolved, toInstall, toCheck, visited>>

ReturnTrue ==
  /\ installStack' = Callers
  /\ installResult' = IF Callers = <<>> THEN "solved" ELSE installResult

AddComponentForInstall(c, version) ==
  /\ toCheck' = toCheck \cup {c}
  /\ IF ~IsInstalled(c, version) \/ IsUpdateAvailable(c)
       THEN /\ resolved' = Append(resolved, c)
            /\ toInstall' = toInstall \cup {c}
       ELSE UNCHANGED <<resolved, toInstall>>

-----------------------------------------------------------------------------
(* solve(): the first loop, the second loop and the automatic dependencies *)

\* A component that was added before is a recursion, which an assertion excludes.
AddWithoutDependencies ==
  /\ InCall("solve") /\ Frame.components # <<>>
  /\ LET c == Head(Frame.components) IN
       /\ c \in toInstall \/ CurrentDependencies(c) = <<>>
       /\ IF c \in toInstall
            THEN FailInstall
            ELSE /\ AddComponentForInstall(c, 0)
                 /\ installStack' = <<[Frame EXCEPT !.components = Tail(@)]>> \o Callers
                 /\ UNCHANGED <<visited, installResult>>

Postpone ==
  /\ InCall("solve") /\ Frame.components # <<>>
  /\ LET c == Head(Frame.components) IN
       /\ c \notin toInstall /\ CurrentDependencies(c) # <<>>
       /\ installStack' = <<[Frame EXCEPT !.components = Tail(@),
                                          !.notAppended = Append(@, c)]>> \o Callers
  /\ UNCHANGED <<resolved, toInstall, toCheck, visited, installResult>>

SolvePostponed ==
  /\ InCall("solve") /\ Frame.components = <<>> /\ Frame.notAppended # <<>>
  /\ installStack' = <<SolveComponent(Head(Frame.notAppended), 0),
                       [Frame EXCEPT !.notAppended = Tail(@)]>> \o Callers
  /\ UNCHANGED <<resolved, toInstall, toCheck, visited, installResult>>

AutoDependencyComponents ==
  {a \in Components \ toInstall :
     /\ \E c \in toCheck \cap product.autoDependOn[a] :
          mode = "Updater" => UpdateRequested(c)
     /\ installed[a] = 0 \/ IsUpdateAvailable(a)
     /\ IsAutoDependOn(a, toInstall)}

SolveAutoDependencies ==
  /\ InCall("solve") /\ Frame.components = <<>> /\ Frame.notAppended = <<>>
  /\ toCheck' = {}
  /\ IF AutoDependencyComponents = {}
       THEN ReturnTrue
       ELSE /\ \E order \in Orders(AutoDependencyComponents) :
                 installStack' = <<Solve(order)>> \o Callers
            /\ UNCHANGED installResult
  /\ UNCHANGED <<resolved, toInstall, visited>>

-----------------------------------------------------------------------------
(* solveComponent(): the loop over the dependencies and what follows it *)

Looking == InCall("solveComponent") /\ Frame.dependencies # <<>>
Dependency == Head(Frame.dependencies)

MissingDependency ==
  /\ Looking /\ ~IsFound(Dependency)
  /\ FailInstall

\* Mutation: the version above the one asked for.
RequiredVersionAbove ==
  IF IsUpdateRequired(Dependency) THEN Dependency.version + 1 ELSE Frame.version

\* requiredDependencyVersion is one variable for the whole loop: once a
\* dependency has set it, it goes with all that follow and the component itself.
RequiredVersion ==
  IF IsUpdateRequired(Dependency) THEN Dependency.version ELSE Frame.version

\* Mutation: what is installed is never too old.
MustSolveUninstalled ==
  /\ installed[Dependency.name] = 0 \/ UpdateRequested(Dependency.name)
  /\ Dependency.name \notin toInstall
  /\ Frame.component \notin toInstall

MustSolve ==
  /\ \/ installed[Dependency.name] = 0
     \/ UpdateRequested(Dependency.name)
     \/ IsUpdateRequired(Dependency)
  /\ Dependency.name \notin toInstall
  /\ Frame.component \notin toInstall

NextDependency ==
  [Frame EXCEPT !.dependencies = Tail(@), !.version = RequiredVersion]

\* Mutation: the loop looks at the same dependency again.
SkipNothing ==
  /\ Looking /\ IsFound(Dependency) /\ ~MustSolve
  /\ UNCHANGED installVars

SkipDependency ==
  /\ Looking /\ IsFound(Dependency) /\ ~MustSolve
  /\ installStack' = <<NextDependency>> \o Callers
  /\ UNCHANGED <<resolved, toInstall, toCheck, visited, installResult>>

\* "Recursion detected": the component asked for this dependency before.
RecursionDetected ==
  /\ Looking /\ IsFound(Dependency) /\ MustSolve
  /\ <<Frame.component, Dependency.name>> \in visited
  /\ FailInstall

SolveDependency ==
  /\ Looking /\ IsFound(Dependency) /\ MustSolve
  /\ <<Frame.component, Dependency.name>> \notin visited
  /\ visited' = visited \cup {<<Frame.component, Dependency.name>>}
  /\ installStack' = <<SolveComponent(Dependency.name, RequiredVersion),
                       NextDependency>> \o Callers
  /\ UNCHANGED <<resolved, toInstall, toCheck, installResult>>

ComponentSolved ==
  /\ InCall("solveComponent") /\ Frame.dependencies = <<>>
  /\ IF Frame.component \in toInstall
       THEN UNCHANGED <<resolved, toInstall, toCheck>>
       ELSE AddComponentForInstall(Frame.component, Frame.version)
  /\ ReturnTrue
  /\ UNCHANGED visited

InstallerNext ==
  \/ AddWithoutDependencies \/ Postpone \/ SolvePostponed
  \/ SolveAutoDependencies \/ MissingDependency \/ SkipDependency
  \/ RecursionDetected \/ SolveDependency \/ ComponentSolved
=============================================================================
