----------------------- MODULE UninstallerCalculator -----------------------
(***************************************************************************)
(* UninstallerCalculator: which installed components go, together with     *)
(* those that depend on them, those that depend on them automatically, and *)
(* the virtual components nothing needs any more.                          *)
(*                                                                         *)
(* removeStack is the call stack of solve() and solveComponent().  The     *)
(* nested solve() is the last call of its caller, which ignores what it    *)
(* returns: the frame of the nested call takes the caller's place and      *)
(* remembers that a failure will not be seen.                              *)
(***************************************************************************)
EXTENDS InstallerCalculator

VARIABLES
  unresolved,   \* m_resolvedComponents of this calculator
  removeStack,  \* the calls in progress, innermost first
  removeResult, \* what solve() returned; "overflow" if it never did
  removeError   \* m_errorString is not empty

removeVars == <<unresolved, removeStack, removeResult, removeError>>

RemoveFrames ==
  [call : {"solve"}, components : Seq(Components), all : SUBSET Components,
   ignored : BOOLEAN]
DependentFrames ==
  [call : {"solveComponent"}, component : Components, dependents : Seq(Components)]

UninstallerTypeOK ==
  /\ unresolved \in Seq(Components)
  /\ removeStack \in Seq(RemoveFrames \cup DependentFrames)
  /\ removeResult \in Results \cup {"overflow"}
  /\ removeError \in BOOLEAN

UninstallerInit ==
  /\ unresolved = <<>> /\ removeStack = <<>>
  /\ removeResult = "none" /\ removeError = FALSE

\* clearUninstallerCalculator()
ClearUninstaller ==
  /\ unresolved' = <<>> /\ removeStack' = <<>>
  /\ removeResult' = "none" /\ removeError' = FALSE

SolveRemoval(components, ignored) ==
  [call |-> "solve", components |-> components, all |-> Range(components),
   ignored |-> ignored]

\* A new calculator whose solve() is called with these components.
StartUninstaller(components) ==
  /\ unresolved' = <<>> /\ removeError' = FALSE
  /\ removeStack' = <<SolveRemoval(components, FALSE)>>
  /\ removeResult' = "running"

-----------------------------------------------------------------------------
Scheduled == Range(unresolved)

\* Mutation: what is still checked is kept.
UncheckedDependents(c) ==
  {d \in Components \ checked :
     [name |-> c, version |-> 0] \in Range(LocalDependencies(d))}

\* The table of local dependencies has the entries of the Dependencies lists
\* for its keys, versions included, and is asked for the plain name.
LocalDependents(c) ==
  {d \in Components :
     [name |-> c, version |-> 0] \in Range(LocalDependencies(d))}

InRemoval(name) == removeStack # <<>> /\ Head(removeStack).call = name

RemoveFrame == Head(removeStack)
RemoveCallers == Tail(removeStack)

(* solve(): the loop over the components *)

RemoveNext ==
  /\ InRemoval("solve") /\ RemoveFrame.components # <<>>
  /\ LET c == Head(RemoveFrame.components) IN
     \E order \in Orders(LocalDependents(c)) :
       removeStack' = <<[call |-> "solveComponent", component |-> c,
                         dependents |-> order],
                        [RemoveFrame EXCEPT !.components = Tail(@)]>> \o RemoveCallers
  /\ UNCHANGED <<unresolved, removeResult, removeError>>

\* The installed components that depend automatically on one of the argument.
AutoDependents ==
  {a \in InstalledSet \ Scheduled :
     product.autoDependOn[a] \cap RemoveFrame.all # {}}

(* isRequiredVirtualPackage(): an installed package that is not scheduled     *)
(* depends on it, or a selected one that will be installed does.              *)
LocalDependenciesTo(c) ==
  {d \in InstalledSet : \E r \in Range(LocalDependencies(d)) : r.name = c /\ IsFound(r)}

IsDependencyForRequested(c) ==
  \E d \in checked :
    /\ \/ mode = "Updater" /\ installed[d] # 0
       \/ mode = "PackageManager" /\ installed[d] = 0
    /\ \E r \in Range(Dependencies(d)) : r.name = c /\ IsFound(r)

\* Mutation: only what will be installed needs a virtual component.
UnrequestedVirtuals ==
  {c \in (InstalledSet \cap product.virtual) \ Scheduled :
     /\ product.autoDependOn[c] = {} /\ c \notin product.forced
     /\ ~IsDependencyForRequested(c)}

UnneededVirtuals ==
  {c \in (InstalledSet \cap product.virtual) \ Scheduled :
     /\ product.autoDependOn[c] = {} /\ c \notin product.forced
     /\ LocalDependenciesTo(c) \subseteq Scheduled
     /\ ~IsDependencyForRequested(c)}

SolveFollowing ==
  /\ InRemoval("solve") /\ RemoveFrame.components = <<>>
  /\ LET following == IF AutoDependents # {} THEN AutoDependents ELSE UnneededVirtuals
     IN IF following = {}
          THEN removeStack' = <<>> /\ removeResult' = "solved"
          ELSE /\ \E order \in Orders(following) :
                    removeStack' = <<SolveRemoval(order, TRUE)>>
               /\ UNCHANGED removeResult
  /\ UNCHANGED <<unresolved, removeError>>

-----------------------------------------------------------------------------
(* solveComponent(): what depends on a component goes before it *)

AtDependent == InRemoval("solveComponent") /\ RemoveFrame.dependents # <<>>
Dependent == Head(RemoveFrame.dependents)

\* Scheduled already, or to be replaced by its new version.
Settled == Dependent \in Scheduled \cup Range(resolved)

SkipDependent ==
  /\ AtDependent /\ Settled
  /\ removeStack' = <<[RemoveFrame EXCEPT !.dependents = Tail(@)]>> \o RemoveCallers
  /\ UNCHANGED <<unresolved, removeResult, removeError>>

\* "Impossible dependency resolution": only the outermost solve() tells.
ForcedDependent ==
  /\ AtDependent /\ ~Settled /\ Dependent \in product.forced
  /\ removeStack' = <<>> /\ removeError' = TRUE
  /\ removeResult' = IF removeStack[Len(removeStack)].ignored
                       THEN "solved" ELSE "failed"
  /\ UNCHANGED unresolved

InProgress == {removeStack[i].component : i \in
                 {j \in DOMAIN removeStack : removeStack[j].call = "solveComponent"}}

RemoveDependent ==
  /\ AtDependent /\ ~Settled /\ Dependent \notin product.forced \cup InProgress
  /\ \E order \in Orders(LocalDependents(Dependent)) :
       removeStack' = <<[call |-> "solveComponent", component |-> Dependent,
                         dependents |-> order],
                        [RemoveFrame EXCEPT !.dependents = Tail(@)]>> \o RemoveCallers
  /\ UNCHANGED <<unresolved, removeResult, removeError>>

\* A dependent that is being solved is entered again and comes back to itself
\* in the same way, until the stack is used up.
RemoveForever ==
  /\ AtDependent /\ ~Settled /\ Dependent \in InProgress \ product.forced
  /\ removeStack' = <<>> /\ removeResult' = "overflow"
  /\ UNCHANGED <<unresolved, removeError>>

DependentsSolved ==
  /\ InRemoval("solveComponent") /\ RemoveFrame.dependents = <<>>
  /\ unresolved' = Append(unresolved, RemoveFrame.component)
  /\ removeStack' = RemoveCallers
  /\ UNCHANGED <<removeResult, removeError>>

UninstallerNext ==
  \/ RemoveNext \/ SolveFollowing \/ SkipDependent \/ ForcedDependent
  \/ RemoveDependent \/ RemoveForever \/ DependentsSolved
=============================================================================
