-------------------------- MODULE ComponentChanges --------------------------
(***************************************************************************)
(* The life of an installed product as its user sees it: the installer,    *)
(* then sessions of the package manager and of the updater while the       *)
(* repository gets new releases.  A session checks the packages, lets the  *)
(* user select, calculates what to install and what to remove, and carries *)
(* the changes out (that they are carried out as a whole is the business   *)
(* of PackageManagerSession).                                              *)
(***************************************************************************)
EXTENDS UninstallerCalculator

CONSTANT MaxSessions  \* bound: runs of the program

ASSUME SessionsAssumption == MaxSessions \in Nat

VARIABLES
  phase,    \* what the program is doing
  before,   \* what was installed when the session began
  sessions  \* counter for the bound

changeVars == <<phase, before, sessions>>
vars == <<componentVars, installVars, removeVars, changeVars>>

\* fetched: the packages are known and the tree is being built;
\* calculating, removing: in one of the calculators.
Phases == {"closed", "fetched", "selecting", "calculating", "removing", "crashed"}

ChangesTypeOK ==
  /\ ComponentTypeOK /\ InstallerTypeOK /\ UninstallerTypeOK
  /\ phase \in Phases
  /\ before \in [Components -> 0..MaxVersion]
  /\ sessions \in 0..MaxSessions

Nothing == [c \in Components |-> 0]

Init ==
  /\ product \in Products
  /\ mode = "Installer" /\ installed = Nothing /\ checked = {}
  /\ available = [c \in Components |-> 1]
  /\ InstallerInit /\ UninstallerInit
  /\ phase = "closed" /\ before = Nothing /\ sessions = 0

-----------------------------------------------------------------------------
(* Starting the program *)

\* The repository only moves forward between two runs.
NewReleases == {a \in [Components -> Versions] : \A c \in Components : a[c] >= available[c]}

Opened ==
  /\ phase = "closed" /\ sessions < MaxSessions
  /\ sessions' = sessions + 1 /\ before' = installed
  /\ UNCHANGED <<product, installed>>

\* Mutation: only what is installed is resolved.
BuildInstalledTree ==
  /\ phase' = "fetched" /\ checked' = InstalledSet
  /\ \E order \in Orders(InstalledSet) : StartInstaller(order)
  /\ ClearUninstaller

\* buildComponentTree() first resolves all components, all of them checked.
BuildComponentTree ==
  /\ phase' = "fetched" /\ checked' = Components
  /\ \E order \in Orders(Components) : StartInstaller(order)
  /\ ClearUninstaller

OpenInstaller ==
  /\ Opened /\ sessions = 0
  /\ BuildComponentTree
  /\ UNCHANGED <<mode, available>>

OpenPackageManager ==
  /\ Opened /\ sessions > 0 /\ installed # Nothing
  /\ mode' = "PackageManager" /\ available' \in NewReleases
  /\ BuildComponentTree

\* fetchUpdaterPackages() resolves nothing; without an update it is done.
OpenUpdater ==
  /\ Opened /\ sessions > 0
  /\ mode' = "Updater" /\ available' \in NewReleases
  /\ \E c \in InstalledSet : installed[c] < available'[c]
  /\ phase' = "selecting"
  /\ ClearInstaller /\ ClearUninstaller
  /\ UNCHANGED checked

-----------------------------------------------------------------------------
(* What the calculators are asked *)

\* "Unresolved dependencies" ends the session.
TreeFailed ==
  /\ phase = "fetched" /\ installResult = "failed"
  /\ phase' = "closed"
  /\ UNCHANGED <<componentVars, installVars, removeVars, before, sessions>>

TreeBuilt ==
  /\ phase = "fetched" /\ installResult = "solved"
  /\ phase' = "selecting"
  /\ ClearInstaller
  /\ UNCHANGED <<componentVars, removeVars, before, sessions>>

\* No check box: virtual, forced and automatic components.
Selectable ==
  IF mode = "Updater"
    THEN {c \in Components : IsUpdateAvailable(c)}
    ELSE {c \in Components \ (product.virtual \cup product.forced) :
            product.autoDependOn[c] = {}}

Preselected ==
  InstalledSet \cup (IF mode = "Updater" THEN {} ELSE product.forced)

\* recalculateAllComponents(), with what the user has checked.
CalculateComponentsToInstall ==
  /\ phase = "selecting"
  /\ \E selection \in SUBSET Selectable :
       checked' = selection \cup (Preselected \ Selectable)
  /\ UNCHANGED <<product, mode, available, installed, before, sessions>>
  /\ \E order \in Orders(MarkedForInstallation') : StartInstaller(order)
  /\ ClearUninstaller
  /\ phase' = "calculating"

CalculationFailed ==
  /\ phase \in {"calculating", "removing"}
  /\ "failed" \in {installResult, removeResult}
  /\ phase' = "closed"
  /\ UNCHANGED <<componentVars, installVars, removeVars, before, sessions>>

CalculateComponentsToUninstall ==
  /\ phase = "calculating" /\ installResult = "solved" /\ mode # "Installer"
  /\ \E order \in Orders({c \in Components : UninstallationRequested(c)} \ Range(resolved)) :
       StartUninstaller(order)
  /\ phase' = "removing"
  /\ UNCHANGED <<componentVars, installVars, before, sessions>>

\* The maintenance tool's stack is used up.
Overflow ==
  /\ phase = "removing" /\ removeResult = "overflow"
  /\ phase' = "crashed"
  /\ UNCHANGED <<componentVars, installVars, removeVars, before, sessions>>

\* The updater keeps what it has no update for, whatever the calculator says.
Removed == IF mode = "PackageManager" THEN Scheduled ELSE {}

Changed ==
  [c \in Components |->
     IF c \in Range(resolved) THEN available[c]
     ELSE IF c \in Removed THEN 0 ELSE installed[c]]

CarryOut ==
  /\ \/ phase = "calculating" /\ installResult = "solved" /\ mode = "Installer"
     \/ phase = "removing" /\ removeResult = "solved"
  /\ installed' = Changed
  /\ phase' = "closed"
  /\ UNCHANGED <<product, mode, available, checked, installVars, removeVars,
                 before, sessions>>

Solving ==
  /\ installResult = "running" /\ InstallerNext
  /\ UNCHANGED <<componentVars, removeVars, changeVars>>

Removing ==
  /\ removeResult = "running" /\ UninstallerNext
  /\ UNCHANGED <<componentVars, installVars, changeVars>>

Done == phase \in {"closed", "crashed"} /\ UNCHANGED vars

Next ==
  \/ OpenInstaller \/ OpenPackageManager \/ OpenUpdater
  \/ TreeFailed \/ TreeBuilt
  \/ CalculateComponentsToInstall \/ Solving \/ CalculationFailed
  \/ CalculateComponentsToUninstall \/ Removing \/ Overflow
  \/ CarryOut
  \/ Done

Fairness == WF_vars(Solving) /\ WF_vars(Removing)

Spec == Init /\ [][Next]_vars /\ Fairness

-----------------------------------------------------------------------------
(* What is checked *)

\* Requirements of what is installed that nothing installed meets.
Missing(versions) ==
  {m \in Components \X Requirements :
     LET c == m[1] r == m[2] IN
     /\ versions[c] # 0 /\ r \in Range(product.dependencies[c][versions[c]])
     /\ ~(versions[r.name] # 0 /\ VersionMatches(versions[r.name], r))}

\* Those of them that something meets only in too old a version.
Outdated(versions) == {m \in Missing(versions) : versions[m[2].name] # 0}

\* The tree that has been built stands for every selection: once all the
\* components together were resolved, no choice of the user among them makes
\* the calculation fail, and the assertion against adding a component twice
\* holds.  (The updater builds no tree.)
CheckedComponentsResolve ==
  mode # "Updater" /\ phase = "calculating" => installResult # "failed"

\* The list of components to install has no component twice, and if nothing
\* was outdated before, everything a new or updated component asks for is
\* installed, recent enough, or stands before it in the list.
ResolvedWithDependencies ==
  phase \in {"calculating", "removing"} =>
    \A i \in DOMAIN resolved :
      LET c == resolved[i] IN
      /\ \A j \in 1..(i - 1) : resolved[j] # c
      /\ Outdated(before) = {} /\ (installed[c] = 0 \/ UpdateRequested(c)) =>
           \A r \in Range(Dependencies(c)) :
             \/ \E j \in 1..(i - 1) : resolved[j] = r.name
             \/ installed[r.name] # 0 /\ VersionMatches(installed[r.name], r)

\* A component that stays installed is replaced only if its update was asked
\* for, if it follows an update it depends on automatically, or if another
\* component that is installed afterwards wants it newer.
ReasonToReplace(c) ==
  \/ UpdateRequested(c)
  \/ IsUpdateAvailable(c) /\ product.autoDependOn[c] \cap toInstall # {}
  \/ \E d \in Components, r \in Requirements :
       /\ Changed[d] # 0 /\ r.name = c /\ IsUpdateRequired(r)
       /\ r \in Range(CurrentDependencies(d))

\* A component is removed only if it follows one it depends on automatically,
\* or if it is not forced and was unchecked, needs something that is removed, or
\* is needed by nothing that stays.
ReasonToRemove(c) ==
  \/ product.autoDependOn[c] \cap Scheduled # {}
  \/ /\ c \notin product.forced
     /\ \/ UninstallationRequested(c)
        \/ RequiredBy(LocalDependencies(c)) \cap Scheduled # {}
        \/ /\ c \in product.virtual
           /\ \A d \in InstalledSet \ Scheduled : c \notin RequiredBy(LocalDependencies(d))

\* If nothing was outdated before, what is installed changes for a reason only;
\* but a removal that met a forced dependent may be half calculated.
ChangedForReason ==
  phase = "removing" /\ removeResult = "solved" /\ Outdated(before) = {} =>
    /\ \A c \in Range(resolved) \cap InstalledSet : ReasonToReplace(c)
    /\ ~removeError => \A c \in Scheduled : ReasonToRemove(c)

\* If nothing was outdated, a session leaves a requirement open in three ways
\* only: the requirement names a version, and what it names was removed; a
\* component that was there is removed while a new one comes to need it; a
\* component was replaced by a version nobody selected.
RequirementsKept ==
  Outdated(before) = {} =>
  \A m \in Missing(installed) \ Missing(before) :
    LET c == m[1] r == m[2] IN
    \/ before[r.name] # 0 /\ installed[r.name] = 0
         /\ (r.version # 0 \/ before[c] = 0)
    \/ before[c] \notin {0, installed[c]} /\ ~(mode = "Updater" /\ c \in checked)

\* In the installer and the package manager, an automatic component that is not
\* installed comes with the last of the components it depends on.
AutomaticInstalled ==
  mode # "Updater" =>
    \A a \in Components :
      /\ before[a] = 0
      /\ product.autoDependOn[a] # {} /\ product.autoDependOn[a] \subseteq InstalledSet
      /\ \E c \in product.autoDependOn[a] : before[c] = 0
      => installed[a] # 0

\* What a session of the three programs does to the dependencies, of both kinds.
DependenciesKept == phase = "closed" => RequirementsKept /\ AutomaticInstalled

\* Both calculators come to an end: they solve, fail, or use up the stack.
CalculationsEnd ==
  []<>(installResult # "running") /\ []<>(removeResult # "running")

\* "This will automatically uninstall ... other components depending on the
\* components about to be uninstalled" (doc/installerfw-using.qdoc:442).
DependentsRemoved ==
  phase = "closed" =>
    \A c \in InstalledSet :
      before[c] = installed[c] =>
        \A d \in RequiredBy(LocalDependencies(c)) : before[d] # 0 => installed[d] # 0

\* "current dependencies are read from repository so that correct dependencies are
\* calculated for the component when it is installed or updated"
\* (component.cpp:1464): in a session that removes nothing, what is replaced by
\* another version comes with what that version requires.
ReplacedWithDependencies ==
  /\ phase = "closed" /\ Outdated(before) = {}
  /\ \A c \in Components : before[c] # 0 => installed[c] # 0
  =>
    \A c \in Components : before[c] \notin {0, installed[c]} =>
      \A r \in Range(LocalDependencies(c)) :
        installed[r.name] # 0 /\ VersionMatches(installed[r.name], r)
=============================================================================
