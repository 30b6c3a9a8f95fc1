---------------------------- MODULE ComponentSet ----------------------------
(***************************************************************************)
(* The components a run of the program works on: what the repository       *)
(* offers, what is installed, what is checked, and the questions the two   *)
(* calculators ask about a component (component.cpp and the lookups of     *)
(* packagemanagercore.cpp).                                                *)
(*                                                                         *)
(* Versions are 1..MaxVersion; 0 stands for "not installed" and for "no    *)
(* version".  components.xml keeps the dependencies a package had when it  *)
(* was installed, which are those of its installed version.  The tree of   *)
(* components, replacements, aliases and unstable components are left out. *)
(***************************************************************************)
EXTENDS Naturals, Sequences, FiniteSets, Functions

CONSTANTS
  Components,  \* the identifiers
  MaxVersion,  \* bound: releases of a component
  Products     \* the products: what their packages declare

Versions == 1..MaxVersion

\* One entry of a Dependencies list: name, or name and version ("lib->=2").
Requirements == [name : Components, version : 0..MaxVersion]

ProductType ==
  [dependencies : [Components -> [Versions -> Seq(Requirements)]],
   autoDependOn : [Components -> SUBSET Components],
   virtual : SUBSET Components,
   forced : SUBSET Components]

ASSUME ComponentAssumption ==
  /\ IsFiniteSet(Components)
  /\ MaxVersion \in Nat \ {0}
  /\ Products \subseteq ProductType

VARIABLES
  product,    \* the product being maintained; it never changes
  mode,       \* which program is running
  available,  \* component -> its version in the repository (scVersion)
  installed,  \* component -> its installed version (scInstalledVersion), or 0
  checked     \* the components whose check state is not Unchecked

componentVars == <<product, mode, available, installed, checked>>

Modes == {"Installer", "PackageManager", "Updater"}

ComponentTypeOK ==
  /\ product \in ProductType
  /\ mode \in Modes
  /\ available \in [Components -> Versions]
  /\ installed \in [Components -> 0..MaxVersion]
  /\ checked \in SUBSET Components

-----------------------------------------------------------------------------
(* component.cpp *)

InstalledSet == {c \in Components : installed[c] # 0}

\* isInstalled(version): without a version, any will do.
IsInstalled(c, version) ==
  IF version = 0 THEN installed[c] # 0 ELSE installed[c] = version

\* Only the updater marks components as having an update.
IsUpdateAvailable(c) ==
  mode = "Updater" /\ installed[c] # 0 /\ installed[c] < available[c]

UpdateRequested(c) == IsUpdateAvailable(c) /\ c \in checked

IsSelectedForInstallation(c) == installed[c] = 0 /\ c \in checked

UninstallationRequested(c) ==
  mode # "Updater" /\ installed[c] # 0 /\ c \notin checked

Dependencies(c) == product.dependencies[c][available[c]]

LocalDependencies(c) ==
  IF installed[c] = 0 THEN <<>> ELSE product.dependencies[c][installed[c]]

CurrentDependencies(c) ==
  IF installed[c] # 0 /\ ~UpdateRequested(c)
    THEN LocalDependencies(c) ELSE Dependencies(c)

\* Mutation: only what is about to be installed counts.
IsAutoDependOnNew(c, componentsToInstall) ==
  /\ product.autoDependOn[c] # {}
  /\ product.autoDependOn[c] \subseteq componentsToInstall

\* Everything c depends on automatically is installed or about to be.
IsAutoDependOn(c, componentsToInstall) ==
  /\ product.autoDependOn[c] # {}
  /\ product.autoDependOn[c] \subseteq componentsToInstall \cup InstalledSet

-----------------------------------------------------------------------------
(* packagemanagercore.cpp *)

\* versionMatches() for the comparison >=, the one the products use.
VersionMatches(version, requirement) == requirement.version <= version

\* componentByName() finds a component by name, in the version offered.
IsFound(requirement) ==
  VersionMatches(available[requirement.name], requirement)

\* The installed version is older than the one a dependency asks for.
IsUpdateRequired(requirement) ==
  /\ requirement.version # 0
  /\ installed[requirement.name] # 0
  /\ installed[requirement.name] < requirement.version

MarkedForInstallation ==
  IF mode = "Updater"
    THEN {c \in Components : UpdateRequested(c)}
    ELSE {c \in Components : \/ IsSelectedForInstallation(c)
                             \/ installed[c] # 0 /\ ~UninstallationRequested(c)}

\* The lists made from a set; which order they have is up to Qt's hashes.
Orders(S) ==
  {s \in [1..Cardinality(S) -> S] : \A i, j \in DOMAIN s : s[i] = s[j] => i = j}

RequiredBy(requirements) == {r.name : r \in Range(requirements)}
=============================================================================
