------------------------ MODULE MCPackageManagerSession ------------------------
(***************************************************************************)
(* Instance of PackageManagerSession: two components, "app" requires "lib",*)
(* each with an archive to unpack and one operation to install.            *)
(***************************************************************************)
EXTENDS PackageManagerSession

CONSTANTS lib, app, unpackLib, unpackApp, installLib, installApp, mkdirTarget

MCComponentOf ==
  [op \in {unpackLib, unpackApp, installLib, installApp, mkdirTarget} |->
     CASE op \in {unpackLib, installLib} -> lib
       [] op \in {unpackApp, installApp} -> app
       [] OTHER -> None]
MCInstallOps ==
  [c \in {lib, app} |-> IF c = lib THEN <<installLib>> ELSE <<installApp>>]
MCPlans == {<<>>, <<lib>>, <<app>>, <<lib, app>>}
MCOrder == <<lib, app>>
MCRequires == [c \in {lib, app} |-> IF c = app THEN {lib} ELSE {}]
=============================================================================
