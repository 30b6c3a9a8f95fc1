------------------------- MODULE MCInstallTransaction -------------------------
(***************************************************************************)
(* Instance of InstallTransaction: two components, "app" on top of "lib",  *)
(* each with an archive to unpack and one operation to install; app has a  *)
(* second one, whose arguments are bad where the cfg says so.              *)
(***************************************************************************)
EXTENDS InstallTransaction

CONSTANTS lib, app, unpackLib, unpackApp, installLib, installApp, setupApp,
          mkdirTarget

MCComponentOf ==
  [op \in {unpackLib, unpackApp, installLib, installApp, setupApp, mkdirTarget} |->
     CASE op \in {unpackLib, installLib} -> lib
       [] op \in {unpackApp, installApp, setupApp} -> app
       [] OTHER -> None]
MCInstallOps ==
  [c \in {lib, app} |-> IF c = lib THEN <<installLib>> ELSE <<setupApp, installApp>>]
MCPlans == {<<lib>>, <<app>>, <<lib, app>>}
=============================================================================
