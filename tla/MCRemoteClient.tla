--------------------------- MODULE MCRemoteClient ---------------------------
(***************************************************************************)
(* Instance of RemoteClient: two objects beside the client's own, and two  *)
(* servers, so that one can come late.                                     *)
(***************************************************************************)
EXTENDS RemoteClient

CONSTANTS control, object1, object2
=============================================================================
