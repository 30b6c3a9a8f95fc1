---------------------- MODULE MCExtractArchiveOperation ----------------------
(***************************************************************************)
(* Instance of ExtractArchiveOperation: three archives on two threads, one *)
(* of them a 7z, that share a file with each other and with the user.      *)
(***************************************************************************)
EXTENDS ExtractArchiveOperation, TLC

CONSTANTS o1, o2, o3, f1, f2

MCEntries == (o1 :> <<f1, f2>>) @@ (o2 :> <<f1>>) @@ (o3 :> <<f2>>)
MCListOf == [op \in {o1, o2, o3} |-> op]
=============================================================================
