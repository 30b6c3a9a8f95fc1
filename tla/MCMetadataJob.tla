--------------------------- MODULE MCMetadataJob ---------------------------
(* A default and a categorized repository, the one's checksum known, and two *)
(* archives.                                                                 *)
EXTENDS MetadataJob

CONSTANTS d1, c1, z1, z2

MCDefault == {d1}
MCCategorized == {c1}
MCArchives == {z1, z2}
MCWithoutMeta == {z2}
MCKnownSum == {d1}
=============================================================================
