--------------------------- MODULE MCMetadataBackup ---------------------------
(***************************************************************************)
(* An instance of MetadataBackup for TLC.                                  *)
(***************************************************************************)
EXTENDS MetadataBackup

CONSTANT b1

\* One book changes twice, the other is added only.
Changes == [b \in Books |-> IF b = b1 THEN 2 ELSE 1]
===============================================================================
