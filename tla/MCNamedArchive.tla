--------------------------- MODULE MCNamedArchive ---------------------------
(* Bounded instances of NamedArchive for TLC. *)
EXTENDS NamedArchiveInv
=============================================================================
