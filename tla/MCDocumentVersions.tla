------------------------- MODULE MCDocumentVersions -------------------------
(* A small instance of DocumentVersions. *)
EXTENDS DocumentVersions

CONSTANTS i1, i2
=============================================================================
