--------------------------- MODULE MCImportCache ---------------------------
(* ImportCache with three inputs and two versions of the program.          *)
EXTENDS ImportCache

CONSTANTS i1, i2, i3, v1, v2
=============================================================================
