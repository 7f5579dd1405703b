--------------------------- MODULE MCZirconSticky ---------------------------
(* Two bits of STATUS and one or two of LAT_STATUS, by name.                 *)
EXTENDS ZirconSticky
=============================================================================
