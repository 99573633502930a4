--------------------------- MODULE MCObsidianSync ---------------------------
(***************************************************************************)
(* Two files; one of the two bodies links to the other file.               *)
(***************************************************************************)
EXTENDS ObsidianSync

CONSTANTS f, g, plain, linked

MCFile == {f, g}
MCBody == {plain, linked}
MCLinksOf == [b \in MCBody |-> IF b = linked THEN MCFile ELSE {}]
=============================================================================
