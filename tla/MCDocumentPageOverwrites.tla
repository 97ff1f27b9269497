------------------------ MODULE MCDocumentPageOverwrites ------------------------
(* Two pages of one document that only write and save. *)
EXTENDS DocumentPage

CONSTANTS p1, p2

MCPages == {p1, p2}
=================================================================================
