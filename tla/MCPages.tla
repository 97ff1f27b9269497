-------------------------------- MODULE MCPages --------------------------------
(***************************************************************************)
(* Pages with two links to one document, and with a second document for    *)
(* what goes from one to the other.                                        *)
(***************************************************************************)
EXTENDS Pages, TLC

CONSTANTS d1, d2, l1, l2

MCLeads == l1 :> d1 @@ l2 :> d1
================================================================================
