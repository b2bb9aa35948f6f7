------------------------------ MODULE MCVoyage ------------------------------
(* The services of the transport scripts, with a few travellers. *)
EXTENDS Voyage, Routes
=============================================================================
