--------------------------- MODULE MCLocationForm ---------------------------
(***************************************************************************)
(* The default centre and two more points, two addresses waited for at a   *)
(* time.                                                                   *)
(***************************************************************************)
EXTENDS LocationForm
=============================================================================
