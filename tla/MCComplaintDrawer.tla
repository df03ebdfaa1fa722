------------------------- MODULE MCComplaintDrawer -------------------------
(***************************************************************************)
(* Two complaints, two requests in flight, any of the three roles.         *)
(***************************************************************************)
EXTENDS ComplaintDrawer

MCStatuses == {"Submitted", "Escalated"}
=============================================================================
