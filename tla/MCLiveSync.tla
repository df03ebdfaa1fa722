----------------------------- MODULE MCLiveSync -----------------------------
(***************************************************************************)
(* One list, two workers, two requests in flight.                          *)
(***************************************************************************)
EXTENDS LiveSync

MCSubjects == {List}
=============================================================================
