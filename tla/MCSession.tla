----------------------------- MODULE MCSession -----------------------------
(***************************************************************************)
(* Two roles and a newcomer, two logins and one request for notifications  *)
(* in flight.                                                              *)
(***************************************************************************)
EXTENDS Session

MCSubjects == Roles \cup {Newcomer}
=============================================================================
