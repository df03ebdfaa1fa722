---------------------------- MODULE MCSubmission ----------------------------
(***************************************************************************)
(* Two reports, a complaint of another citizen and a list of one; one      *)
(* stage stands for all that come before the last.                         *)
(***************************************************************************)
EXTENDS Submission
=============================================================================
