--------------------------- MODULE MCVoiceCapture ---------------------------
(***************************************************************************)
(* Two captures of one form, for either field.                             *)
(***************************************************************************)
EXTENDS VoiceCapture
=============================================================================
