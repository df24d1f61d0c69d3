---------------------------- MODULE MCBackToBack ----------------------------
(***************************************************************************)
(* Instances of the back-to-back benchmark: bursts of up to four frames.     *)
(***************************************************************************)
EXTENDS BackToBack
=============================================================================
