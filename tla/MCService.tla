----------------------------- MODULE MCService -----------------------------
(***************************************************************************)
(* Two cluster workers that are the same but for their name.               *)
(***************************************************************************)
EXTENDS Service
=============================================================================
