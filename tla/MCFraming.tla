----------------------------- MODULE MCFraming -----------------------------
(* Three short messages, the second with a length of three bytes. *)
EXTENDS Framing

MCLengthBytes == <<1, 3, 1>>
MCPayload == <<3, 5, 2>>
=============================================================================
