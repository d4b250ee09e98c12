----------------------------- MODULE MCStatement -----------------------------
(***************************************************************************)
(* Every transaction of up to two inputs and three outputs with small      *)
(* amounts.                                                                *)
(***************************************************************************)
EXTENDS Statement
=============================================================================
