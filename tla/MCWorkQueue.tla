---------------------------- MODULE MCWorkQueue ----------------------------
(***************************************************************************)
(* An import, a saved transaction, the first wallet, and a task the writer *)
(* does not know of a web worker that may die.                             *)
(***************************************************************************)
EXTENDS WorkQueue

MCTask == {"i", "s", "c", "u"}
MCMethodOf ==
  [t \in MCTask |-> CASE t = "s" -> "save" [] t = "c" -> "create" [] t = "u" -> "unknown"
                      [] OTHER -> "post"]
MCWorkerOf == [t \in MCTask |-> IF t = "u" THEN "w2" ELSE "w1"]
=============================================================================
