---------------------------- MODULE TaskService ----------------------------
(***************************************************************************)
(* What the writer owes the web workers (_queueWriterTask: a callback per  *)
(* task): every task that is asked gets one reply, never two, unless the   *)
(* writer ends first.                                                      *)
(***************************************************************************)
EXTENDS Naturals

CONSTANT Task

VARIABLES asked, replies, ended

vars == <<asked, replies, ended>>

Init == asked = {} /\ replies = [t \in Task |-> 0] /\ ended = FALSE

Ask(t) == ~ended /\ t \notin asked /\ asked' = asked \cup {t} /\ UNCHANGED <<replies, ended>>

Reply(t) ==
  /\ ~ended /\ t \in asked /\ replies[t] = 0
  /\ replies' = [replies EXCEPT ![t] = 1]
  /\ UNCHANGED <<asked, ended>>

\* A task that is refused, or whose socket is closed by the time of its reply.
AskAndReply(t) ==
  /\ ~ended /\ t \notin asked
  /\ asked' = asked \cup {t}
  /\ replies' = [replies EXCEPT ![t] = 1]
  /\ UNCHANGED ended

End == ended' = TRUE /\ UNCHANGED <<asked, replies>>

Next == End \/ \E t \in Task : Ask(t) \/ Reply(t) \/ AskAndReply(t)

Safety == Init /\ [][Next]_vars

Spec == Safety /\ \A t \in Task : WF_vars(Reply(t))
=============================================================================
