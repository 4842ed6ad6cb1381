----------------------------- MODULE MCGateway -----------------------------
(* Model-checking instance of Gateway: every request, every state of the   *)
(* four breakers, breakers that change while they are asked, and every     *)
(* outcome of every call.                                                  *)
EXTENDS Gateway
=============================================================================
