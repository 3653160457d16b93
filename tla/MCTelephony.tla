----------------------------- MODULE MCTelephony -----------------------------
(* Model checking of Telephony on a few User-Agents, calls and commands.     *)
EXTENDS Telephony

MCCode == {0, 486}
=============================================================================
