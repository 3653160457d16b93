----------------------------- MODULE MCAndroidSip -----------------------------
(* Model checking of AndroidSip on a few User-Agents, calls and commands.    *)
EXTENDS AndroidSip, TLC

MCCode == {0}
Symmetry == Permutations(Ua) \cup Permutations(Call)
=============================================================================
