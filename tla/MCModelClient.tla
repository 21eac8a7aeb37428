--------------------------- MODULE MCModelClient ---------------------------
(* An instance of the model client for TLC.                                *)
EXTENDS ModelClient, TLC

Symmetric == Permutations(Caller)
=============================================================================
