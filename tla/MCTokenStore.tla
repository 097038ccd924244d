---------------------------- MODULE MCTokenStore ----------------------------
(* Small instances of TokenStore for TLC. *)
EXTENDS TokenStore, TLC

CONSTANTS a, b

TwoTokens == {a, b}
Names     == Permutations(TwoTokens)
=============================================================================
