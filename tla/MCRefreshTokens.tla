-------------------------- MODULE MCRefreshTokens --------------------------
(* RefreshTokens for TLC: tokens and requests are interchangeable. *)
EXTENDS RefreshTokens, TLC

Symmetry == Permutations(Token) \cup Permutations(Req)
=============================================================================
