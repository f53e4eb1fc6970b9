---------------------------- MODULE MCEmailTokens ----------------------------
(* EmailTokens for TLC.  Links of different scopes meet only in the account, *)
(* which every behaviour with a purpose registers first; the invitations of  *)
(* a tenant meet none of them.  So a behaviour has one of three sets.        *)
EXTENDS EmailTokens, TLC

MCTogether == {{"VERIFY_EMAIL", "MAGIC_LINK"}, {"VERIFY_EMAIL", "RESET_PASSWORD"}, Invitee}

Symmetry == Permutations(Token) \cup Permutations(Invitee) \cup Permutations(Req)
=============================================================================
