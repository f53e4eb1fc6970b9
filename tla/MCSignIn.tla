------------------------------ MODULE MCSignIn ------------------------------
(* SignIn for TLC.  The ways to sign in meet in the session; a behaviour uses *)
(* one of five groups of operations.                                         *)
EXTENDS SignIn, TLC

MCThreshold == <<2, 3>>
MCLockTtl == <<2, 3>>
MCTheme == {{"login", "wrong"}, {"login", "suspend"}, {"login", "mfa", "revoke"},
            {"mfa", "stepUp", "suspend", "revoke", "expire"}, {"passkey", "stepUp", "suspend"}}

Symmetry == Permutations(Session) \cup Permutations(Code) \cup Permutations(Challenge)
              \cup Permutations(Passkey) \cup Permutations(Req)
=============================================================================
