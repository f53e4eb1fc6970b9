---------------------------- MODULE MCFederation ----------------------------
(* Federation for TLC.  Providers meet in the identities only, so a behaviour *)
(* has a social provider with a tenant's connection, or the social providers. *)
EXTENDS Federation, TLC

MCTogether == {Pkce \cup Connection, Social}

Symmetry == Permutations(Identity) \cup Permutations(Email) \cup Permutations(Connection)
              \cup Permutations(State) \cup Permutations(Sub) \cup Permutations(Req)
=============================================================================
