----------------------------- MODULE MCTenancy -----------------------------
(* Tenancy for TLC.  The areas meet in the plan: a behaviour has the events *)
(* of the provider with the tokens, or with the endpoints and the keys or   *)
(* tokens that manage them; onboarding meets none of them.                  *)
EXTENDS Tenancy

MCTogether == {{"billing", "token"}, {"billing", "key", "endpoint"},
               {"billing", "token", "endpoint"}, {"onboarding"}}
MCMaxEvents == [A \in MCTogether |-> CASE A = {"billing", "token"} -> 3
                                           [] "token" \in A -> 1
                                           [] OTHER -> 2]
=============================================================================
