------------------------------ MODULE MCAccess ------------------------------
(* OAuthGrant and AccessBlocklist for TLC: how a client is given access and  *)
(* how a token is taken out of service.  They share no state, so a behaviour *)
(* is one of the two: it varies the scopes, what the exchange authenticates, *)
(* or what is asked for; or nothing of this, and is about issued tokens.     *)
(* Codes, tokens, requests and processes are interchangeable: the tokens are *)
(* given the names of the codes, and the processes those of the requests.    *)
EXTENDS OAuthGrant, AccessBlocklist, TLC

MCTogether == {{"scope"}, {"pkce", "secret"}, {"prompt", "uri", "state"}, {}}

AccessInit == Init /\ TokenInit

AccessNext ==
  \/ varies # {} /\ Next /\ UNCHANGED tokenVars
  \/ varies = {} /\ TokenNext /\ UNCHANGED vars

AccessSpec == AccessInit /\ [][AccessNext]_<<vars, tokenVars>>

Symmetry == Permutations(Req) \cup Permutations(Code)
=============================================================================
