------------------------- MODULE MCCredentialStatus -------------------------
(* CredentialStatus for TLC: credentials and requests are interchangeable. *)
(* A behaviour has offers or presentations: neither looks at the other.     *)
EXTENDS CredentialStatus, TLC

MCTogether == {{"offer"}, {"present"}}
Symmetry == Permutations(Credential) \cup Permutations(Req)
=============================================================================
