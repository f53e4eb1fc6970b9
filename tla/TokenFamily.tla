---------------------------- MODULE TokenFamily ----------------------------
(***************************************************************************)
(* What refresh-token rotation promises, without requests, transactions or *)
(* sessions: every family is one chain of tokens, of which at most the     *)
(* last can be used.  A family is opened by its first token and named      *)
(* after it; the token in use is replaced by a new one or revoked, and a   *)
(* family whose token was revoked stays closed.                            *)
(***************************************************************************)
CONSTANTS Token, None

VARIABLES
  current,  \* the usable token of each family, None when there is none
  used      \* the tokens that were ever issued

vars == <<current, used>>

TypeOK == current \in [Token -> Token \cup {None}] /\ used \subseteq Token

Init == current = [f \in Token |-> None] /\ used = {}

\* A login.
Open(f) ==
  /\ f \notin used
  /\ current' = [current EXCEPT ![f] = f]
  /\ used' = used \cup {f}

\* A refresh.
Rotate(f, t) ==
  /\ current[f] # None /\ t \notin used
  /\ current' = [current EXCEPT ![f] = t]
  /\ used' = used \cup {t}

\* A context switch: the chain goes on in a family of its own.
Switch(f, g) ==
  /\ current[f] # None /\ g \notin used
  /\ current' = [current EXCEPT ![f] = None, ![g] = g]
  /\ used' = used \cup {g}

\* Logout, revocation, password reset, suspension, deletion or clean-up.
Revoke(F) ==
  /\ current' = [f \in Token |-> IF f \in F THEN None ELSE current[f]]
  /\ UNCHANGED used

Next ==
  \/ \E F \in SUBSET Token : Revoke(F)
  \/ \E f \in Token : Open(f)
  \/ \E f, t \in Token : Rotate(f, t) \/ Switch(f, t)

Spec == Init /\ [][Next]_vars
=============================================================================
