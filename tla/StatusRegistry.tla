---------------------------- MODULE StatusRegistry ----------------------------
(***************************************************************************)
(* What issuance and revocation promise, without requests, transactions,   *)
(* locks, retries and offers: a list hands out its slots in order, each to *)
(* one credential; a credential keeps its slot; a revocation is final; and *)
(* what a list publishes changes with a revocation only.  When revocations *)
(* of one list overlap, a later one may hide an earlier one, but never     *)
(* itself, and it shows no credential as revoked that is not.              *)
(***************************************************************************)
EXTENDS Naturals

CONSTANTS Credential, List, MaxSize, None

VARIABLES
  slot,       \* list and index of each credential, None before it is issued
  size,       \* how many slots of each list are taken
  revoked,    \* revoked credentials
  published,  \* the indexes that each list shows as revoked
  overlapped  \* lists on which two revocations have overlapped

vars == <<slot, size, revoked, published, overlapped>>

Index == 0..(MaxSize - 1)

Init ==
  /\ slot = [c \in Credential |-> None]
  /\ size = [l \in List |-> 0]
  /\ revoked = {}
  /\ published = [l \in List |-> {}]
  /\ overlapped = {}

Issue(c, l) ==
  /\ slot[c] = None /\ size[l] < MaxSize
  /\ slot' = [slot EXCEPT ![c] = <<l, size[l]>>]
  /\ size' = [size EXCEPT ![l] = @ + 1]
  /\ UNCHANGED <<revoked, published, overlapped>>

\* The list shows the indexes in shown from now on.
Revoke(c, l, shown) ==
  /\ \E i \in shown : slot[c] = <<l, i>>
  /\ revoked' = revoked \cup {c}
  /\ \A i \in shown : \E d \in revoked' : slot[d] = <<l, i>>
  /\ l \in overlapped \/ published[l] \subseteq shown
  /\ published' = [published EXCEPT ![l] = shown]
  /\ UNCHANGED <<slot, size, overlapped>>

Overlap(l) ==
  /\ overlapped' = overlapped \cup {l}
  /\ UNCHANGED <<slot, size, revoked, published>>

Next ==
  \/ \E c \in Credential, l \in List : Issue(c, l) \/ \E shown \in SUBSET Index : Revoke(c, l, shown)
  \/ \E l \in List : Overlap(l)

Spec == Init /\ [][Next]_vars
=============================================================================
