----------------------------- MODULE Federation -----------------------------
(***************************************************************************)
(* Signing in through another provider: the social callbacks of the four   *)
(* configured providers, and the SAML and OIDC connections that a tenant   *)
(* registers.  Both end in one transaction that resolves the provider's    *)
(* account to an identity, links it, and opens a session; the tokens are   *)
(* issued after the commit.                                                *)
(*                                                                         *)
(* A provider asserts an account (the provider and its user id) and an     *)
(* e-mail address, which may change between two sign-ins.  Rows written by *)
(* an open transaction are in req[r]; a second insert of a unique key      *)
(* waits for the first and fails if that one commits.                      *)
(***************************************************************************)
EXTENDS Naturals, FiniteSets

CONSTANTS
  Identity,    \* Identity rows there may be (a bound)
  Email,       \* addresses
  Social,      \* social providers
  Pkce,        \* those of them whose redirect carries a PKCE challenge
  Connection,  \* IdpConnection rows of the tenant there may be (a bound)
  Sub,         \* user ids at the providers
  Req,         \* requests the server handles at the same time
  State,       \* random states of the redirects to a provider
  Together,    \* sets of providers that a deployment may configure (a bound)
  None         \* SQL NULL

Provider == Social \cup Connection
Account == Provider \X Sub

ASSUME FederationAssumption ==
  /\ Social \cap Connection = {} /\ Pkce \subseteq Social
  /\ Together \subseteq SUBSET (Social \cup Connection)
  /\ None \notin Identity \cup Email \cup Provider \cup Sub \cup State

VARIABLES
  configured, \* the providers with credentials in this deployment's config
  identity,   \* Identity rows, with their membership of the tenant
  link,       \* OAuthAccount rows: the identity of each account
  conn,       \* IdpConnection rows
  cookie,     \* the oauth_state and oauth_verifier cookies of the browser
  req         \* requests in progress

vars == <<configured, identity, link, conn, cookie, req>>

Row == [made: BOOLEAN, email: Email \cup {None}, verified: BOOLEAN,
        status: {"ACTIVE", "SUSPENDED"}, jit: BOOLEAN, member: BOOLEAN,
        unlinked: BOOLEAN]    \* history: provisioned, and its owner has unlinked an account
NoRow == [made |-> FALSE, email |-> None, verified |-> FALSE, status |-> "ACTIVE",
          jit |-> FALSE, member |-> FALSE, unlinked |-> FALSE]

Protocol == {"SAML2", "OIDC"}
Pc == {"idle", "account", "email", "identity", "link", "commit", "issue"}

\* acct, email and ver are the provider's assertion; who is the identity it
\* was resolved to, inserts whether the transaction has created it; links
\* whether it has linked it, locks whether it has updated the link it found;
\* status is what it has read.  cut is history: the link it found was deleted.
Request ==
  [pc: Pc, acct: Account \cup {None}, email: Email \cup {None}, ver: BOOLEAN,
   who: Identity \cup {None}, inserts: BOOLEAN, links: BOOLEAN,
   locks: BOOLEAN, cut: BOOLEAN, status: {"ACTIVE", "SUSPENDED"}]
Idle == [pc |-> "idle", acct |-> None, email |-> None, ver |-> FALSE, who |-> None,
         inserts |-> FALSE, links |-> FALSE, locks |-> FALSE, cut |-> FALSE, status |-> "ACTIVE"]

TypeOK ==
  /\ configured \in Together
  /\ identity \in [Identity -> Row]
  /\ \A i \in Identity : ~identity[i].made => identity[i] = NoRow
  /\ link \in [Account -> Identity \cup {None}]
  /\ conn \in [Connection -> {"none", "deleted"} \cup Protocol]
  /\ cookie \in [state: State \cup {None}, verifier: BOOLEAN]
  /\ req \in [Req -> Request]

Init ==
  /\ configured \in Together
  /\ identity = [i \in Identity |-> NoRow]
  /\ link = [a \in Account |-> None]
  /\ conn = [c \in Connection |-> "none"]
  /\ cookie = [state |-> None, verifier |-> FALSE]
  /\ req = [r \in Req |-> Idle]

-----------------------------------------------------------------------------
Put(r, x) == req' = [req EXCEPT ![r] = x]
Goto(r, p) == Put(r, [req[r] EXCEPT !.pc = p])
Finish(r) == Put(r, Idle)
Rows == <<configured, identity, link, conn, cookie>>

Owner(e) == {i \in Identity : identity[i].made /\ identity[i].email = e}
\* Rows nobody has made, or is making, or remembers.
FreeIdentity(i) == ~identity[i].made /\ \A q \in Req : req[q].who # i
\* Another transaction has inserted the same key and is still open.
EmailHeld(r, e) == e # None /\ \E q \in Req \ {r} : req[q].inserts /\ req[q].email = e
AccountHeld(r, a) == \E q \in Req \ {r} : req[q].links /\ req[q].acct = a

-----------------------------------------------------------------------------
\* Social sign-in.

\* GET /auth/:provider: a new state goes into the one cookie all providers
\* use; Google and Microsoft also get a code verifier, the others leave an
\* earlier one where it is.
PkceRedirect(x) ==
  /\ configured \cap Pkce # {}
  /\ cookie' = [state |-> x, verifier |-> TRUE]
  /\ UNCHANGED <<configured, identity, link, conn, req>>

PlainRedirect(x) ==
  /\ (configured \cap Social) \ Pkce # {}
  /\ cookie' = [cookie EXCEPT !.state = x]
  /\ UNCHANGED <<configured, identity, link, conn, req>>

\* The callback of provider p brings state x back with the cookies, which are
\* cleared; then p's code is exchanged for the account and its address.
Asserts(r, p, u, e) == Put(r, [Idle EXCEPT !.pc = "account", !.acct = <<p, u>>, !.email = e])

PkceCallback(r, p, u, e, x) ==
  /\ req[r].pc = "idle" /\ p \in configured
  /\ x = cookie.state /\ cookie.verifier
  /\ cookie' = [state |-> None, verifier |-> FALSE]
  /\ Asserts(r, p, u, e)
  /\ UNCHANGED <<configured, identity, link, conn>>

PlainCallback(r, p, u, e, x) ==
  /\ req[r].pc = "idle" /\ p \in configured
  /\ x = cookie.state
  /\ cookie' = [cookie EXCEPT !.state = None]
  /\ Asserts(r, p, u, e)
  /\ UNCHANGED <<configured, identity, link, conn>>

-----------------------------------------------------------------------------
\* Tenant connections, by a caller with idp:manage on ENTERPRISE.

CreateConnection(c, protocol) ==
  /\ c \in configured /\ conn[c] = "none"
  /\ conn' = [conn EXCEPT ![c] = protocol]
  /\ UNCHANGED <<configured, identity, link, cookie, req>>

DeleteConnection(c) ==
  /\ conn[c] \in Protocol
  /\ conn' = [conn EXCEPT ![c] = "deleted"]
  /\ UNCHANGED <<configured, identity, link, cookie, req>>

\* The callbacks take an enabled connection of the tenant and validate the
\* assertion, or the id_token, against it: its certificate, or its issuer's
\* keys.  SAML never vouches for the address.
BuildSamlInstance(c) == conn[c] = "SAML2"

SamlCallback(r, c, u, e) ==
  /\ req[r].pc = "idle"
  /\ BuildSamlInstance(c)
  /\ Asserts(r, c, u, e)
  /\ UNCHANGED Rows

OidcCallback(r, c, u, e, ver) ==
  /\ req[r].pc = "idle"
  /\ conn[c] = "OIDC" /\ (e = None => ~ver)
  /\ Put(r, [Idle EXCEPT !.pc = "account", !.acct = <<c, u>>, !.email = e, !.ver = ver])
  /\ UNCHANGED Rows

-----------------------------------------------------------------------------
\* The transaction of handleCallback and federatedLogin.

\* The assertion is resolved to identity i; the address has served its purpose.
Resolved(q, i, p) ==
  [Idle EXCEPT !.pc = p, !.acct = q.acct, !.who = i, !.status = identity[i].status]

\* Mutant: the address decides before the account.
FindAccountByEmail(r) ==
  LET q == req[r] IN
  /\ q.pc = "account"
  /\ IF Owner(q.email) # {}
       THEN \E i \in Owner(q.email) : Put(r, Resolved(q, i, "commit"))
       ELSE Goto(r, "email")
  /\ UNCHANGED Rows

\* A social callback also updates the provider's tokens on the row, and so
\* keeps it until the end; a tenant's connection only reads it.
FindAccount(r) ==
  LET q == req[r] i == link[q.acct] IN
  /\ q.pc = "account"
  /\ IF i # None THEN Put(r, [Resolved(q, i, "commit") EXCEPT !.locks = q.acct[1] \in Social])
                 ELSE Goto(r, "email")
  /\ UNCHANGED Rows

\* Mutant: an unverified address is as good.
FindEmailUnverified(r) ==
  LET q == req[r] IN
  /\ q.pc = "email"
  /\ \/ \E i \in Owner(q.email) : Put(r, Resolved(q, i, "link"))
     \/ /\ Owner(q.email) = {} \/ q.email = None
        /\ IF q.acct[1] \in Social THEN Finish(r) ELSE Goto(r, "identity")
  /\ UNCHANGED Rows

\* 409 for an unverified identity; without one a social sign-in answers 404 and
\* a connection provisions.
FindEmail(r) ==
  LET q == req[r] IN
  /\ q.pc = "email"
  /\ \/ \E i \in Owner(q.email) :
          IF q.email # None /\ identity[i].verified
            THEN Put(r, Resolved(q, i, "link"))
            ELSE q.email # None /\ Finish(r)
     \/ /\ Owner(q.email) = {} \/ q.email = None
        /\ IF q.acct[1] \in Social THEN Finish(r) ELSE Goto(r, "identity")
  /\ UNCHANGED Rows

\* The columns of a provisioned identity, with its MEMBER membership.
Provisioned(q) ==
  [made |-> TRUE, email |-> q.email, verified |-> q.ver, status |-> "ACTIVE",
   jit |-> TRUE, member |-> TRUE, unlinked |-> FALSE]

\* Mutant: the identity is stored before the transaction.
CreateIdentityAtOnce(r) ==
  /\ req[r].pc = "identity" /\ ~EmailHeld(r, req[r].email)
  /\ req[r].email # None => Owner(req[r].email) = {}
  /\ \E i \in Identity : FreeIdentity(i)
       /\ identity' = [identity EXCEPT ![i] = Provisioned(req[r])]
       /\ Put(r, [req[r] EXCEPT !.pc = "link", !.who = i])
  /\ UNCHANGED <<configured, link, conn, cookie>>

\* Insert identity and membership; the unique address may be taken by now.
CreateIdentity(r) ==
  LET q == req[r] IN
  /\ q.pc = "identity"
  /\ ~EmailHeld(r, q.email)
  /\ IF q.email # None /\ Owner(q.email) # {}
       THEN Finish(r)
       ELSE \E i \in Identity : FreeIdentity(i)
              /\ Put(r, [q EXCEPT !.pc = "link", !.who = i, !.inserts = TRUE])
  /\ UNCHANGED Rows

\* Mutant: the account is upserted.
LinkAccountUpsert(r) ==
  /\ req[r].pc = "link"
  /\ ~AccountHeld(r, req[r].acct)
  /\ Put(r, [req[r] EXCEPT !.pc = "commit", !.links = TRUE])
  /\ UNCHANGED Rows

\* Rows that refer to the identity need it to be there still.
Present(q) == q.inserts \/ identity[q.who].made

\* Insert the OAuthAccount; [provider, providerUserId] may be taken by now.
LinkAccount(r) ==
  LET q == req[r] IN
  /\ q.pc = "link"
  /\ ~AccountHeld(r, q.acct)
  /\ IF link[q.acct] # None \/ ~Present(q) THEN Finish(r)
       ELSE Put(r, [q EXCEPT !.pc = "commit", !.links = TRUE])
  /\ UNCHANGED Rows

\* The status that was read decides; then the session, and the commit.
Commit(r) ==
  LET q == req[r] IN
  /\ q.pc = "commit"
  /\ IF q.status = "ACTIVE" /\ Present(q)
       THEN /\ identity' = IF q.inserts THEN [identity EXCEPT ![q.who] = Provisioned(q)]
                                        ELSE identity
            /\ link' = IF q.links THEN [link EXCEPT ![q.acct] = q.who] ELSE link
            /\ Put(r, [Idle EXCEPT !.pc = "issue", !.acct = q.acct, !.who = q.who, !.cut = q.cut])
       ELSE Finish(r) /\ UNCHANGED <<identity, link>>
  /\ UNCHANGED <<configured, conn, cookie>>

\* tokenService.issue, after the transaction.
Issue(r) ==
  /\ req[r].pc = "issue"
  /\ Finish(r)
  /\ UNCHANGED Rows

\* The transaction fails or the process dies: nothing of it is stored.
Abort(r) ==
  /\ req[r].pc # "idle"
  /\ Finish(r)
  /\ UNCHANGED Rows

-----------------------------------------------------------------------------
\* What happens meanwhile: registration with a password (existsByEmail, then
\* the unique key), verification, and the administrators.

Register(i, e) ==
  /\ FreeIdentity(i) /\ Owner(e) = {}
  /\ \A q \in Req : ~(req[q].inserts /\ req[q].email = e)
  /\ identity' = [identity EXCEPT ![i] = [NoRow EXCEPT !.made = TRUE, !.email = e]]
  /\ UNCHANGED <<configured, link, conn, cookie, req>>

VerifyEmail(i) ==
  /\ identity[i].made /\ ~identity[i].jit /\ ~identity[i].verified
  /\ identity' = [identity EXCEPT ![i].verified = TRUE]
  /\ UNCHANGED <<configured, link, conn, cookie, req>>

Suspend(i) ==
  /\ identity[i].made /\ identity[i].status = "ACTIVE"
  /\ identity' = [identity EXCEPT ![i].status = "SUSPENDED"]
  /\ UNCHANGED <<configured, link, conn, cookie, req>>

\* Links that go, and who had found one of them.
DeleteLinks(A) ==
  /\ \A q \in Req : req[q].acct \in A => ~req[q].locks
  /\ link' = [a \in Account |-> IF a \in A THEN None ELSE link[a]]
  /\ req' = [r \in Req |->
       [req[r] EXCEPT !.cut = @ \/ (req[r].acct \in A /\ req[r].who # None)]]

\* DELETE /linked-accounts/:id by its owner, who need have no other way in.
Unlink(a) ==
  /\ link[a] # None
  /\ DeleteLinks({a})
  /\ identity' = [identity EXCEPT ![link[a]].unlinked = identity[link[a]].jit]
  /\ UNCHANGED <<configured, conn, cookie>>

\* DELETE /profile takes the links along; it waits for a link being inserted.
DeleteProfile(i) ==
  /\ identity[i].made
  /\ \A q \in Req : ~(req[q].links /\ req[q].who = i)
  /\ DeleteLinks({a \in Account : link[a] = i})
  /\ identity' = [identity EXCEPT ![i] = NoRow]
  /\ UNCHANGED <<configured, conn, cookie>>

\* A social callback finds an identity or fails; a tenant's connection also
\* provisions one.
HandleCallback(r) ==
  FindAccount(r) \/ FindEmail(r) \/ LinkAccount(r) \/ Commit(r) \/ Issue(r)

FederatedLogin(r) == HandleCallback(r) \/ CreateIdentity(r)

Next ==
  \/ \E x \in State : PlainRedirect(x) \/ PkceRedirect(x)
  \/ \E r \in Req, u \in Sub, e \in Email \cup {None}, x \in State :
       \/ \E p \in Pkce : PkceCallback(r, p, u, e, x)
       \/ \E p \in Social \ Pkce : PlainCallback(r, p, u, e, x)
  \/ \E c \in Connection : DeleteConnection(c) \/ \E p \in Protocol : CreateConnection(c, p)
  \/ \E r \in Req, c \in Connection, u \in Sub, e \in Email \cup {None} :
       SamlCallback(r, c, u, e) \/ \E ver \in BOOLEAN : OidcCallback(r, c, u, e, ver)
  \/ \E r \in Req : FederatedLogin(r) \/ Abort(r)
  \/ \E i \in Identity, e \in Email : Register(i, e)
  \/ \E i \in Identity : VerifyEmail(i) \/ Suspend(i) \/ DeleteProfile(i)
  \/ \E a \in Account : Unlink(a)

Spec == Init /\ [][Next]_vars

-----------------------------------------------------------------------------
\* Provisioning is all or nothing: an identity that a connection created has
\* an account that leads to it, also when its callback fails half-way, unless
\* its owner has unlinked it.
ProvisionedLinked ==
  \A i \in Identity : identity[i].jit /\ ~identity[i].unlinked => \E a \in Account : link[a] = i

\* A sign-in enters the identity its account is linked to, whatever address
\* the provider asserts later and whoever owns that address by then, unless
\* the link is deleted after it was found.
EntersOwner ==
  \A r \in Req : req[r].pc = "issue" /\ ~req[r].cut => link[req[r].acct] = req[r].who

\* Concurrent first sign-ins of one account do not move it from one identity
\* to another: the second insert fails on the unique key.
LinkStable == [][\A a \in Account : link[a] # None => link'[a] \in {link[a], None}]_vars

\* Only a verified address attracts accounts: an identity that registered
\* itself has links only when it is verified, and a provisioned one has a
\* second link only then.
LinksNeedVerified ==
  \A i \in Identity :
    Cardinality({a \in Account : link[a] = i}) > (IF identity[i].jit THEN 1 ELSE 0)
      => identity[i].verified
=============================================================================
