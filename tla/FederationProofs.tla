--------------------------- MODULE FederationProofs ---------------------------
(***************************************************************************)
(* Machine-checked proofs about Federation, for any number of identities,  *)
(* addresses, providers, accounts and concurrent sign-ins.                 *)
(***************************************************************************)
EXTENDS Federation, FiniteSetTheorems, TLAPS

-----------------------------------------------------------------------------
\* The inductive invariant.

\* What the phase of a request says about what it has found and written.
Phase(x) ==
  /\ x.pc # "idle" => x.acct \in Account
  /\ x.pc \in {"idle", "account", "email", "identity"} => x.who = None
  /\ x.pc \in {"link", "commit", "issue"} => x.who \in Identity
  /\ x.inserts => x.pc = "link" \/ x.links
  /\ x.links => x.pc = "commit"
  /\ x.pc = "commit" /\ x.inserts => x.links

\* An account whose link is being inserted has none, and one that was found
\* leads to the identity the request acts for, unless it was cut since.
OnLink(x) ==
  /\ x.links => link[x.acct] = None
  /\ x.pc \in {"commit", "issue"} /\ ~x.links /\ ~x.cut => link[x.acct] = x.who

\* An identity that is being inserted is not there, and one that an address has
\* led to is verified, if it is still there.
OnIdentity(x) ==
  /\ x.inserts => ~identity[x.who].made
  /\ (x.pc = "link" \/ x.links) /\ ~x.inserts /\ identity[x.who].made
       => identity[x.who].verified

Fits(x) == Phase(x) /\ OnLink(x) /\ OnIdentity(x)

\* Two requests insert neither the same link nor the same identity.
Apart(x, y) ==
  /\ x.links /\ y.links => x.acct # y.acct
  /\ x.inserts => x.who # y.who

Requests ==
  /\ \A r \in Req : Fits(req[r])
  /\ \A q, r \in Req : q # r => Apart(req[q], req[r])

\* The accounts that lead to identity i.
LinksOf(i) == {a \in Account : link[a] = i}

\* Links lead to identities that are there, and one nobody has verified has the
\* link it was provisioned with at most.
Links ==
  /\ \A a \in Account : link[a] # None => identity[link[a]].made
  /\ \A i \in Identity : IsFiniteSet(LinksOf(i))
  /\ \A i \in Identity :
       ~identity[i].verified => Cardinality(LinksOf(i)) <= (IF identity[i].jit THEN 1 ELSE 0)

IndInv == TypeOK /\ Requests /\ Links /\ ProvisionedLinked

-----------------------------------------------------------------------------
\* Lemmas about the invariant.

\* A request that has ended fits any state and is in nobody's way.
LEMMA IdleFits ==
  /\ Idle \in Request /\ Fits(Idle)
  /\ \A q \in Req : Fits(req[q]) /\ req[q] \in Request =>
       Apart(Idle, req[q]) /\ Apart(req[q], Idle)
<1>1. Idle \in Request
  BY DEF Idle, Request, Pc
<1>2. Fits(Idle)
  BY DEF Fits, Idle, Phase, OnLink, OnIdentity
<1>3. ASSUME NEW q \in Req, Fits(req[q]), req[q] \in Request
      PROVE  Apart(Idle, req[q]) /\ Apart(req[q], Idle)
  <2>1. req[q].inserts => req[q].who # None
    BY <1>3, FederationAssumption DEF Fits, Phase
  <2> QED
    BY <2>1 DEF Apart, Idle
<1> QED
  BY <1>1, <1>2, <1>3

\* The facts of IndInv about one request and the others.
LEMMA Read ==
  ASSUME IndInv, NEW r \in Req
  PROVE  /\ req[r] \in Request /\ Fits(req[r])
         /\ \A q \in Req \ {r} : /\ req[q] \in Request /\ Fits(req[q])
                                 /\ Apart(req[r], req[q]) /\ Apart(req[q], req[r])
BY DEF IndInv, TypeOK, Requests

\* Links that do not change lead where they led.
LEMMA SameLinks ==
  ASSUME IndInv, link' = link, NEW i \in Identity
  PROVE  LinksOf(i)' = LinksOf(i)
BY DEF LinksOf

\* A step of one request that leaves identities and links alone.
LEMMA PutStep ==
  ASSUME IndInv, NEW r \in Req, NEW x \in Request, Put(r, x),
         UNCHANGED <<configured, identity, link, conn>>,
         cookie' \in [state: State \cup {None}, verifier: BOOLEAN],
         Fits(x), \A q \in Req \ {r} : Apart(x, req[q]) /\ Apart(req[q], x)
  PROVE  IndInv'
<1>1. /\ req'[r] = x /\ \A q \in Req : q # r => req'[q] = req[q]
      /\ req' \in [Req -> Request]
  BY DEF Put, IndInv, TypeOK
<1>2. TypeOK'
  BY <1>1 DEF IndInv, TypeOK
<1>3. Requests'
  <2>1. ASSUME NEW q \in Req PROVE Fits(req[q])'
    <3>1. Fits(req'[q])
      BY <1>1 DEF IndInv, Requests
    <3> QED
      BY <3>1 DEF Fits, Phase, OnLink, OnIdentity
  <2>2. ASSUME NEW p \in Req, NEW q \in Req, p # q PROVE Apart(req[p], req[q])'
    <3>1. Apart(req'[p], req'[q])
      BY <1>1, <2>2 DEF IndInv, Requests
    <3> QED
      BY <3>1 DEF Apart
  <2> QED
    BY <2>1, <2>2 DEF Requests
<1>4. Links' /\ ProvisionedLinked'
  BY SameLinks DEF IndInv, Links, ProvisionedLinked
<1> QED
  BY <1>2, <1>3, <1>4 DEF IndInv

\* A new state, or none, in the cookie.
LEMMA CookieType ==
  ASSUME NEW k \in [state: State \cup {None}, verifier: BOOLEAN], NEW x \in State \cup {None}
  PROVE  [k EXCEPT !.state = x] \in [state: State \cup {None}, verifier: BOOLEAN]
OBVIOUS

\* Nothing is linked at first.
LEMMA InitInv == Init => IndInv
<1> SUFFICES ASSUME Init PROVE IndInv
  OBVIOUS
<1>1. TypeOK
  BY IdleFits DEF Init, TypeOK, NoRow, Row
<1>2. Requests
  <2>1. \A q \in Req : req[q] = Idle
    BY DEF Init
  <2> QED
    BY <2>1, IdleFits DEF Requests
<1>3. ASSUME NEW i \in Identity PROVE LinksOf(i) = {} /\ ~identity[i].jit
  BY FederationAssumption DEF Init, LinksOf, NoRow
<1>4. Links
  <2>1. \A a \in Account : link[a] = None
    BY DEF Init
  <2>2. \A i \in Identity : IsFiniteSet(LinksOf(i)) /\ Cardinality(LinksOf(i)) = 0
    BY <1>3, FS_EmptySet
  <2> QED
    BY <1>3, <2>1, <2>2 DEF Links
<1>5. ProvisionedLinked
  BY <1>3 DEF ProvisionedLinked
<1> QED
  BY <1>1, <1>2, <1>4, <1>5 DEF IndInv

-----------------------------------------------------------------------------
\* The steps of a sign-in before its commit.

\* A callback begins with the account that the provider asserts.
LEMMA AssertStep ==
  ASSUME IndInv, NEW r \in Req, NEW x \in Request, Put(r, x),
         x.pc = "account", x.acct \in Account, x.who = None, ~x.inserts, ~x.links,
         UNCHANGED <<configured, identity, link, conn>>,
         cookie' \in [state: State \cup {None}, verifier: BOOLEAN]
  PROVE  IndInv'
<1>1. Fits(x)
  BY DEF Fits, Phase, OnLink, OnIdentity
<1>2. ASSUME NEW q \in Req \ {r} PROVE Apart(x, req[q]) /\ Apart(req[q], x)
  <2>1. req[q].inserts => req[q].who # None
    BY Read, FederationAssumption DEF Fits, Phase
  <2> QED
    BY <2>1 DEF Apart
<1> QED
  BY <1>1, <1>2, PutStep

\* The four callbacks.
LEMMA CallbackStep ==
  ASSUME IndInv, NEW r \in Req, NEW u \in Sub, NEW e \in Email \cup {None},
         \/ \E x \in State : \/ \E p \in Pkce : PkceCallback(r, p, u, e, x)
                             \/ \E p \in Social \ Pkce : PlainCallback(r, p, u, e, x)
         \/ \E c \in Connection : \/ SamlCallback(r, c, u, e)
                                  \/ \E ver \in BOOLEAN : OidcCallback(r, c, u, e, ver)
  PROVE  IndInv'
<1> DEFINE Begins(x) == /\ Put(r, x) /\ x.pc = "account" /\ x.acct \in Account /\ x.who = None
                        /\ ~x.inserts /\ ~x.links
<1>1. ASSUME NEW p \in Provider, Asserts(r, p, u, e) PROVE \E x \in Request : Begins(x)
  <2> DEFINE x == [Idle EXCEPT !.pc = "account", !.acct = <<p, u>>, !.email = e]
  <2>1. x \in Request /\ Begins(x)
    BY <1>1, IdleFits DEF Asserts, Idle, Request, Pc, Account
  <2> QED
    BY <2>1
<1>2. ASSUME NEW c \in Connection, NEW ver \in BOOLEAN, OidcCallback(r, c, u, e, ver)
      PROVE  \E x \in Request : Begins(x)
  <2> DEFINE x == [Idle EXCEPT !.pc = "account", !.acct = <<c, u>>, !.email = e, !.ver = ver]
  <2>1. x \in Request /\ Begins(x)
    BY <1>2, IdleFits DEF OidcCallback, Idle, Request, Pc, Account, Provider
  <2> QED
    BY <2>1
<1>3. PICK x \in Request : Begins(x)
  BY <1>1, <1>2, FederationAssumption
     DEF PkceCallback, PlainCallback, SamlCallback, Provider
<1>4. UNCHANGED <<configured, identity, link, conn>>
  BY DEF PkceCallback, PlainCallback, SamlCallback, OidcCallback, Rows
<1>5. cookie' \in [state: State \cup {None}, verifier: BOOLEAN]
  <2>1. cookie \in [state: State \cup {None}, verifier: BOOLEAN]
    BY DEF IndInv, TypeOK
  <2>2. \/ cookie' = [state |-> None, verifier |-> FALSE]
        \/ cookie' = [cookie EXCEPT !.state = None]
        \/ cookie' = cookie
    BY DEF PkceCallback, PlainCallback, SamlCallback, OidcCallback, Rows
  <2>3. CASE cookie' = [cookie EXCEPT !.state = None]
    BY <2>1, <2>3, CookieType
  <2>4. CASE cookie' = [state |-> None, verifier |-> FALSE]
    BY <2>4
  <2>5. CASE cookie' = cookie
    BY <2>1, <2>5
  <2> QED
    BY <2>2, <2>3, <2>4, <2>5
<1> QED
  BY <1>3, <1>4, <1>5, AssertStep

\* Ending a request, with or without a reason.
LEMMA FinishStep ==
  ASSUME IndInv, NEW r \in Req, Finish(r), UNCHANGED Rows
  PROVE  IndInv'
<1>1. cookie' \in [state: State \cup {None}, verifier: BOOLEAN]
  BY DEF Rows, IndInv, TypeOK
<1>2. \A q \in Req \ {r} : Apart(Idle, req[q]) /\ Apart(req[q], Idle)
  BY Read, IdleFits
<1> QED
  BY <1>1, <1>2, IdleFits, PutStep DEF Finish, Rows

\* A request goes on to the next look-up with nothing found.
LEMMA GotoStep ==
  ASSUME IndInv, NEW r \in Req, NEW p \in {"email", "identity"}, Goto(r, p), UNCHANGED Rows,
         req[r].pc \in {"account", "email"}
  PROVE  IndInv'
<1> DEFINE y == req[r]
           x == [y EXCEPT !.pc = p]
<1>1. y \in Request /\ Phase(y) /\ ~y.inserts /\ ~y.links
  BY Read DEF Fits, Phase
<1>2. x \in Request /\ x.pc = p /\ x.acct = y.acct /\ x.who = None /\ ~x.inserts /\ ~x.links
  BY <1>1 DEF Request, Pc, Phase
<1>3. x.acct \in Account /\ Put(r, x)
  BY <1>1, <1>2 DEF Phase, Goto
<1>4. cookie' \in [state: State \cup {None}, verifier: BOOLEAN]
  BY DEF Rows, IndInv, TypeOK
<1> HIDE DEF x, y
<1>5. Fits(x)
  BY <1>2, <1>3 DEF Fits, Phase, OnLink, OnIdentity
<1>6. ASSUME NEW q \in Req \ {r} PROVE Apart(x, req[q]) /\ Apart(req[q], x)
  <2>1. req[q].inserts => req[q].who # None
    BY Read, FederationAssumption DEF Fits, Phase
  <2> QED
    BY <1>2, <2>1 DEF Apart
<1> QED
  BY <1>2, <1>3, <1>4, <1>5, <1>6, PutStep DEF Rows

\* An assertion is resolved to an identity that is there: by the account, or by
\* a verified address.
LEMMA ResolveStep ==
  ASSUME IndInv, NEW r \in Req, NEW i \in Identity, NEW x \in Request, Put(r, x), UNCHANGED Rows,
         x.acct \in Account, x.who = i, ~x.inserts, ~x.links, identity[i].made,
         \/ x.pc = "link" /\ identity[i].verified
         \/ x.pc = "commit" /\ link[x.acct] = i
  PROVE  IndInv'
<1>1. cookie' \in [state: State \cup {None}, verifier: BOOLEAN]
  BY DEF Rows, IndInv, TypeOK
<1>2. Fits(x)
  BY DEF Fits, Phase, OnLink, OnIdentity
<1>3. ASSUME NEW q \in Req \ {r} PROVE Apart(x, req[q]) /\ Apart(req[q], x)
  <2>1. req[q].inserts => req[q].who # i
    BY Read DEF Fits, OnIdentity
  <2> QED
    BY <2>1 DEF Apart
<1> QED
  BY <1>1, <1>2, <1>3, PutStep DEF Rows

\* FindAccount and FindEmail.
LEMMA FindStep ==
  ASSUME IndInv, NEW r \in Req, FindAccount(r) \/ FindEmail(r)
  PROVE  IndInv'
<1>1. /\ req[r] \in Request /\ req[r].acct \in Account /\ UNCHANGED Rows
      /\ req[r].pc \in {"account", "email"}
  BY Read DEF FindAccount, FindEmail, Fits, Phase
<1>2. ASSUME NEW i \in Identity, NEW p \in {"link", "commit"}
      PROVE  LET x == Resolved(req[r], i, p)
             IN /\ x \in Request /\ x.pc = p /\ x.acct = req[r].acct /\ x.who = i
                /\ ~x.inserts /\ ~x.links
  <2>1. identity[i].status \in {"ACTIVE", "SUSPENDED"}
    BY DEF IndInv, TypeOK, Row
  <2> QED
    BY <1>1, <2>1, IdleFits DEF Resolved, Idle, Request, Pc
<1>3. CASE FindAccount(r) /\ link[req[r].acct] # None
  <2> DEFINE i == link[req[r].acct]
             z == Resolved(req[r], i, "commit")
  <2>1. i \in Identity /\ identity[i].made
    BY <1>1, <1>3 DEF IndInv, TypeOK, Links
  <2>2. PICK b \in BOOLEAN : b <=> req[r].acct[1] \in Social
    <3>1. CASE req[r].acct[1] \in Social
      BY <3>1
    <3>2. CASE req[r].acct[1] \notin Social
      BY <3>2
    <3> QED
      BY <3>1, <3>2
  <2>3. Put(r, [z EXCEPT !.locks = b])
    <3>1. [z EXCEPT !.locks = req[r].acct[1] \in Social] = [z EXCEPT !.locks = b]
      BY <2>2
    <3> QED
      BY <1>3, <3>1 DEF FindAccount
  <2>4. /\ z \in Request /\ z.pc = "commit" /\ z.acct = req[r].acct /\ z.who = i
        /\ ~z.inserts /\ ~z.links
    BY <1>2, <2>1
  <2> DEFINE x == [z EXCEPT !.locks = b]
  <2> HIDE DEF z
  <2>5. /\ x \in Request /\ x.pc = "commit" /\ x.acct = req[r].acct /\ x.who = i
        /\ ~x.inserts /\ ~x.links
    BY <2>4 DEF Request
  <2> HIDE DEF x
  <2> QED
    BY <1>1, <2>1, <2>3, <2>5, ResolveStep DEF x
<1>4. CASE FindAccount(r) /\ link[req[r].acct] = None
  BY <1>1, <1>4, GotoStep DEF FindAccount
<1>5. ASSUME NEW i \in Owner(req[r].email), identity[i].verified,
             Put(r, Resolved(req[r], i, "link"))
      PROVE  IndInv'
  <2>1. i \in Identity /\ identity[i].made
    BY DEF Owner
  <2> DEFINE x == Resolved(req[r], i, "link")
  <2>2. /\ x \in Request /\ x.pc = "link" /\ x.acct = req[r].acct /\ x.who = i
        /\ ~x.inserts /\ ~x.links /\ Put(r, x)
    BY <1>2, <1>5, <2>1
  <2> HIDE DEF x
  <2> QED
    BY <1>1, <1>5, <2>1, <2>2, ResolveStep
<1>6. CASE Finish(r)
  BY <1>1, <1>6, FinishStep
<1>7. CASE Goto(r, "identity")
  BY <1>1, <1>7, GotoStep
<1> QED
  BY <1>3, <1>4, <1>5, <1>6, <1>7 DEF FindEmail

\* CreateIdentity takes a row that no other request has or remembers.
LEMMA CreateIdentityStep ==
  ASSUME IndInv, NEW r \in Req, CreateIdentity(r)
  PROVE  IndInv'
<1> DEFINE y == req[r]
<1>1. y \in Request /\ Phase(y) /\ y.pc = "identity" /\ UNCHANGED Rows
  BY Read DEF CreateIdentity, Fits
<1>2. CASE Finish(r)
  BY <1>1, <1>2, FinishStep
<1>3. ASSUME NEW i \in Identity, FreeIdentity(i),
             Put(r, [y EXCEPT !.pc = "link", !.who = i, !.inserts = TRUE])
      PROVE  IndInv'
  <2> DEFINE x == [y EXCEPT !.pc = "link", !.who = i, !.inserts = TRUE]
  <2>1. /\ x \in Request /\ x.pc = "link" /\ x.acct = y.acct /\ x.who = i
        /\ x.inserts /\ x.links = y.links
    BY <1>1 DEF Request, Pc
  <2>2. y.acct \in Account /\ ~y.links /\ Put(r, x) /\ ~identity[i].made
    BY <1>1, <1>3 DEF Phase, FreeIdentity
  <2>3. cookie' \in [state: State \cup {None}, verifier: BOOLEAN]
    BY <1>1 DEF Rows, IndInv, TypeOK
  <2>4. \A q \in Req : req[q].who # i
    BY <1>3 DEF FreeIdentity
  <2> HIDE DEF x, y
  <2>5. Fits(x)
    BY <2>1, <2>2 DEF Fits, Phase, OnLink, OnIdentity
  <2>6. \A q \in Req \ {r} : Apart(x, req[q]) /\ Apart(req[q], x)
    BY <2>1, <2>2, <2>4 DEF Apart
  <2> QED
    BY <1>1, <2>1, <2>2, <2>3, <2>5, <2>6, PutStep DEF Rows
<1> QED
  BY <1>2, <1>3 DEF CreateIdentity

\* LinkAccount inserts a link for an account that has none and that no other
\* open transaction is linking.
LEMMA LinkAccountStep ==
  ASSUME IndInv, NEW r \in Req, LinkAccount(r)
  PROVE  IndInv'
<1> DEFINE y == req[r]
<1>1. y \in Request /\ Fits(y) /\ y.pc = "link" /\ UNCHANGED Rows
  BY Read DEF LinkAccount
<1>2. CASE Finish(r)
  BY <1>1, <1>2, FinishStep
<1>3. CASE /\ link[y.acct] = None
           /\ Put(r, [y EXCEPT !.pc = "commit", !.links = TRUE])
  <2> DEFINE x == [y EXCEPT !.pc = "commit", !.links = TRUE]
  <2>1. /\ x \in Request /\ x.pc = "commit" /\ x.acct = y.acct /\ x.who = y.who
        /\ x.inserts = y.inserts /\ x.links /\ Put(r, x)
    BY <1>1, <1>3 DEF Request, Pc
  <2>2. cookie' \in [state: State \cup {None}, verifier: BOOLEAN]
    BY <1>1 DEF Rows, IndInv, TypeOK
  <2>3. \A q \in Req \ {r} : /\ ~(req[q].links /\ req[q].acct = y.acct)
                             /\ Apart(y, req[q]) /\ Apart(req[q], y)
    BY Read DEF LinkAccount, AccountHeld
  <2> HIDE DEF x, y
  <2>4. Fits(x)
    BY <1>1, <1>3, <2>1 DEF Fits, Phase, OnLink, OnIdentity
  <2>5. \A q \in Req \ {r} : Apart(x, req[q]) /\ Apart(req[q], x)
    BY <2>1, <2>3 DEF Apart
  <2> QED
    BY <1>1, <2>1, <2>2, <2>4, <2>5, PutStep DEF Rows
<1> QED
  BY <1>2, <1>3 DEF LinkAccount

-----------------------------------------------------------------------------
\* Steps that write to identities and links.

\* The commit stores the link, and with it the identity it was provisioned for.
LEMMA CommitStep ==
  ASSUME IndInv, NEW r \in Req, Commit(r)
  PROVE  IndInv'
<1>1. PICK y : y = req[r]
  OBVIOUS
<1>2. y \in Request /\ Fits(y) /\ y.pc = "commit" /\ y.acct \in Account /\ y.who \in Identity
  BY <1>1, Read DEF Commit, Fits, Phase
<1>3. CASE Finish(r) /\ UNCHANGED <<identity, link>>
  BY <1>3, FinishStep DEF Commit, Rows
<1>4. CASE /\ Present(y)
           /\ identity' = IF y.inserts THEN [identity EXCEPT ![y.who] = Provisioned(y)] ELSE identity
           /\ link' = IF y.links THEN [link EXCEPT ![y.acct] = y.who] ELSE link
           /\ Put(r, [Idle EXCEPT !.pc = "issue", !.acct = y.acct, !.who = y.who, !.cut = y.cut])
  <2>1. PICK x : x = [Idle EXCEPT !.pc = "issue", !.acct = y.acct, !.who = y.who, !.cut = y.cut]
    OBVIOUS
  <2>2. /\ x \in Request /\ x.pc = "issue" /\ x.acct = y.acct /\ x.who = y.who /\ x.cut = y.cut
        /\ ~x.inserts /\ ~x.links
    BY <1>2, <2>1, IdleFits DEF Idle, Request, Pc
  <2>3. /\ req' = [req EXCEPT ![r] = x] /\ req'[r] = x
        /\ \A q \in Req : q # r => req'[q] = req[q]
        /\ UNCHANGED <<configured, conn, cookie>>
    BY <1>4, <2>1 DEF Commit, Put, IndInv, TypeOK
  <2>4. PICK w : w = Provisioned(y)
    OBVIOUS
  <2>5. w \in Row /\ w.made /\ w.jit /\ ~w.unlinked
    BY <1>2, <2>4 DEF Provisioned, Row, Request
  <2>6. /\ \A i \in Identity : identity'[i] = IF y.inserts /\ i = y.who THEN w ELSE identity[i]
        /\ \A a \in Account : link'[a] = IF y.links /\ a = y.acct THEN y.who ELSE link[a]
    BY <1>2, <1>4, <2>4 DEF IndInv, TypeOK
  <2>7. /\ y.links => link[y.acct] = None
        /\ ~y.links /\ ~y.cut => link[y.acct] = y.who
        /\ y.inserts => y.links /\ ~identity[y.who].made
        /\ ~y.inserts => identity[y.who].made
        /\ ~y.inserts /\ y.links => identity[y.who].verified
    BY <1>2, <1>4 DEF Fits, Phase, OnLink, OnIdentity, Present
  <2>8. TypeOK'
    <3>1. identity' \in [Identity -> Row] /\ link' \in [Account -> Identity \cup {None}]
      BY <1>2, <1>4, <2>4, <2>5 DEF IndInv, TypeOK
    <3>2. \A i \in Identity : ~identity'[i].made => identity'[i] = NoRow
      BY <2>5, <2>6 DEF IndInv, TypeOK
    <3>3. req' \in [Req -> Request]
      BY <2>2, <2>3 DEF IndInv, TypeOK
    <3> QED
      BY <2>3, <3>1, <3>2, <3>3 DEF IndInv, TypeOK
  <2>9. ASSUME NEW q \in Req \ {r}, NEW z, z = req[q]
        PROVE  Fits(z)' /\ Apart(x, z) /\ Apart(z, x)
    <3>1. z \in Request /\ Fits(z) /\ Apart(y, z) /\ Apart(z, y)
      BY <1>1, <2>9, Read
    <3>2. OnLink(z)'
      <4>1. (z.links \/ z.pc \in {"commit", "issue"}) => z.acct \in Account /\ z.who # None
        BY <3>1, FederationAssumption DEF Fits, Phase
      <4> QED
        BY <2>6, <2>7, <3>1, <4>1 DEF Fits, OnLink, Apart
    <3>3. OnIdentity(z)'
      <4>1. z.inserts \/ z.pc = "link" \/ z.links => z.who \in Identity
        BY <3>1 DEF Fits, Phase
      <4> QED
        BY <2>6, <3>1, <4>1 DEF Fits, OnIdentity, Apart
    <3>4. Phase(z)' /\ Apart(x, z) /\ Apart(z, x)
      BY <2>2, <3>1 DEF Fits, Phase, Apart
    <3> QED
      BY <3>2, <3>3, <3>4 DEF Fits
  <2>10. Fits(x)'
    BY <1>2, <2>2, <2>6, <2>7 DEF Fits, Phase, OnLink, OnIdentity
  <2>11. Requests'
    <3>1. ASSUME NEW q \in Req PROVE Fits(req[q])'
      <4>1. CASE q = r
        BY <2>3, <2>10, <4>1
      <4>2. CASE q # r
        BY <2>3, <2>9, <4>2
      <4> QED
        BY <4>1, <4>2
    <3>2. ASSUME NEW p \in Req, NEW q \in Req, p # q PROVE Apart(req[p], req[q])'
      <4>1. Apart(req'[p], req'[q])
        BY <2>3, <2>9, <3>2 DEF IndInv, Requests
      <4> QED
        BY <4>1 DEF Apart
    <3> QED
      BY <3>1, <3>2 DEF Requests
  <2>12. Links'
    <3>1. \A a \in Account : link'[a] # None => identity'[link'[a]].made
      BY <1>2, <2>5, <2>6, <2>7 DEF IndInv, Links, TypeOK
    <3>2. ASSUME NEW i \in Identity
          PROVE  /\ IsFiniteSet(LinksOf(i)')
                 /\ ~identity'[i].verified =>
                      Cardinality(LinksOf(i)') <= (IF identity'[i].jit THEN 1 ELSE 0)
      <4>1. /\ IsFiniteSet(LinksOf(i))
            /\ ~identity[i].verified =>
                 Cardinality(LinksOf(i)) <= (IF identity[i].jit THEN 1 ELSE 0)
        BY DEF IndInv, Links
      <4>2. CASE i # y.who \/ ~y.links
        <5>1. LinksOf(i)' = LinksOf(i)
          BY <2>6, <2>7, <4>2, FederationAssumption DEF LinksOf
        <5>2. identity'[i] = identity[i]
          BY <2>6, <2>7, <4>2
        <5> QED
          BY <4>1, <5>1, <5>2
      <4>3. CASE i = y.who /\ y.links /\ ~y.inserts
        <5>1. LinksOf(i)' = LinksOf(i) \cup {y.acct}
          BY <1>2, <2>6, <4>3 DEF LinksOf
        <5>2. IsFiniteSet(LinksOf(i)')
          BY <4>1, <5>1, FS_AddElement
        <5>3. identity'[i].verified
          BY <2>6, <2>7, <4>3
        <5> QED
          BY <5>2, <5>3
      <4>4. CASE i = y.who /\ y.links /\ y.inserts
        <5>1. \A a \in Account : link[a] # i
          BY <2>7, <4>4, FederationAssumption DEF IndInv, Links
        <5>2. LinksOf(i)' = {y.acct}
          BY <1>2, <2>6, <4>4, <5>1 DEF LinksOf
        <5>3. IsFiniteSet(LinksOf(i)') /\ Cardinality(LinksOf(i)') = 1
          BY <5>2, FS_Singleton
        <5>4. identity'[i].jit
          BY <2>5, <2>6, <4>4
        <5> QED
          BY <5>3, <5>4
      <4> QED
        BY <4>2, <4>3, <4>4
    <3> QED
      BY <3>1, <3>2 DEF Links
  <2>13. ProvisionedLinked'
    <3> SUFFICES ASSUME NEW i \in Identity, identity'[i].jit, ~identity'[i].unlinked
                 PROVE  \E a \in Account : link'[a] = i
      BY DEF ProvisionedLinked
    <3>1. CASE y.inserts /\ i = y.who
      BY <1>2, <2>6, <2>7, <3>1
    <3>2. CASE ~(y.inserts /\ i = y.who)
      <4>1. PICK a \in Account : link[a] = i
        BY <2>6, <3>2 DEF IndInv, ProvisionedLinked
      <4>2. ~(y.links /\ a = y.acct)
        BY <2>7, <4>1, FederationAssumption
      <4> QED
        BY <2>6, <4>1, <4>2
    <3> QED
      BY <3>1, <3>2
  <2> QED
    BY <2>8, <2>11, <2>12, <2>13 DEF IndInv
<1> QED
  BY <1>1, <1>3, <1>4 DEF Commit

\* A row that changes while nobody is inserting it: registration of one that
\* nobody remembers, verification and suspension.
LEMMA RowStep ==
  ASSUME IndInv, NEW i \in Identity, NEW w \in Row, identity' = [identity EXCEPT ![i] = w],
         UNCHANGED <<configured, link, conn, cookie, req>>,
         w.made, identity[i].verified => w.verified,
         \/ ~identity[i].made /\ ~w.jit /\ \A q \in Req : req[q].who # i
         \/ identity[i].made /\ w.jit = identity[i].jit /\ w.unlinked = identity[i].unlinked
  PROVE  IndInv'
<1>1. \A j \in Identity : identity'[j] = IF j = i THEN w ELSE identity[j]
  BY DEF IndInv, TypeOK
<1>2. TypeOK'
  BY <1>1 DEF IndInv, TypeOK
<1>3. Requests'
  <2>1. ASSUME NEW q \in Req PROVE Fits(req[q])'
    <3>1. Phase(req[q])' /\ OnLink(req[q])'
      BY DEF IndInv, Requests, Fits, Phase, OnLink
    <3>2. OnIdentity(req[q])'
      <4>1. req[q].inserts \/ req[q].pc = "link" \/ req[q].links => req[q].who \in Identity
        BY DEF IndInv, Requests, Fits, Phase
      <4> QED
        BY <1>1, <4>1 DEF IndInv, Requests, Fits, OnIdentity
    <3> QED
      BY <3>1, <3>2 DEF Fits
  <2>2. ASSUME NEW p \in Req, NEW q \in Req, p # q PROVE Apart(req[p], req[q])'
    BY <2>2 DEF IndInv, Requests, Apart
  <2> QED
    BY <2>1, <2>2 DEF Requests
<1>4. Links'
  <2>1. \A a \in Account : link'[a] # None => identity'[link'[a]].made
    BY <1>1 DEF IndInv, Links, TypeOK
  <2>2. ASSUME NEW j \in Identity
        PROVE  /\ IsFiniteSet(LinksOf(j)')
               /\ ~identity'[j].verified =>
                    Cardinality(LinksOf(j)') <= (IF identity'[j].jit THEN 1 ELSE 0)
    <3>1. /\ LinksOf(j)' = LinksOf(j) /\ IsFiniteSet(LinksOf(j))
          /\ ~identity[j].verified =>
               Cardinality(LinksOf(j)) <= (IF identity[j].jit THEN 1 ELSE 0)
      BY SameLinks DEF IndInv, Links
    <3>2. CASE j = i /\ ~identity[i].made
      <4>1. LinksOf(j) = {}
        BY <3>2, FederationAssumption DEF IndInv, Links, LinksOf
      <4>2. Cardinality(LinksOf(j)) = 0
        BY <4>1, FS_EmptySet
      <4> QED
        BY <3>1, <4>2
    <3>3. CASE ~(j = i /\ ~identity[i].made)
      BY <1>1, <3>1, <3>3
    <3> QED
      BY <3>2, <3>3
  <2> QED
    BY <2>1, <2>2 DEF Links
<1>5. ProvisionedLinked'
  BY <1>1 DEF IndInv, ProvisionedLinked
<1> QED
  BY <1>2, <1>3, <1>4, <1>5 DEF IndInv

\* Registration, verification and suspension.
LEMMA AccountSteps ==
  ASSUME IndInv, NEW i \in Identity,
         (\E e \in Email : Register(i, e)) \/ VerifyEmail(i) \/ Suspend(i)
  PROVE  IndInv'
<1>0. identity[i] \in Row /\ (~identity[i].made => identity[i] = NoRow)
  BY DEF IndInv, TypeOK
<1>1. ASSUME NEW e \in Email, Register(i, e) PROVE IndInv'
  <2> DEFINE w == [NoRow EXCEPT !.made = TRUE, !.email = e]
  <2>1. w \in Row /\ w.made /\ ~w.jit
    BY DEF Row, NoRow
  <2>2. /\ ~identity[i].made /\ \A q \in Req : req[q].who # i
        /\ identity' = [identity EXCEPT ![i] = w]
        /\ UNCHANGED <<configured, link, conn, cookie, req>>
    BY <1>1 DEF Register, FreeIdentity
  <2>3. ~identity[i].verified
    BY <1>0, <2>2 DEF NoRow
  <2> HIDE DEF w
  <2> QED
    BY <2>1, <2>2, <2>3, RowStep
<1>2. CASE VerifyEmail(i)
  <2> DEFINE w == [identity[i] EXCEPT !.verified = TRUE]
  <2>1. /\ w \in Row /\ w.made = identity[i].made /\ w.jit = identity[i].jit /\ w.verified
        /\ w.unlinked = identity[i].unlinked
    BY <1>0 DEF Row
  <2>2. /\ identity' = [identity EXCEPT ![i] = w] /\ identity[i].made
        /\ UNCHANGED <<configured, link, conn, cookie, req>>
    BY <1>2 DEF VerifyEmail
  <2> HIDE DEF w
  <2> QED
    BY <2>1, <2>2, RowStep
<1>3. CASE Suspend(i)
  <2> DEFINE w == [identity[i] EXCEPT !.status = "SUSPENDED"]
  <2>1. /\ w \in Row /\ w.made = identity[i].made /\ w.jit = identity[i].jit
        /\ w.verified = identity[i].verified /\ w.unlinked = identity[i].unlinked
    BY <1>0 DEF Row
  <2>2. /\ identity' = [identity EXCEPT ![i] = w] /\ identity[i].made
        /\ UNCHANGED <<configured, link, conn, cookie, req>>
    BY <1>3 DEF Suspend
  <2> HIDE DEF w
  <2> QED
    BY <2>1, <2>2, RowStep
<1> QED
  BY <1>1, <1>2, <1>3

\* Links that go leave their mark on every request that had found one of them.
LEMMA DeleteLinksFacts ==
  ASSUME IndInv, NEW A \in SUBSET Account, DeleteLinks(A)
  PROVE  /\ \A a \in Account : link'[a] = IF a \in A THEN None ELSE link[a]
         /\ link' \in [Account -> Identity \cup {None}] /\ req' \in [Req -> Request]
         /\ \A q \in Req :
              /\ req'[q].pc = req[q].pc /\ req'[q].acct = req[q].acct /\ req'[q].who = req[q].who
              /\ req'[q].inserts = req[q].inserts /\ req'[q].links = req[q].links
              /\ (req'[q].cut <=> req[q].cut \/ (req[q].acct \in A /\ req[q].who # None))
<1>1. /\ link' = [a \in Account |-> IF a \in A THEN None ELSE link[a]]
      /\ req' = [q \in Req |->
           [req[q] EXCEPT !.cut = @ \/ (req[q].acct \in A /\ req[q].who # None)]]
  BY DEF DeleteLinks
<1>2. link' \in [Account -> Identity \cup {None}]
  BY <1>1 DEF IndInv, TypeOK
<1>3. ASSUME NEW q \in Req
      PROVE  /\ req'[q] \in Request
             /\ req'[q].pc = req[q].pc /\ req'[q].acct = req[q].acct /\ req'[q].who = req[q].who
             /\ req'[q].inserts = req[q].inserts /\ req'[q].links = req[q].links
             /\ (req'[q].cut <=> req[q].cut \/ (req[q].acct \in A /\ req[q].who # None))
  <2> DEFINE P == req[q].cut \/ (req[q].acct \in A /\ req[q].who # None)
  <2>1. PICK b \in BOOLEAN : b <=> P
    <3>1. CASE P
      BY <3>1
    <3>2. CASE ~P
      BY <3>2
    <3> QED
      BY <3>1, <3>2
  <2>2. req'[q] = [req[q] EXCEPT !.cut = b]
    BY <1>1, <2>1
  <2> QED
    BY <2>1, <2>2 DEF IndInv, TypeOK, Request
<1>4. req' \in [Req -> Request]
  BY <1>1, <1>3
<1> QED
  BY <1>1, <1>2, <1>3, <1>4

\* Unlinking one account, or deleting a profile with all of its accounts.
LEMMA DeleteStep ==
  ASSUME IndInv, NEW A \in SUBSET Account, DeleteLinks(A), NEW i \in Identity, NEW w \in Row,
         identity[i].made, identity' = [identity EXCEPT ![i] = w],
         UNCHANGED <<configured, conn, cookie>>, \A a \in A : link[a] = i,
         \/ w.made /\ w.verified = identity[i].verified /\ w.jit = identity[i].jit
            /\ (w.jit => w.unlinked)
         \/ w = NoRow /\ A = {a \in Account : link[a] = i}
  PROVE  IndInv'
<1>1. \A j \in Identity : identity'[j] = IF j = i THEN w ELSE identity[j]
  BY DEF IndInv, TypeOK
<1>2. ~NoRow.made /\ ~NoRow.verified /\ ~NoRow.jit
  BY DEF NoRow
<1>3. TypeOK'
  BY <1>1, DeleteLinksFacts DEF IndInv, TypeOK
<1>4. Requests'
  <2>1. ASSUME NEW q \in Req PROVE Fits(req[q])'
    <3>1. Fits(req[q])
      BY Read
    <3>2. Phase(req[q])'
      BY <3>1, DeleteLinksFacts DEF Fits, Phase
    <3>3. OnLink(req[q])'
      <4>1. req[q].links \/ req[q].pc \in {"commit", "issue"} =>
              req[q].acct \in Account /\ req[q].who # None
        BY <3>1, FederationAssumption DEF Fits, Phase
      <4> QED
        BY <3>1, <4>1, DeleteLinksFacts DEF Fits, OnLink
    <3>4. OnIdentity(req[q])'
      <4>1. req[q].inserts \/ req[q].pc = "link" \/ req[q].links => req[q].who \in Identity
        BY <3>1 DEF Fits, Phase
      <4> QED
        BY <1>1, <1>2, <3>1, <4>1, DeleteLinksFacts DEF Fits, OnIdentity
    <3> QED
      BY <3>2, <3>3, <3>4 DEF Fits
  <2>2. ASSUME NEW p \in Req, NEW q \in Req, p # q PROVE Apart(req[p], req[q])'
    BY <2>2, DeleteLinksFacts DEF IndInv, Requests, Apart
  <2> QED
    BY <2>1, <2>2 DEF Requests
<1>5. Links'
  <2>1. \A a \in Account : link'[a] # None => identity'[link'[a]].made
    BY <1>1, DeleteLinksFacts DEF IndInv, Links, TypeOK
  <2>2. ASSUME NEW j \in Identity
        PROVE  /\ IsFiniteSet(LinksOf(j)')
               /\ ~identity'[j].verified =>
                    Cardinality(LinksOf(j)') <= (IF identity'[j].jit THEN 1 ELSE 0)
    <3>1. LinksOf(j)' \subseteq LinksOf(j)
      BY DeleteLinksFacts, FederationAssumption DEF LinksOf
    <3>2. /\ IsFiniteSet(LinksOf(j))
          /\ ~identity[j].verified =>
               Cardinality(LinksOf(j)) <= (IF identity[j].jit THEN 1 ELSE 0)
      BY DEF IndInv, Links
    <3>3. /\ IsFiniteSet(LinksOf(j)') /\ Cardinality(LinksOf(j)') <= Cardinality(LinksOf(j))
          /\ Cardinality(LinksOf(j)') \in Nat /\ Cardinality(LinksOf(j)) \in Nat
      BY <3>1, <3>2, FS_Subset, FS_CardinalityType
    <3>4. CASE j = i /\ w = NoRow /\ A = {a \in Account : link[a] = i}
      <4>1. LinksOf(j)' = {}
        BY <3>4, DeleteLinksFacts, FederationAssumption DEF LinksOf
      <4>2. Cardinality(LinksOf(j)') = 0
        BY <4>1, FS_EmptySet
      <4> QED
        BY <3>3, <4>2
    <3>5. CASE identity'[j].verified = identity[j].verified /\ identity'[j].jit = identity[j].jit
      BY <3>2, <3>3, <3>5
    <3> QED
      BY <1>1, <3>4, <3>5
  <2> QED
    BY <2>1, <2>2 DEF Links
<1>6. ProvisionedLinked'
  <2> SUFFICES ASSUME NEW j \in Identity, identity'[j].jit, ~identity'[j].unlinked
               PROVE  \E a \in Account : link'[a] = j
    BY DEF ProvisionedLinked
  <2>1. j # i
    BY <1>1, <1>2
  <2>2. PICK a \in Account : link[a] = j
    BY <1>1, <2>1 DEF IndInv, ProvisionedLinked
  <2> QED
    BY <2>1, <2>2, DeleteLinksFacts
<1> QED
  BY <1>3, <1>4, <1>5, <1>6 DEF IndInv

\* Unlink and DeleteProfile.
LEMMA UnlinkSteps ==
  ASSUME IndInv, \/ \E a \in Account : Unlink(a)
                 \/ \E i \in Identity : DeleteProfile(i)
  PROVE  IndInv'
<1>1. ASSUME NEW a \in Account, Unlink(a) PROVE IndInv'
  <2> DEFINE i == link[a]
             w == [identity[i] EXCEPT !.unlinked = identity[i].jit]
  <2>1. i \in Identity /\ identity[i] \in Row /\ identity[i].made
    BY <1>1 DEF Unlink, IndInv, TypeOK, Links
  <2>2. /\ w \in Row /\ w.made /\ w.verified = identity[i].verified /\ w.jit = identity[i].jit
        /\ (w.jit => w.unlinked)
    BY <2>1 DEF Row
  <2>3. /\ DeleteLinks({a}) /\ identity' = [identity EXCEPT ![i] = w]
        /\ UNCHANGED <<configured, conn, cookie>>
    BY <1>1 DEF Unlink
  <2>4. {a} \in SUBSET Account /\ \A b \in {a} : link[b] = i
    OBVIOUS
  <2> HIDE DEF w, i
  <2> QED
    BY <2>1, <2>2, <2>3, <2>4, DeleteStep
<1>2. ASSUME NEW i \in Identity, DeleteProfile(i) PROVE IndInv'
  <2> DEFINE A == {a \in Account : link[a] = i}
  <2>1. NoRow \in Row
    BY DEF NoRow, Row
  <2>2. A \in SUBSET Account /\ \A a \in A : link[a] = i
    OBVIOUS
  <2>3. /\ DeleteLinks(A) /\ identity[i].made /\ identity' = [identity EXCEPT ![i] = NoRow]
        /\ UNCHANGED <<configured, conn, cookie>>
    BY <1>2 DEF DeleteProfile
  <2>4. A = {a \in Account : link[a] = i}
    OBVIOUS
  <2> HIDE DEF A
  <2> QED
    BY <2>1, <2>2, <2>3, <2>4, DeleteStep
<1> QED
  BY <1>1, <1>2

\* Redirects and the tenant's connections touch neither requests nor links.
LEMMA OtherStep ==
  ASSUME IndInv, TypeOK', UNCHANGED <<identity, link, req>>
  PROVE  IndInv'
<1>1. Requests'
  <2>1. ASSUME NEW q \in Req PROVE Fits(req[q])'
    BY DEF IndInv, Requests, Fits, Phase, OnLink, OnIdentity
  <2>2. ASSUME NEW p \in Req, NEW q \in Req, p # q PROVE Apart(req[p], req[q])'
    BY <2>2 DEF IndInv, Requests, Apart
  <2> QED
    BY <2>1, <2>2 DEF Requests
<1>2. Links' /\ ProvisionedLinked'
  BY SameLinks DEF IndInv, Links, ProvisionedLinked
<1> QED
  BY <1>1, <1>2 DEF IndInv

-----------------------------------------------------------------------------
\* Every action keeps the invariant.
LEMMA NextInv == IndInv /\ [Next]_vars => IndInv'
<1> SUFFICES ASSUME IndInv, [Next]_vars PROVE IndInv'
  OBVIOUS
<1>1. ASSUME NEW x \in State, PlainRedirect(x) \/ PkceRedirect(x) PROVE IndInv'
  <2>1. UNCHANGED <<configured, identity, link, conn, req>>
    BY <1>1 DEF PlainRedirect, PkceRedirect
  <2>2. cookie' \in [state: State \cup {None}, verifier: BOOLEAN]
    <3>1. cookie \in [state: State \cup {None}, verifier: BOOLEAN]
      BY DEF IndInv, TypeOK
    <3>2. CASE PlainRedirect(x)
      BY <3>1, <3>2, CookieType DEF PlainRedirect
    <3>3. CASE PkceRedirect(x)
      BY <3>3 DEF PkceRedirect
    <3> QED
      BY <1>1, <3>2, <3>3
  <2>3. TypeOK'
    BY <2>1, <2>2 DEF IndInv, TypeOK
  <2> QED
    BY <2>1, <2>3, OtherStep
<1>2. ASSUME NEW r \in Req, NEW u \in Sub, NEW e \in Email \cup {None},
             \/ \E x \in State : \/ \E p \in Pkce : PkceCallback(r, p, u, e, x)
                                 \/ \E p \in Social \ Pkce : PlainCallback(r, p, u, e, x)
             \/ \E c \in Connection : \/ SamlCallback(r, c, u, e)
                                      \/ \E ver \in BOOLEAN : OidcCallback(r, c, u, e, ver)
      PROVE  IndInv'
  BY <1>2, CallbackStep
<1>3. ASSUME NEW c \in Connection, DeleteConnection(c) \/ \E p \in Protocol : CreateConnection(c, p)
      PROVE  IndInv'
  <2>1. TypeOK' /\ UNCHANGED <<identity, link, req>>
    BY <1>3 DEF DeleteConnection, CreateConnection, IndInv, TypeOK
  <2> QED
    BY <2>1, OtherStep
<1>4. ASSUME NEW r \in Req, FederatedLogin(r) \/ Abort(r) PROVE IndInv'
  BY <1>4, FindStep, LinkAccountStep, CommitStep, CreateIdentityStep, FinishStep
     DEF FederatedLogin, HandleCallback, Issue, Abort
<1>5. ASSUME NEW i \in Identity,
             (\E e \in Email : Register(i, e)) \/ VerifyEmail(i) \/ Suspend(i)
      PROVE  IndInv'
  BY <1>5, AccountSteps
<1>6. CASE (\E a \in Account : Unlink(a)) \/ \E i \in Identity : DeleteProfile(i)
  BY <1>6, UnlinkSteps
<1>7. CASE UNCHANGED vars
  BY <1>7, OtherStep DEF vars, IndInv, TypeOK
<1> QED
  BY <1>1, <1>2, <1>3, <1>4, <1>5, <1>6, <1>7 DEF Next

\* The invariant holds in every reachable state.
LEMMA Invariance == Spec => []IndInv
<1> QED
  BY InitInv, NextInv, PTL DEF Spec

\* The rows and requests keep their types, and a row that is not there is empty.
THEOREM TypeCorrect == Spec => []TypeOK
<1>1. IndInv => TypeOK
  BY DEF IndInv
<1> QED
  BY Invariance, <1>1, PTL

\* Every sign-in enters the identity its account is linked to when it ends,
\* unless that link was deleted after it was found.
THEOREM SignInEntersOwner == Spec => []EntersOwner
<1>1. IndInv => EntersOwner
  BY DEF IndInv, Requests, Fits, Phase, OnLink, EntersOwner
<1> QED
  BY Invariance, <1>1, PTL

\* An identity that a connection created keeps an account that leads to it until
\* its owner unlinks one.
THEOREM ProvisioningIsLinked == Spec => []ProvisionedLinked
<1>1. IndInv => ProvisionedLinked
  BY DEF IndInv
<1> QED
  BY Invariance, <1>1, PTL

\* An identity whose address nobody has verified has no link but the one it was
\* provisioned with.
THEOREM LinksAreVerified == Spec => []LinksNeedVerified
<1>1. ASSUME IndInv, NEW i \in Identity, ~identity[i].verified
      PROVE  ~(Cardinality({a \in Account : link[a] = i}) > (IF identity[i].jit THEN 1 ELSE 0))
  <2>1. /\ IsFiniteSet(LinksOf(i))
        /\ Cardinality(LinksOf(i)) <= (IF identity[i].jit THEN 1 ELSE 0)
    BY <1>1 DEF IndInv, Links
  <2>2. Cardinality(LinksOf(i)) \in Nat
    BY <2>1, FS_CardinalityType
  <2> QED
    BY <2>1, <2>2 DEF LinksOf
<1>2. IndInv => LinksNeedVerified
  BY <1>1 DEF LinksNeedVerified
<1> QED
  BY Invariance, <1>2, PTL

\* No step moves an account from one identity to another: only Commit writes
\* links, and the account it links has none when it commits.
THEOREM LinksAreStable == Spec => LinkStable
<1>1. IndInv /\ [Next]_vars => [\A a \in Account : link[a] # None => link'[a] \in {link[a], None}]_vars
  <2> SUFFICES ASSUME IndInv, Next, NEW a \in Account, link[a] # None
               PROVE  link'[a] \in {link[a], None}
    BY DEF vars
  <2>1. ASSUME NEW r \in Req, Commit(r) PROVE link'[a] \in {link[a], None}
    <3>1. req[r].acct \in Account /\ (req[r].links => link[req[r].acct] = None)
      BY <2>1, Read DEF Commit, Fits, Phase, OnLink
    <3> QED
      BY <2>1, <3>1 DEF Commit, IndInv, TypeOK
  <2>2. ASSUME NEW b \in Account, Unlink(b) PROVE link'[a] \in {link[a], None}
    BY <2>2 DEF Unlink, DeleteLinks
  <2>3. ASSUME NEW i \in Identity, DeleteProfile(i) PROVE link'[a] \in {link[a], None}
    BY <2>3 DEF DeleteProfile, DeleteLinks
  <2>4. CASE UNCHANGED link
    BY <2>4
  <2>5. ASSUME NEW r \in Req, NEW u \in Sub, NEW e \in Email \cup {None},
               \/ \E x \in State : \/ \E p \in Pkce : PkceCallback(r, p, u, e, x)
                                   \/ \E p \in Social \ Pkce : PlainCallback(r, p, u, e, x)
               \/ \E c \in Connection : \/ SamlCallback(r, c, u, e)
                                        \/ \E ver \in BOOLEAN : OidcCallback(r, c, u, e, ver)
        PROVE  UNCHANGED link
    BY <2>5 DEF PkceCallback, PlainCallback, SamlCallback, OidcCallback, Rows
  <2>6. ASSUME NEW r \in Req, \/ FindAccount(r) \/ FindEmail(r) \/ LinkAccount(r) \/ Issue(r)
                              \/ CreateIdentity(r) \/ Abort(r)
        PROVE  UNCHANGED link
    BY <2>6 DEF FindAccount, FindEmail, LinkAccount, Issue, CreateIdentity, Abort, Rows
  <2>7. ASSUME NEW i \in Identity,
               (\E e \in Email : Register(i, e)) \/ VerifyEmail(i) \/ Suspend(i)
        PROVE  UNCHANGED link
    BY <2>7 DEF Register, VerifyEmail, Suspend
  <2>8. ASSUME \/ \E x \in State : PlainRedirect(x) \/ PkceRedirect(x)
               \/ \E c \in Connection :
                    DeleteConnection(c) \/ \E p \in Protocol : CreateConnection(c, p)
        PROVE  UNCHANGED link
    BY <2>8 DEF PlainRedirect, PkceRedirect, DeleteConnection, CreateConnection
  <2> QED
    BY <2>1, <2>2, <2>3, <2>4, <2>5, <2>6, <2>7, <2>8 DEF Next, FederatedLogin, HandleCallback
<1> QED
  BY <1>1, Invariance, PTL DEF Spec, LinkStable
=============================================================================
