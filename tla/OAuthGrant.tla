----------------------------- MODULE OAuthGrant -----------------------------
(***************************************************************************)
(* The authorization-code grant: an OAuth client and the changes its owner *)
(* makes to it, the consent of one user, the authorization codes issued    *)
(* from them and the exchange of a code for tokens.                        *)
(*                                                                         *)
(* GET /authorize and POST /consent run without a transaction, so each of  *)
(* their statements commits by itself; POST /token runs in one, and what   *)
(* it has written is in req[r] until it commits.                           *)
(***************************************************************************)
EXTENDS FiniteSets

CONSTANTS
  Scope,          \* OAuth scopes
  DefaultScopes,  \* "openid profile email"
  Code,           \* authorization codes outstanding at the same time (a bound)
  Req,            \* requests the server handles at the same time
  Together,       \* the sets of inputs that vary in one behaviour (a bound)
  None            \* SQL NULL

Input == {"scope", "uri", "pkce", "secret", "state", "prompt"}

ASSUME OAuthAssumption ==
  /\ DefaultScopes \subseteq Scope /\ Together \subseteq SUBSET Input
  /\ None \notin Code /\ \A scopes \in SUBSET Scope : scopes # None

VARIABLES
  varies,   \* what varies in this behaviour, never changed
  client,   \* the Client row, with its redirect URIs
  consent,  \* scopes of the user's OAuthConsent row, None without one
  code,     \* AuthorizationCode rows
  session,  \* the user's newest valid Session row: none, old or fresh
  req       \* requests in progress

vars == <<varies, client, consent, code, session, req>>

\* What the user's client may ask for besides the code: a plain request (or
\* prompt=none, which differs in the error only), prompt=login (the same as
\* select_account, and as max_age=0, which no session is young enough for),
\* prompt=consent, or another max_age.
Ask == {"plain", "login", "consent", "maxAge"}

\* secret: none (registered as public), kept (has one, now public), required.
ClientRow == [state: {"none", "made", "deleted"}, scopes: SUBSET Scope, uri: BOOLEAN,
              requirePkce: BOOLEAN, secret: {"none", "kept", "required"}]
\* late is history: the consent was withdrawn or narrowed after it was checked.
\* tightened is history: requirePkce was set after the client was read.
CodeRow == [made: BOOLEAN, scopes: SUBSET Scope, challenge: BOOLEAN, state: BOOLEAN,
            consumed: BOOLEAN, late: BOOLEAN, tightened: BOOLEAN]
Pc == {"idle", "fresh", "consent", "code", "grant", "consume", "issue"}
Request == [pc: Pc, ask: Ask, scopes: SUBSET Scope, challenge: BOOLEAN, state: BOOLEAN,
            late: BOOLEAN, tightened: BOOLEAN, code: Code \cup {None}, locks: BOOLEAN]

NoCode == [made |-> FALSE, scopes |-> {}, challenge |-> FALSE, state |-> FALSE,
           consumed |-> FALSE, late |-> FALSE, tightened |-> FALSE]
Idle == [pc |-> "idle", ask |-> "plain", scopes |-> {}, challenge |-> FALSE, state |-> FALSE,
         late |-> FALSE, tightened |-> FALSE, code |-> None, locks |-> FALSE]

TypeOK ==
  /\ varies \in Together
  /\ client \in ClientRow
  /\ consent = None \/ consent \subseteq Scope
  /\ code \in [Code -> CodeRow]
  /\ session \in {"none", "old", "fresh"}
  /\ req \in [Req -> Request]

Init ==
  /\ varies \in Together
  /\ client = [state |-> "none", scopes |-> {}, uri |-> FALSE, requirePkce |-> TRUE, secret |-> "none"]
  /\ consent = None
  /\ code = [k \in Code |-> NoCode]
  /\ session = "fresh"
  /\ req = [r \in Req |-> Idle]

-----------------------------------------------------------------------------
Put(r, x) == req' = [req EXCEPT ![r] = x]
Goto(r, p) == Put(r, [req[r] EXCEPT !.pc = p])
Finish(r) == Put(r, Idle)
Made == client.state = "made"

-----------------------------------------------------------------------------
\* The client, changed by a member with the permission and a paid plan.

ClientPost(scopes, uri, requirePkce, public) ==
  /\ client.state = "none"
  /\ client' = [state |-> "made", scopes |-> scopes, uri |-> uri, requirePkce |-> requirePkce,
                secret |-> IF public THEN "none" ELSE "required"]
  /\ UNCHANGED <<varies, consent, code, session, req>>

\* UpdateClientSchema is CreateClientSchema.partial(), whose fields keep their
\* defaults: a field left out of the body is written as {} redirect URIs, the
\* default scopes, requirePkce and not public.  Every PATCH writes them all.
ClientPatch(scopes, uri, requirePkce, public) ==
  LET tightens == requirePkce /\ ~client.requirePkce IN
  /\ Made
  /\ client' = [client EXCEPT !.scopes = scopes, !.uri = uri, !.requirePkce = requirePkce,
                              !.secret = IF @ = "none" THEN @ ELSE IF public THEN "kept" ELSE "required"]
  /\ code' = [k \in Code |-> [code[k] EXCEPT !.tightened = @ \/ (code[k].made /\ tightens)]]
  /\ req' = [r \in Req |->
       [req[r] EXCEPT !.tightened = @ \/ (req[r].pc \in {"fresh", "consent", "code"} /\ tightens)]]
  /\ UNCHANGED <<varies, consent, session>>

\* A change of the consent leaves these scopes: who has checked more is late.
LateCodes(left) ==
  [k \in Code |-> [code[k] EXCEPT !.late = @ \/ ~(code[k].scopes \subseteq left)]]
LateReq(left) ==
  [r \in Req |->
    [req[r] EXCEPT !.late = @ \/ (req[r].pc = "code" /\ ~(req[r].scopes \subseteq left))]]

\* Takes the codes and the consent with it.
ClientDelete ==
  /\ Made
  /\ client' = [client EXCEPT !.state = "deleted"]
  /\ consent' = None
  /\ code' = [k \in Code |-> NoCode]
  /\ UNCHANGED <<varies, session, req>>

-----------------------------------------------------------------------------
\* The consent.

ConsentPost(r, scopes) ==
  /\ req[r].pc = "idle" /\ Made
  /\ Put(r, [Idle EXCEPT !.pc = "grant", !.scopes = scopes \cap client.scopes])
  /\ UNCHANGED <<varies, client, consent, code, session>>

\* The upsert, an error when the client is gone; it replaces the scopes.
ConsentUpsert(r) ==
  /\ req[r].pc = "grant"
  /\ IF Made
       THEN /\ consent' = req[r].scopes
            /\ code' = LateCodes(req[r].scopes)
            /\ req' = [LateReq(req[r].scopes) EXCEPT ![r] = Idle]
       ELSE Finish(r) /\ UNCHANGED <<consent, code>>
  /\ UNCHANGED <<varies, client, session>>

ConsentDelete ==
  /\ Made /\ consent # None
  /\ consent' = None
  /\ code' = LateCodes({}) /\ req' = LateReq({})
  /\ UNCHANGED <<varies, client, session>>

-----------------------------------------------------------------------------
\* authorizeFlow.

\* The client by its clientId, the redirect URI, and PKCE.  The scopes are the
\* ones asked for, the default, or (scope="") all of the client's.
FindByClientIdOrThrow == Made
ValidateRedirectUri == client.uri

Authorize(r, scopes, challenge, state, ask) ==
  /\ req[r].pc = "idle" /\ FindByClientIdOrThrow /\ ValidateRedirectUri
  /\ Put(r, [Idle EXCEPT !.pc = "fresh", !.ask = ask, !.scopes = scopes,
                         !.challenge = challenge, !.state = state])
  /\ UNCHANGED <<varies, client, consent, code, session>>

\* Mutant: the gate asks for PKCE from public clients only.
PkceGatePublic(challenge) == client.requirePkce /\ client.secret # "required" => challenge

PkceGate(challenge) == client.requirePkce => challenge

AuthorizeRead(r, scopes, challenge, state, ask) ==
  PkceGate(challenge) /\ Authorize(r, scopes, challenge, state, ask)

\* prompt=login asks for a login whatever the session; max_age for one that is
\* young enough, and does not mind that there is none.
NeedsReauth(ask) == ask = "login" \/ (ask = "maxAge" /\ session = "old")

AuthorizeFresh(r) ==
  /\ req[r].pc = "fresh"
  /\ IF NeedsReauth(req[r].ask) THEN Finish(r) ELSE Goto(r, "consent")
  /\ UNCHANGED <<varies, client, consent, code, session>>

\* Mutant: any consent will do.
HasConsentAny(scopes) == consent # None

HasConsent(scopes) == consent # None /\ scopes \subseteq consent

\* prompt=consent answers consentRequired whatever there is.
AuthorizeConsent(r) ==
  /\ req[r].pc = "consent"
  /\ IF req[r].ask # "consent" /\ HasConsent(req[r].scopes)
       THEN Put(r, [req[r] EXCEPT !.pc = "code", !.ask = "plain"])
       ELSE Finish(r)
  /\ UNCHANGED <<varies, client, consent, code, session>>

\* The insert, an error when the client is gone.
AuthorizeCode(r) ==
  /\ req[r].pc = "code"
  /\ \/ ~Made /\ UNCHANGED code
     \/ Made /\ \E k \in Code :
          /\ ~code[k].made
          /\ code' = [code EXCEPT ![k] =
               [made |-> TRUE, scopes |-> req[r].scopes, challenge |-> req[r].challenge,
                state |-> req[r].state, consumed |-> FALSE, late |-> req[r].late,
                tightened |-> req[r].tightened]]
  /\ Finish(r)
  /\ UNCHANGED <<varies, client, consent, session>>

\* Five minutes pass; nothing asks for an expired code again.
CodeExpires(k) ==
  /\ code[k].made /\ \A r \in Req : req[r].code # k
  /\ code' = [code EXCEPT ![k] = NoCode]
  /\ UNCHANGED <<varies, client, consent, session, req>>

-----------------------------------------------------------------------------
\* tokenExchangeFlow, in a transaction.

\* The unconsumed code and its client as it is now.  redirectUri need only be
\* one of the client's; the secret and the verifier are right or the request
\* is refused; the body schema of the route drops state, so a code that has
\* one never matches.
Exchange(r, k, secret, verifier) ==
  /\ req[r].pc = "idle" /\ code[k].made /\ ~code[k].consumed
  /\ client.uri
  /\ client.secret = "required" => secret
  /\ client.requirePkce => code[k].challenge
  /\ code[k].challenge => verifier
  /\ ~code[k].state
  /\ Put(r, [Idle EXCEPT !.pc = "consume", !.code = k])
  /\ UNCHANGED <<varies, client, consent, code, session>>

\* The update by id takes the row's lock, waiting for who has it, and does not
\* ask whether the code is still unconsumed.
ExchangeConsume(r) ==
  /\ req[r].pc = "consume"
  /\ \A q \in Req : ~(req[q].locks /\ req[q].code = req[r].code)
  /\ IF code[req[r].code].made
       THEN Put(r, [req[r] EXCEPT !.pc = "issue", !.locks = TRUE])
       ELSE Finish(r)
  /\ UNCHANGED <<varies, client, consent, code, session>>

\* TokenService.issue finds the client by its public clientId; the exchange
\* (and client_credentials) hand it the id of the row.
IssueFinds(clientId) == Made /\ clientId = "clientId"

\* Without a valid session, or a client, the flow throws and the transaction
\* is rolled back; with both it commits.
ExchangeIssue(r) ==
  LET k == req[r].code IN
  /\ req[r].pc = "issue"
  /\ IF session # "none" /\ IssueFinds("id")
       THEN code' = [code EXCEPT ![k].consumed = TRUE]
       ELSE UNCHANGED code
  /\ Finish(r)
  /\ UNCHANGED <<varies, client, consent, session>>

\* A timeout or a lost connection: what the transaction wrote is gone.
Abort(r) ==
  /\ req[r].pc # "idle"
  /\ Finish(r)
  /\ UNCHANGED <<varies, client, consent, code, session>>

-----------------------------------------------------------------------------
\* The user logs in, out, or lets the session grow old.
SessionChange(s) ==
  /\ session # s /\ s = "old" => session = "fresh"
  /\ session' = s
  /\ UNCHANGED <<varies, client, consent, code, req>>

\* An input that does not vary has its usual value.
Choice(input, choices, usual) == IF input \in varies THEN choices ELSE {usual}
Scopes == Choice("scope", SUBSET Scope \ {{}}, DefaultScopes)

OwnerStep ==
  \/ \E scopes \in Scopes \cup Choice("scope", {{}}, DefaultScopes),
        uri \in Choice("uri", BOOLEAN, TRUE), requirePkce \in Choice("pkce", BOOLEAN, FALSE),
        public \in Choice("secret", BOOLEAN, TRUE) :
       \/ ClientPost(scopes, uri, requirePkce, public)
       \/ ClientPatch(scopes, uri, requirePkce, public)
  \/ ClientDelete

UserStep(r) ==
  \/ \E scopes \in Scopes : ConsentPost(r, scopes)
  \/ \E scopes \in Scopes \cup {client.scopes}, challenge \in Choice("pkce", BOOLEAN, TRUE),
        state \in Choice("state", BOOLEAN, FALSE), ask \in Choice("prompt", Ask, "plain") :
       AuthorizeRead(r, scopes, challenge, state, ask)
  \/ ConsentUpsert(r) \/ AuthorizeFresh(r) \/ AuthorizeConsent(r) \/ AuthorizeCode(r)

ExchangeStep(r) ==
  \/ \E k \in Code, secret, verifier \in BOOLEAN : Exchange(r, k, secret, verifier)
  \/ ExchangeConsume(r) \/ ExchangeIssue(r)

Next ==
  \/ OwnerStep \/ ConsentDelete
  \/ \E r \in Req : UserStep(r) \/ ExchangeStep(r) \/ Abort(r)
  \/ \E k \in Code : CodeExpires(k)
  \/ \E s \in Choice("prompt", {"none", "old", "fresh"}, "none") : SessionChange(s)

Spec == Init /\ [][Next]_vars

-----------------------------------------------------------------------------
\* No code carries a scope that the user has not consented to, unless the
\* consent was withdrawn or narrowed after authorizeFlow had checked it.
CodesConsented ==
  \A k \in Code : code[k].made /\ ~code[k].late =>
    \A scope \in code[k].scopes : consent # None /\ scope \in consent

\* "this should be impossible if /authorize's gate worked correctly": a client
\* that requires PKCE has no code without a challenge, unless a PATCH began to
\* require it after authorizeFlow had read the client.
PkceUnlessTightened ==
  \A k \in Code : code[k].made /\ client.requirePkce /\ ~code[k].challenge => code[k].tightened

\* "exchanges authorization code for token bundle": an exchange that has come as
\* far as TokenService.issue, for a client that is there and a user with a
\* valid session, is granted: the code is consumed and the bundle issued.
ExchangeSucceeds ==
  [][\A r \in Req : ExchangeIssue(r) /\ Made /\ session # "none" =>
       code'[req[r].code].consumed]_vars
=============================================================================
