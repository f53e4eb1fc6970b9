--------------------------- MODULE OAuthGrantProofs ---------------------------
(***************************************************************************)
(* Machine-checked proofs about OAuthGrant, for any number of scopes,      *)
(* authorization codes and concurrent requests, and any inputs.            *)
(***************************************************************************)
EXTENDS OAuthGrant, TLAPS

-----------------------------------------------------------------------------
\* The inductive invariant.

\* Codes and requests come after the client, and codes go with it.
AfterClient ==
  /\ \A k \in Code : code[k].made => Made
  /\ client.state = "none" => \A r \in Req : req[r].pc = "idle"

\* A request that is about to insert a code has found consent for its scopes,
\* and is marked as late as soon as that is no longer so.
Consented(x) ==
  x.pc = "code" /\ ~x.late /\ Made => \A scope \in x.scopes : consent # None /\ scope \in consent

\* A request that has passed the gate of a client without PKCE is marked when
\* the client begins to require it.
Tightened(x) ==
  x.pc \in {"fresh", "consent", "code"} /\ client.requirePkce /\ ~x.challenge => x.tightened

IndInv ==
  /\ TypeOK /\ AfterClient /\ (\A r \in Req : Consented(req[r]) /\ Tightened(req[r]))
  /\ CodesConsented /\ PkceUnlessTightened

-----------------------------------------------------------------------------
\* Lemmas about what marks codes and requests as late.

\* LateCodes marks the codes with a scope that is not left, and nothing else.
LEMMA LateCodesFacts ==
  ASSUME TypeOK, NEW left
  PROVE  /\ LateCodes(left) \in [Code -> CodeRow]
         /\ \A k \in Code :
              LET c == LateCodes(left)[k]
              IN /\ c.made = code[k].made /\ c.scopes = code[k].scopes
                 /\ c.challenge = code[k].challenge /\ c.consumed = code[k].consumed
                 /\ c.tightened = code[k].tightened
                 /\ c.late <=> code[k].late \/ ~(code[k].scopes \subseteq left)
<1> SUFFICES ASSUME NEW k \in Code
             PROVE  LET c == LateCodes(left)[k]
                    IN /\ c \in CodeRow /\ c.made = code[k].made /\ c.scopes = code[k].scopes
                       /\ c.challenge = code[k].challenge /\ c.consumed = code[k].consumed
                       /\ c.tightened = code[k].tightened
                       /\ c.late <=> code[k].late \/ ~(code[k].scopes \subseteq left)
  BY DEF LateCodes
<1>1. PICK b \in BOOLEAN : b <=> code[k].late \/ ~(code[k].scopes \subseteq left)
  <2>1. CASE code[k].late \/ ~(code[k].scopes \subseteq left)
    BY <2>1
  <2>2. CASE ~(code[k].late \/ ~(code[k].scopes \subseteq left))
    BY <2>2
  <2> QED
    BY <2>1, <2>2
<1>2. LateCodes(left)[k] = [code[k] EXCEPT !.late = b]
  BY <1>1 DEF LateCodes
<1> QED
  BY <1>1, <1>2 DEF TypeOK, CodeRow

\* LateReq marks the requests that hold such scopes and are past the check.
LEMMA LateReqFacts ==
  ASSUME TypeOK, NEW left
  PROVE  /\ LateReq(left) \in [Req -> Request]
         /\ \A r \in Req :
              LET x == LateReq(left)[r]
              IN /\ x.pc = req[r].pc /\ x.scopes = req[r].scopes
                 /\ x.challenge = req[r].challenge /\ x.tightened = req[r].tightened
                 /\ x.late <=> \/ req[r].late
                               \/ req[r].pc = "code" /\ ~(req[r].scopes \subseteq left)
<1> SUFFICES ASSUME NEW r \in Req
             PROVE  LET x == LateReq(left)[r]
                    IN /\ x \in Request /\ x.pc = req[r].pc /\ x.scopes = req[r].scopes
                       /\ x.challenge = req[r].challenge /\ x.tightened = req[r].tightened
                       /\ x.late <=> \/ req[r].late
                                     \/ req[r].pc = "code" /\ ~(req[r].scopes \subseteq left)
  BY DEF LateReq
<1> DEFINE P == req[r].late \/ (req[r].pc = "code" /\ ~(req[r].scopes \subseteq left))
<1>1. PICK b \in BOOLEAN : b <=> P
  <2>1. CASE P
    BY <2>1
  <2>2. CASE ~P
    BY <2>2
  <2> QED
    BY <2>1, <2>2
<1>2. LateReq(left)[r] = [req[r] EXCEPT !.late = b]
  BY <1>1 DEF LateReq
<1> QED
  BY <1>1, <1>2 DEF TypeOK, Request

\* A step of one request that leaves client, consent and codes alone.
LEMMA PutStep ==
  ASSUME IndInv, NEW r \in Req, NEW x \in Request, Put(r, x),
         UNCHANGED <<varies, client, consent, code, session>>,
         client.state = "none" => x.pc = "idle", Consented(x), Tightened(x)
  PROVE  IndInv'
<1>1. /\ req'[r] = x /\ \A q \in Req : q # r => req'[q] = req[q]
      /\ req' \in [Req -> Request]
  BY DEF Put, IndInv, TypeOK
<1>2. TypeOK' /\ AfterClient'
  BY <1>1 DEF IndInv, TypeOK, AfterClient, Made
<1>3. ASSUME NEW q \in Req PROVE (Consented(req[q]) /\ Tightened(req[q]))'
  BY <1>1 DEF IndInv, Consented, Tightened, Made
<1>4. CodesConsented' /\ PkceUnlessTightened'
  BY DEF IndInv, CodesConsented, PkceUnlessTightened
<1> QED
  BY <1>2, <1>3, <1>4 DEF IndInv

\* A request that has ended.
LEMMA IdleFits == Idle \in Request /\ Consented(Idle) /\ Tightened(Idle) /\ Idle.pc = "idle"
BY DEF Idle, Request, Pc, Ask, Consented, Tightened

\* Nothing holds of codes before the client is registered.
LEMMA InitInv == Init => IndInv
<1> SUFFICES ASSUME Init PROVE IndInv
  OBVIOUS
<1>1. TypeOK
  BY IdleFits DEF Init, TypeOK, ClientRow, CodeRow, NoCode
<1>2. AfterClient /\ \A r \in Req : Consented(req[r]) /\ Tightened(req[r])
  BY DEF Init, AfterClient, Consented, Tightened, NoCode, Idle
<1>3. CodesConsented /\ PkceUnlessTightened
  BY DEF Init, CodesConsented, PkceUnlessTightened, NoCode
<1> QED
  BY <1>1, <1>2, <1>3 DEF IndInv

-----------------------------------------------------------------------------
\* The owner's steps.

\* The client is registered before there are codes or requests.
LEMMA ClientPostStep ==
  ASSUME IndInv, NEW scopes \in SUBSET Scope, NEW uri \in BOOLEAN, NEW requirePkce \in BOOLEAN,
         NEW public \in BOOLEAN, ClientPost(scopes, uri, requirePkce, public)
  PROVE  IndInv'
<1>1. \A k \in Code : ~code[k].made
  BY DEF ClientPost, IndInv, AfterClient, Made
<1>2. \A r \in Req : req[r].pc = "idle"
  BY DEF ClientPost, IndInv, AfterClient
<1>3. TypeOK' /\ client'.state = "made"
  BY DEF ClientPost, IndInv, TypeOK, ClientRow
<1>4. AfterClient' /\ \A r \in Req : (Consented(req[r]) /\ Tightened(req[r]))'
  BY <1>1, <1>2, <1>3 DEF ClientPost, AfterClient, Consented, Tightened
<1>5. CodesConsented' /\ PkceUnlessTightened'
  BY <1>1 DEF ClientPost, IndInv, CodesConsented, PkceUnlessTightened
<1> QED
  BY <1>3, <1>4, <1>5 DEF IndInv

\* A PATCH marks every code and every request past the gate when it is the one
\* that begins to require PKCE.
LEMMA ClientPatchStep ==
  ASSUME IndInv, NEW scopes \in SUBSET Scope, NEW uri \in BOOLEAN, NEW requirePkce \in BOOLEAN,
         NEW public \in BOOLEAN, ClientPatch(scopes, uri, requirePkce, public)
  PROVE  IndInv'
<1> DEFINE tightens == requirePkce /\ ~client.requirePkce
<1>1. /\ client' \in ClientRow /\ client'.state = "made" /\ client'.requirePkce = requirePkce
      /\ client.state = "made"
  BY DEF ClientPatch, Made, IndInv, TypeOK, ClientRow
<1>2. /\ UNCHANGED <<varies, consent, session>>
      /\ code' = [k \in Code |-> [code[k] EXCEPT !.tightened = @ \/ (code[k].made /\ tightens)]]
      /\ req' = [r \in Req |-> [req[r] EXCEPT !.tightened =
                   @ \/ (req[r].pc \in {"fresh", "consent", "code"} /\ tightens)]]
  BY DEF ClientPatch
<1>3. ASSUME NEW k \in Code
      PROVE  /\ code'[k] \in CodeRow /\ code'[k].made = code[k].made
             /\ code'[k].scopes = code[k].scopes /\ code'[k].challenge = code[k].challenge
             /\ code'[k].late = code[k].late /\ code'[k].consumed = code[k].consumed
             /\ code'[k].tightened <=> code[k].tightened \/ (code[k].made /\ tightens)
  <2>1. PICK b \in BOOLEAN : b <=> code[k].tightened \/ (code[k].made /\ tightens)
    <3>1. CASE code[k].tightened \/ (code[k].made /\ tightens)
      BY <3>1
    <3>2. CASE ~(code[k].tightened \/ (code[k].made /\ tightens))
      BY <3>2
    <3> QED
      BY <3>1, <3>2
  <2>2. code'[k] = [code[k] EXCEPT !.tightened = b]
    BY <1>2, <2>1
  <2> QED
    BY <2>1, <2>2 DEF IndInv, TypeOK, CodeRow
<1>4. ASSUME NEW r \in Req
      PROVE  /\ req'[r] \in Request /\ req'[r].pc = req[r].pc
             /\ req'[r].scopes = req[r].scopes /\ req'[r].challenge = req[r].challenge
             /\ req'[r].late = req[r].late
             /\ req'[r].tightened <=>
                  req[r].tightened \/ (req[r].pc \in {"fresh", "consent", "code"} /\ tightens)
  <2> DEFINE P == req[r].tightened \/ (req[r].pc \in {"fresh", "consent", "code"} /\ tightens)
  <2>1. PICK b \in BOOLEAN : b <=> P
    <3>1. CASE P
      BY <3>1
    <3>2. CASE ~P
      BY <3>2
    <3> QED
      BY <3>1, <3>2
  <2>2. req'[r] = [req[r] EXCEPT !.tightened = b]
    BY <1>2, <2>1
  <2> QED
    BY <2>1, <2>2 DEF IndInv, TypeOK, Request
<1>5. TypeOK'
  <2>1. code' \in [Code -> CodeRow]
    BY <1>2, <1>3
  <2>2. req' \in [Req -> Request]
    BY <1>2, <1>4
  <2> QED
    BY <1>1, <1>2, <2>1, <2>2 DEF IndInv, TypeOK
<1>6. AfterClient'
  BY <1>1 DEF AfterClient, Made
<1>7. ASSUME NEW r \in Req PROVE (Consented(req[r]) /\ Tightened(req[r]))'
  <2>1. Consented(req[r])'
    BY <1>1, <1>2, <1>4 DEF IndInv, Consented, Made
  <2>2. Tightened(req[r])'
    BY <1>1, <1>4 DEF IndInv, Tightened
  <2> QED
    BY <2>1, <2>2
<1>8. CodesConsented'
  BY <1>2, <1>3 DEF IndInv, CodesConsented
<1>9. PkceUnlessTightened'
  BY <1>1, <1>3 DEF IndInv, PkceUnlessTightened
<1> QED
  BY <1>5, <1>6, <1>7, <1>8, <1>9 DEF IndInv

\* Deleting the client takes its codes; the requests that outlive it insert none.
LEMMA ClientDeleteStep ==
  ASSUME IndInv, ClientDelete
  PROVE  IndInv'
<1>1. client' \in ClientRow /\ client'.state = "deleted" /\ client'.requirePkce = client.requirePkce
  BY DEF ClientDelete, IndInv, TypeOK, ClientRow
<1>2. \A k \in Code : code'[k] = NoCode
  BY DEF ClientDelete
<1>3. TypeOK'
  BY <1>1 DEF ClientDelete, IndInv, TypeOK, CodeRow, NoCode
<1>4. AfterClient' /\ \A r \in Req : (Consented(req[r]) /\ Tightened(req[r]))'
  BY <1>1, <1>2 DEF ClientDelete, IndInv, AfterClient, Consented, Tightened, Made, NoCode
<1>5. CodesConsented' /\ PkceUnlessTightened'
  BY <1>2 DEF CodesConsented, PkceUnlessTightened, NoCode
<1> QED
  BY <1>3, <1>4, <1>5 DEF IndInv

-----------------------------------------------------------------------------
\* The user's steps.

\* A consent that is replaced or withdrawn marks as late whoever holds more.
LEMMA ConsentStep ==
  ASSUME IndInv, Made, NEW left \in SUBSET Scope,
         consent' = left \/ (left = {} /\ consent' = None), code' = LateCodes(left),
         req' = LateReq(left) \/ \E r \in Req : req' = [LateReq(left) EXCEPT ![r] = Idle],
         UNCHANGED <<varies, client, session>>
  PROVE  IndInv'
<1>1. TypeOK
  BY DEF IndInv
<1>2. ASSUME NEW q \in Req
      PROVE  req'[q] \in Request /\ (req'[q] = LateReq(left)[q] \/ req'[q] = Idle)
  BY <1>1, LateReqFacts, IdleFits
<1>3. TypeOK'
  <2>1. req' \in [Req -> Request]
    BY <1>1, LateReqFacts, IdleFits
  <2> QED
    BY <1>1, <2>1, LateCodesFacts DEF TypeOK
<1>4. AfterClient'
  BY DEF AfterClient, Made
<1>5. \A S \in SUBSET Scope : S # None
  BY OAuthAssumption
<1>6. ASSUME NEW q \in Req PROVE (Consented(req[q]) /\ Tightened(req[q]))'
  <2>1. CASE req'[q] = Idle
    BY <2>1, IdleFits DEF Consented, Tightened
  <2>2. CASE req'[q] = LateReq(left)[q]
    <3>1. Consented(req[q])'
      BY <1>1, <1>5, <2>2, LateReqFacts DEF Consented
    <3>2. Tightened(req[q])'
      BY <1>1, <2>2, LateReqFacts DEF IndInv, Tightened
    <3> QED
      BY <3>1, <3>2
  <2> QED
    BY <1>2, <2>1, <2>2
<1>7. CodesConsented'
  BY <1>1, <1>5, LateCodesFacts DEF CodesConsented
<1>8. PkceUnlessTightened'
  BY <1>1, LateCodesFacts DEF IndInv, PkceUnlessTightened
<1> QED
  BY <1>3, <1>4, <1>6, <1>7, <1>8 DEF IndInv

\* The consent page: a post of some scopes, the upsert, and the withdrawal.
LEMMA ConsentSteps ==
  ASSUME IndInv, NEW r \in Req,
         \/ \E scopes \in SUBSET Scope : ConsentPost(r, scopes)
         \/ ConsentUpsert(r) \/ ConsentDelete
  PROVE  IndInv'
<1>1. ASSUME NEW scopes \in SUBSET Scope, ConsentPost(r, scopes) PROVE IndInv'
  <2> DEFINE x == [Idle EXCEPT !.pc = "grant", !.scopes = scopes \cap client.scopes]
  <2>1. x \in Request /\ x.pc = "grant" /\ Put(r, x) /\ client.state # "none"
    BY <1>1, IdleFits DEF ConsentPost, Idle, Request, Pc, Made
  <2> HIDE DEF x
  <2>2. UNCHANGED <<varies, client, consent, code, session>>
    BY <1>1 DEF ConsentPost
  <2> QED
    BY <2>1, <2>2, PutStep DEF Consented, Tightened
<1>2. CASE ConsentUpsert(r) /\ Made
  <2>1. req[r].scopes \in SUBSET Scope
    BY DEF IndInv, TypeOK, Request
  <2>2. /\ consent' = req[r].scopes /\ code' = LateCodes(req[r].scopes)
        /\ req' = [LateReq(req[r].scopes) EXCEPT ![r] = Idle]
        /\ UNCHANGED <<varies, client, session>>
    BY <1>2 DEF ConsentUpsert
  <2> QED
    BY <1>2, <2>1, <2>2, ConsentStep
<1>3. CASE ConsentUpsert(r) /\ ~Made
  <2>1. Put(r, Idle) /\ UNCHANGED <<varies, client, consent, code, session>>
    BY <1>3 DEF ConsentUpsert, Finish
  <2> QED
    BY <2>1, IdleFits, PutStep
<1>4. CASE ConsentDelete
  <2>1. /\ Made /\ consent' = None /\ code' = LateCodes({}) /\ req' = LateReq({})
        /\ UNCHANGED <<varies, client, session>> /\ {} \in SUBSET Scope
    BY <1>4 DEF ConsentDelete
  <2> QED
    BY <2>1, ConsentStep
<1> QED
  BY <1>1, <1>2, <1>3, <1>4

\* The gate of authorizeFlow, the look at the session and the look at the consent.
LEMMA AuthorizeSteps ==
  ASSUME IndInv, NEW r \in Req,
         \/ \E scopes \in SUBSET Scope, challenge, state \in BOOLEAN, ask \in Ask :
              AuthorizeRead(r, scopes, challenge, state, ask)
         \/ AuthorizeFresh(r) \/ AuthorizeConsent(r)
  PROVE  IndInv'
<1> DEFINE y == req[r]
<1>0. y \in Request /\ Consented(y) /\ Tightened(y)
  BY DEF IndInv, TypeOK
<1>1. ASSUME NEW scopes \in SUBSET Scope, NEW challenge \in BOOLEAN, NEW state \in BOOLEAN,
             NEW ask \in Ask, AuthorizeRead(r, scopes, challenge, state, ask)
      PROVE  IndInv'
  <2> DEFINE x == [Idle EXCEPT !.pc = "fresh", !.ask = ask, !.scopes = scopes,
                               !.challenge = challenge, !.state = state]
  <2>1. /\ x \in Request /\ x.pc = "fresh" /\ x.challenge = challenge /\ Put(r, x)
        /\ client.state # "none"
    BY <1>1, IdleFits DEF AuthorizeRead, Authorize, FindByClientIdOrThrow, Idle, Request, Pc, Made
  <2>2. /\ client.requirePkce => challenge
        /\ UNCHANGED <<varies, client, consent, code, session>>
    BY <1>1 DEF AuthorizeRead, Authorize, PkceGate
  <2> HIDE DEF x
  <2> QED
    BY <2>1, <2>2, PutStep DEF Consented, Tightened
<1>2. CASE AuthorizeFresh(r) \/ AuthorizeConsent(r)
  <2>1. y.pc \in {"fresh", "consent"} /\ client.state # "none"
    BY <1>2 DEF AuthorizeFresh, AuthorizeConsent, IndInv, AfterClient
  <2>2. UNCHANGED <<varies, client, consent, code, session>>
    BY <1>2 DEF AuthorizeFresh, AuthorizeConsent
  <2>3. CASE Put(r, Idle)
    BY <2>2, <2>3, IdleFits, PutStep
  <2>4. CASE Put(r, [y EXCEPT !.pc = "consent"]) /\ y.pc = "fresh"
    <3> DEFINE x == [y EXCEPT !.pc = "consent"]
    <3>1. x \in Request /\ x.pc = "consent" /\ x.challenge = y.challenge /\ x.tightened = y.tightened
      BY <1>0 DEF Request, Pc
    <3>2. Consented(x) /\ Tightened(x)
      BY <1>0, <2>1, <3>1 DEF Consented, Tightened
    <3>3. Put(r, x)
      BY <2>4
    <3> HIDE DEF x
    <3> QED
      BY <2>1, <2>2, <3>1, <3>2, <3>3, PutStep
  <2>5. CASE /\ Put(r, [y EXCEPT !.pc = "code", !.ask = "plain"])
             /\ HasConsent(y.scopes)
    <3> DEFINE x == [y EXCEPT !.pc = "code", !.ask = "plain"]
    <3>1. /\ x \in Request /\ x.pc = "code" /\ x.challenge = y.challenge
          /\ x.tightened = y.tightened /\ x.scopes = y.scopes
      BY <1>0 DEF Request, Pc, Ask
    <3>2. Consented(x) /\ Tightened(x)
      BY <1>0, <2>1, <2>5, <3>1 DEF Consented, Tightened, HasConsent
    <3>3. Put(r, x)
      BY <2>5
    <3> HIDE DEF x
    <3> QED
      BY <2>1, <2>2, <3>1, <3>2, <3>3, PutStep
  <2> QED
    BY <1>2, <2>3, <2>4, <2>5 DEF AuthorizeFresh, AuthorizeConsent, Goto, Finish
<1> QED
  BY <1>1, <1>2

\* The insert of a code carries over what is known of the request.
LEMMA AuthorizeCodeStep ==
  ASSUME IndInv, NEW r \in Req, AuthorizeCode(r)
  PROVE  IndInv'
<1> DEFINE y == req[r]
<1>0. y \in Request /\ Consented(y) /\ Tightened(y) /\ y.pc = "code"
  BY DEF IndInv, TypeOK, AuthorizeCode
<1>1. CASE UNCHANGED code
  BY <1>1, IdleFits, PutStep DEF AuthorizeCode, Finish
<1>2. ASSUME Made, NEW k \in Code, ~code[k].made,
             code' = [code EXCEPT ![k] =
               [made |-> TRUE, scopes |-> y.scopes, challenge |-> y.challenge,
                state |-> y.state, consumed |-> FALSE, late |-> y.late, tightened |-> y.tightened]]
      PROVE  IndInv'
  <2>1. PICK c : c = [made |-> TRUE, scopes |-> y.scopes, challenge |-> y.challenge,
                state |-> y.state, consumed |-> FALSE, late |-> y.late, tightened |-> y.tightened]
    OBVIOUS
  <2>2. /\ c \in CodeRow /\ c.scopes = y.scopes /\ c.challenge = y.challenge
        /\ c.late = y.late /\ c.tightened = y.tightened /\ ~c.consumed
    BY <1>0, <2>1 DEF Request, CodeRow
  <2>3. /\ code' = [code EXCEPT ![k] = c]
        /\ code'[k] = c /\ \A j \in Code : j # k => code'[j] = code[j]
    BY <1>2, <2>1 DEF IndInv, TypeOK
  <2>4. Finish(r) /\ UNCHANGED <<varies, client, consent, session>>
    BY DEF AuthorizeCode
  <2>5. ASSUME NEW q \in Req PROVE req'[q] = req[q] \/ req'[q] = Idle
    BY <2>4 DEF Finish, Put, IndInv, TypeOK
  <2>6. TypeOK'
    <3>1. code' \in [Code -> CodeRow]
      BY <2>2, <2>3 DEF IndInv, TypeOK
    <3>2. req' \in [Req -> Request]
      BY <2>4, IdleFits DEF Finish, Put, IndInv, TypeOK
    <3> QED
      BY <2>4, <3>1, <3>2 DEF IndInv, TypeOK
  <2>7. AfterClient'
    BY <1>2, <2>4 DEF AfterClient, Made
  <2>8. ASSUME NEW q \in Req PROVE (Consented(req[q]) /\ Tightened(req[q]))'
    BY <2>4, <2>5, IdleFits DEF IndInv, Consented, Tightened, Made
  <2> HIDE DEF y
  <2>9. CodesConsented'
    BY <1>0, <1>2, <2>2, <2>3, <2>4 DEF IndInv, CodesConsented, Consented
  <2>10. PkceUnlessTightened'
    BY <1>0, <2>2, <2>3, <2>4 DEF IndInv, PkceUnlessTightened, Tightened
  <2> QED
    BY <2>6, <2>7, <2>8, <2>9, <2>10 DEF IndInv
<1> QED
  BY <1>1, <1>2 DEF AuthorizeCode

\* A code that expires is gone.
LEMMA CodeExpiresStep ==
  ASSUME IndInv, NEW k \in Code, CodeExpires(k)
  PROVE  IndInv'
<1>1. /\ \A j \in Code : (j # k => code'[j] = code[j])
      /\ code'[k] = NoCode
      /\ UNCHANGED <<varies, client, consent, session, req>>
  BY DEF CodeExpires, IndInv, TypeOK
<1>2. TypeOK'
  <2>1. NoCode \in CodeRow
    BY DEF NoCode, CodeRow
  <2> QED
    BY <2>1 DEF CodeExpires, IndInv, TypeOK
<1>3. AfterClient' /\ \A r \in Req : (Consented(req[r]) /\ Tightened(req[r]))'
  BY <1>1 DEF IndInv, AfterClient, Consented, Tightened, Made, NoCode
<1>4. CodesConsented' /\ PkceUnlessTightened'
  BY <1>1 DEF IndInv, CodesConsented, PkceUnlessTightened, NoCode
<1> QED
  BY <1>2, <1>3, <1>4 DEF IndInv

\* The exchange: it takes a code that is there, locks it, and is rolled back.
LEMMA ExchangeSteps ==
  ASSUME IndInv, NEW r \in Req, ExchangeStep(r) \/ Abort(r)
  PROVE  IndInv'
<1> DEFINE y == req[r]
<1>0. y \in Request
  BY DEF IndInv, TypeOK
<1>1. ASSUME NEW k \in Code, NEW secret \in BOOLEAN, NEW verifier \in BOOLEAN,
             Exchange(r, k, secret, verifier)
      PROVE  IndInv'
  <2> DEFINE x == [Idle EXCEPT !.pc = "consume", !.code = k]
  <2>1. x \in Request /\ x.pc = "consume" /\ Put(r, x)
    BY <1>1, IdleFits DEF Exchange, Idle, Request, Pc
  <2>2. /\ client.state # "none"
        /\ UNCHANGED <<varies, client, consent, code, session>>
    BY <1>1 DEF Exchange, IndInv, AfterClient, Made
  <2> HIDE DEF x
  <2> QED
    BY <2>1, <2>2, PutStep DEF Consented, Tightened
<1>2. CASE ExchangeConsume(r)
  <2>1. UNCHANGED <<varies, client, consent, code, session>> /\ client.state # "none"
    BY <1>2 DEF ExchangeConsume, IndInv, AfterClient
  <2>2. CASE Finish(r)
    BY <2>1, <2>2, IdleFits, PutStep DEF Finish
  <2>3. CASE Put(r, [y EXCEPT !.pc = "issue", !.locks = TRUE])
    <3> DEFINE x == [y EXCEPT !.pc = "issue", !.locks = TRUE]
    <3>1. x \in Request /\ x.pc = "issue"
      BY <1>0 DEF Request, Pc
    <3>2. Put(r, x)
      BY <2>3
    <3> HIDE DEF x
    <3> QED
      BY <2>1, <3>1, <3>2, PutStep DEF Consented, Tightened
  <2> QED
    BY <1>2, <2>2, <2>3 DEF ExchangeConsume
<1>3. CASE ExchangeIssue(r)
  <2>1. ~IssueFinds("id")
    BY DEF IssueFinds
  <2> QED
    BY <1>3, <2>1, IdleFits, PutStep DEF ExchangeIssue, Finish
<1>4. CASE Abort(r)
  BY <1>4, IdleFits, PutStep DEF Abort, Finish
<1> QED
  BY <1>1, <1>2, <1>3, <1>4 DEF ExchangeStep

-----------------------------------------------------------------------------
\* Every action keeps the invariant.
LEMMA NextInv == IndInv /\ [Next]_vars => IndInv'
<1> SUFFICES ASSUME IndInv, [Next]_vars PROVE IndInv'
  OBVIOUS
<1>0. /\ \A S \in Scopes : S \in SUBSET Scope
      /\ \A S \in Scopes \cup Choice("scope", {{}}, DefaultScopes) : S \in SUBSET Scope
      /\ \A S \in Scopes \cup {client.scopes} : S \in SUBSET Scope
  BY OAuthAssumption DEF Scopes, Choice, IndInv, TypeOK, ClientRow
<1>1. /\ \A b \in Choice("uri", BOOLEAN, TRUE) \cup Choice("pkce", BOOLEAN, FALSE) : b \in BOOLEAN
      /\ \A b \in Choice("secret", BOOLEAN, TRUE) \cup Choice("pkce", BOOLEAN, TRUE) : b \in BOOLEAN
      /\ \A b \in Choice("state", BOOLEAN, FALSE) : b \in BOOLEAN
      /\ \A a \in Choice("prompt", Ask, "plain") : a \in Ask
      /\ \A s \in Choice("prompt", {"none", "old", "fresh"}, "none") : s \in {"none", "old", "fresh"}
  BY DEF Choice, Ask
<1>2. CASE OwnerStep
  BY <1>0, <1>1, <1>2, ClientPostStep, ClientPatchStep, ClientDeleteStep DEF OwnerStep
<1>3. ASSUME NEW r \in Req, UserStep(r) PROVE IndInv'
  BY <1>0, <1>1, <1>3, ConsentSteps, AuthorizeSteps, AuthorizeCodeStep DEF UserStep
<1>4. ASSUME NEW r \in Req, ExchangeStep(r) \/ Abort(r) PROVE IndInv'
  BY <1>4, ExchangeSteps
<1>5. ASSUME NEW k \in Code, CodeExpires(k) PROVE IndInv'
  BY <1>5, CodeExpiresStep
<1>6. CASE ConsentDelete
  <2>1. /\ Made /\ consent' = None /\ code' = LateCodes({}) /\ req' = LateReq({})
        /\ UNCHANGED <<varies, client, session>> /\ {} \in SUBSET Scope
    BY <1>6 DEF ConsentDelete
  <2> QED
    BY <2>1, ConsentStep
<1>7. CASE /\ session' \in {"none", "old", "fresh"}
           /\ UNCHANGED <<varies, client, consent, code, req>>
  <2>1. TypeOK'
    BY <1>7 DEF IndInv, TypeOK
  <2>2. AfterClient' /\ \A r \in Req : (Consented(req[r]) /\ Tightened(req[r]))'
    BY <1>7 DEF IndInv, AfterClient, Consented, Tightened, Made
  <2>3. CodesConsented' /\ PkceUnlessTightened'
    BY <1>7 DEF IndInv, CodesConsented, PkceUnlessTightened
  <2> QED
    BY <2>1, <2>2, <2>3 DEF IndInv
<1>8. ASSUME NEW s \in {"none", "old", "fresh"}, SessionChange(s) PROVE IndInv'
  BY <1>7, <1>8 DEF SessionChange
<1>9. CASE UNCHANGED vars
  BY <1>7, <1>9 DEF vars, IndInv, TypeOK
<1> QED
  BY <1>1, <1>2, <1>3, <1>4, <1>5, <1>6, <1>8, <1>9 DEF Next

\* The invariant holds in every reachable state.
LEMMA Invariance == Spec => []IndInv
<1> QED
  BY InitInv, NextInv, PTL DEF Spec

\* The rows and requests keep their types.
THEOREM TypeCorrect == Spec => []TypeOK
<1>1. IndInv => TypeOK
  BY DEF IndInv
<1> QED
  BY Invariance, <1>1, PTL

\* No code carries a scope without consent, unless the consent was withdrawn or
\* narrowed between the check of authorizeFlow and now.
THEOREM CodesAreConsented == Spec => []CodesConsented
<1>1. IndInv => CodesConsented
  BY DEF IndInv
<1> QED
  BY Invariance, <1>1, PTL

\* A client that requires PKCE has no code without a challenge, unless a PATCH
\* began to require it after authorizeFlow had read the client.
THEOREM PkceIsEnforced == Spec => []PkceUnlessTightened
<1>1. IndInv => PkceUnlessTightened
  BY DEF IndInv
<1> QED
  BY Invariance, <1>1, PTL
=============================================================================
