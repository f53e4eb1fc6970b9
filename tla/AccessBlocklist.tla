--------------------------- MODULE AccessBlocklist ---------------------------
(***************************************************************************)
(* How an access token is taken out of service.  A token is a JWT: what    *)
(* the auth guard consults on every request is the Redis blocklist (or,    *)
(* when Redis does not answer, the map of its own process) and then the    *)
(* RevokedJti table.  It never looks at AccessToken.revoked, so every      *)
(* request that revokes has to write all of them.                          *)
(*                                                                         *)
(* One identity owns every token.  A transaction of several statements is  *)
(* one step here; what the requests read before it, and the calls they     *)
(* start and do not await, are steps of their own.  TokenReq are requests  *)
(* that have read and not yet written; issue and logout are one step each  *)
(* and happen at any time.                                                 *)
(***************************************************************************)
EXTENDS FiniteSets

CONSTANTS
  AccessToken,  \* access tokens that may be issued
  Session,      \* sessions they belong to
  Proc,         \* server processes
  TokenReq,     \* requests handled at the same time
  Ops           \* the operations clients call in this instance

ASSUME SessionAssumption == Session # {} /\ "none" \notin Proc

VARIABLES
  accessToken,  \* committed AccessToken rows
  revokedJti,   \* committed RevokedJti rows
  redis,        \* keys in Redis
  memStore,     \* the in-memory fallback of each process
  blocking,     \* blockJti calls started and not awaited
  expired,      \* tokens past their exp claim
  tokenReq,     \* requests in progress
  acknowledged, \* history: tokens whose revocation was written and then answered
  started       \* history: by process, tokens whose revocation was only started

tokenVars == <<accessToken, revokedJti, redis, memStore, blocking, expired, tokenReq,
               acknowledged, started>>

Free == [state |-> "free", sessionId |-> CHOOSE s \in Session : TRUE]

TokenIdle == [pc |-> "idle", proc |-> "none", scope |-> {}, tokens |-> {}]

TokenTypeOK ==
  /\ accessToken \in [AccessToken -> [state: {"free", "live", "revoked"}, sessionId: Session]]
  /\ revokedJti \subseteq AccessToken
  /\ redis \subseteq AccessToken
  /\ memStore \in [Proc -> SUBSET AccessToken]
  /\ blocking \subseteq Proc \X AccessToken
  /\ expired \subseteq AccessToken
  /\ tokenReq \in [TokenReq -> [pc: {"idle", "revokeMany", "revokeOne"}, proc: Proc \cup {"none"},
                                scope: SUBSET Session, tokens: SUBSET AccessToken]]
  /\ acknowledged \subseteq AccessToken
  /\ started \subseteq Proc \X AccessToken

TokenInit ==
  /\ accessToken = [a \in AccessToken |-> Free]
  /\ revokedJti = {}
  /\ redis = {}
  /\ memStore = [p \in Proc |-> {}]
  /\ blocking = {}
  /\ expired = {}
  /\ tokenReq = [r \in TokenReq |-> TokenIdle]
  /\ acknowledged = {}
  /\ started = {}

-----------------------------------------------------------------------------
Live(a) == accessToken[a].state = "live"

\* isJtiBlocked in process p, when Redis answers and when it does not.
IsJtiBlocked(p, a, redisUp) == IF redisUp THEN a \in redis ELSE a \in memStore[p]

\* requireUser: the JWT is in date, and neither tier of the lookup has its jti.
RequireUser(p, a, redisUp) ==
  /\ accessToken[a].state # "free"
  /\ a \notin expired
  /\ ~IsJtiBlocked(p, a, redisUp)
  /\ a \notin revokedJti

\* Whether Redis answers or not, p refuses a.
Refused(p, a) == \A redisUp \in BOOLEAN : ~RequireUser(p, a, redisUp)

\* TokenService.issue, as its transaction commits.
Issue(a, s) ==
  /\ "issue" \in Ops
  /\ accessToken[a].state = "free"
  /\ accessToken' = [accessToken EXCEPT ![a] = [state |-> "live", sessionId |-> s]]
  /\ UNCHANGED <<revokedJti, redis, memStore, blocking, expired, tokenReq, acknowledged, started>>

-----------------------------------------------------------------------------
\* logoutFlow blocks the token the request was made with: upsert of its row,
\* in one transaction, then blockJti.  The AccessToken row is left alone.
BlockOwn(p, a) ==
  /\ revokedJti' = revokedJti \cup {a}
  /\ blocking' = blocking \cup {<<p, a>>}

Logout(p, a) ==
  /\ "logout" \in Ops
  /\ ~Refused(p, a)
  /\ BlockOwn(p, a)
  /\ acknowledged' = acknowledged \cup {a}
  /\ UNCHANGED <<accessToken, redis, memStore, expired, tokenReq, started>>

\* A session whose row the clean-up has taken is answered as if it had been ended,
\* with nothing written: no revocation comes of that answer.
LogoutNoSession ==
  /\ "logout" \in Ops
  /\ ~\A p \in Proc, a \in AccessToken : Refused(p, a)
  /\ UNCHANGED tokenVars

\* The requests that revoke the tokens of a set of sessions: one session
\* (DELETE /sessions/:id), the other sessions (password change) or all of them
\* (password reset, suspension, account deletion).  They list the live tokens ...
ListLive(r, p, S) ==
  /\ "revokeMany" \in Ops
  /\ tokenReq[r].pc = "idle"
  /\ tokenReq' = [tokenReq EXCEPT ![r] =
               [pc |-> "revokeMany", proc |-> p, scope |-> S,
                tokens |-> {a \in AccessToken : Live(a) /\ accessToken[a].sessionId \in S}]]
  /\ UNCHANGED <<accessToken, revokedJti, redis, memStore, blocking, expired,
                 acknowledged, started>>

\* The rows an updateMany over the sessions of r marks as revoked: the ones that
\* are live when it runs, which may be more than were listed.
MarkRevoked(r) ==
  [a \in AccessToken |->
     IF Live(a) /\ accessToken[a].sessionId \in tokenReq[r].scope
       THEN [accessToken[a] EXCEPT !.state = "revoked"] ELSE accessToken[a]]

\* ... and run one transaction that marks the tokens and creates a RevokedJti
\* row for each listed one.  jti is unique: a row that is already there fails
\* the transaction, and the request with it.
RevokeMany(r) ==
  LET listed == tokenReq[r].tokens
      unique == listed \cap revokedJti = {}
  IN /\ tokenReq[r].pc = "revokeMany"
     /\ IF unique
          THEN /\ accessToken' = MarkRevoked(r)
               /\ revokedJti' = revokedJti \cup listed
               /\ blocking' = blocking \cup ({tokenReq[r].proc} \X listed)
               /\ acknowledged' = acknowledged \cup listed
          ELSE UNCHANGED <<accessToken, revokedJti, blocking, acknowledged>>
     /\ tokenReq' = [tokenReq EXCEPT ![r] = TokenIdle]
     /\ UNCHANGED <<redis, memStore, expired, started>>

\* A flow has read the tokens it will revoke.
ReadToRevoke(r, p, T) ==
  /\ "revokeOne" \in Ops
  /\ tokenReq[r].pc = "idle"
  /\ T # {} /\ \A a \in T : Live(a)
  /\ tokenReq' = [tokenReq EXCEPT ![r] = [pc |-> "revokeOne", proc |-> p, scope |-> {}, tokens |-> T]]
  /\ UNCHANGED <<accessToken, revokedJti, redis, memStore, blocking, expired,
                 acknowledged, started>>

\* tokenRevokeFlow and revokeTokenByIdFlow read one token, switchContextFlow the
\* tokens of the session it leaves.
RevokeToken(r, p, a) == ReadToRevoke(r, p, {a})

SwitchContext(r, p, s) ==
  ReadToRevoke(r, p, {a \in AccessToken : Live(a) /\ accessToken[a].sessionId = s})

\* Mutant: the insert alone is started; blockJti is not called.
RevokeOneInsertOnly(r) ==
  /\ tokenReq[r].pc = "revokeOne"
  /\ \E inserted \in SUBSET tokenReq[r].tokens :
       IF inserted \cap revokedJti = {}
         THEN /\ accessToken' = [a \in AccessToken |->
                   IF a \in tokenReq[r].tokens THEN [accessToken[a] EXCEPT !.state = "revoked"]
                   ELSE accessToken[a]]
              /\ revokedJti' = revokedJti \cup inserted
         ELSE UNCHANGED <<accessToken, revokedJti>>
  /\ started' = started \cup ({tokenReq[r].proc} \X tokenReq[r].tokens)
  /\ tokenReq' = [tokenReq EXCEPT ![r] = TokenIdle]
  /\ UNCHANGED <<redis, memStore, blocking, expired, acknowledged>>

\* They mark the tokens in the flow's transaction and start, without awaiting
\* them, blockJti and the insert of the RevokedJti row on the same transaction.
\* An insert that comes after the commit is an error nobody sees; one that meets
\* an existing row has PostgreSQL roll the transaction back.
RevokeOne(r) ==
  /\ tokenReq[r].pc = "revokeOne"
  /\ \E inserted \in SUBSET tokenReq[r].tokens :
       IF inserted \cap revokedJti = {}
         THEN /\ accessToken' = [a \in AccessToken |->
                   IF a \in tokenReq[r].tokens THEN [accessToken[a] EXCEPT !.state = "revoked"]
                   ELSE accessToken[a]]
              /\ revokedJti' = revokedJti \cup inserted
         ELSE UNCHANGED <<accessToken, revokedJti>>
  /\ blocking' = blocking \cup ({tokenReq[r].proc} \X tokenReq[r].tokens)
  /\ started' = started \cup ({tokenReq[r].proc} \X tokenReq[r].tokens)
  /\ tokenReq' = [tokenReq EXCEPT ![r] = TokenIdle]
  /\ UNCHANGED <<redis, memStore, expired, acknowledged>>

\* triggerKillChain, on a replayed refresh token, blocks every live token: the
\* database writes are rolled back by the error it ends with, the blockJti calls
\* are under way.
KillChain(p) ==
  /\ "replay" \in Ops
  /\ blocking' = blocking \cup {<<p, a>> : a \in {a \in AccessToken : Live(a)}}
  /\ UNCHANGED <<accessToken, revokedJti, redis, memStore, expired, tokenReq, acknowledged, started>>

\* A blockJti call runs: into Redis, or into the process' own map if that fails.
BlockJti(p, a) ==
  /\ <<p, a>> \in blocking
  /\ blocking' = blocking \ {<<p, a>>}
  /\ \/ redis' = redis \cup {a} /\ UNCHANGED memStore
     \/ memStore' = [memStore EXCEPT ![p] = @ \cup {a}] /\ UNCHANGED redis
  /\ UNCHANGED <<accessToken, revokedJti, expired, tokenReq, acknowledged, started>>

\* A process restarts: its map, its calls and its requests are lost.
Restart(p) ==
  /\ "restart" \in Ops
  /\ memStore' = [memStore EXCEPT ![p] = {}]
  /\ blocking' = {b \in blocking : b[1] # p}
  /\ started' = {b \in started : b[1] # p}
  /\ tokenReq' = [r \in TokenReq |-> IF tokenReq[r].proc = p THEN TokenIdle ELSE tokenReq[r]]
  /\ UNCHANGED <<accessToken, revokedJti, redis, expired, acknowledged>>

\* The token's lifetime is over, and with it the TTL of its Redis key.
Expire(a) ==
  /\ accessToken[a].state # "free" /\ a \notin expired
  /\ expired' = expired \cup {a}
  /\ redis' = redis \ {a}
  /\ UNCHANGED <<accessToken, revokedJti, memStore, blocking, tokenReq, acknowledged, started>>

\* Mutant: rows are pruned before expiresAt.
CleanupJtiEarly(a) ==
  /\ a \in revokedJti
  /\ revokedJti' = revokedJti \ {a}
  /\ UNCHANGED <<accessToken, redis, memStore, blocking, expired, tokenReq, acknowledged, started>>

\* runTokenCleanup: RevokedJti rows go as soon as expiresAt has passed.
CleanupJti(a) ==
  /\ a \in revokedJti
  /\ a \in expired
  /\ revokedJti' = revokedJti \ {a}
  /\ UNCHANGED <<accessToken, redis, memStore, blocking, expired, tokenReq, acknowledged, started>>

TokenNext ==
  \/ \E r \in TokenReq : RevokeMany(r) \/ RevokeOne(r)
  \/ \E r \in TokenReq, p \in Proc : \/ \E S \in SUBSET Session \ {{}} : ListLive(r, p, S)
                                     \/ \E a \in AccessToken : RevokeToken(r, p, a)
                                     \/ \E s \in Session : SwitchContext(r, p, s)
  \/ \E a \in AccessToken : Expire(a) \/ CleanupJti(a) \/ \E s \in Session : Issue(a, s)
  \/ \E p \in Proc : Restart(p) \/ KillChain(p) \/ \E a \in AccessToken : BlockJti(p, a) \/ Logout(p, a)
  \/ LogoutNoSession

TokenSpec == TokenInit /\ [][TokenNext]_tokenVars

-----------------------------------------------------------------------------
\* Properties.

\* A token that logout or a bulk revocation has revoked is never accepted again, by
\* any process, whether Redis answers or not, across restarts, expiry of the Redis
\* key and the clean-up job: the RevokedJti row is durable and outlives the JWT.
RevocationDurable ==
  \A a \in acknowledged, p \in Proc : Refused(p, a)

\* What tokenRevokeFlow, revokeTokenByIdFlow and switchContextFlow promise is
\* weaker: until its process restarts or the token expires, some store or a call
\* still under way holds the revocation.  blockJti stands in for the insert they do
\* not await, also when it is lost or rolls the transaction back.
RevocationRecorded ==
  \A b \in started :
    b[2] \in expired \cup revokedJti \cup redis \cup memStore[b[1]] \/ b \in blocking

\* "every revoked token must be written to both (blockJti + revokedJti.create
\* together, per the security invariant)": a token marked as revoked has its
\* RevokedJti row for as long as it could be used.
RevokedIsBlocked ==
  \A a \in AccessToken :
    accessToken[a].state = "revoked" /\ a \notin expired => a \in revokedJti

\* "Without this, suspended/banned users' tokens remain valid until expiry":
\* when the request that was to revoke the tokens of an identity ends, whatever it
\* answers, none of the tokens it listed is accepted.
SuspendedTokensRejected ==
  [][\A r \in TokenReq : tokenReq[r].pc = "revokeMany" /\ tokenReq'[r].pc = "idle" =>
       \A a \in tokenReq[r].tokens, p \in Proc : Refused(p, a)']_tokenVars
=============================================================================
