# Verification project for arc-id

arc-id is a multi-tenant identity provider: a Fastify API on PostgreSQL (Prisma),
with Redis for short-lived keys and a background worker. This directory models the
parts of it in which several requests, processes or jobs share state, checks the
models with TLC on small instances, and proves the central results with TLAPS.

Paths below are relative to the repository's `src/`.

## 1. Inventory

| Component | State | Operations | Hard behaviour | What makes it correct |
|---|---|---|---|---|
| Refresh tokens and sessions (`modules/oauth`, `modules/auth`) | `RefreshToken` (jti, parentJti, familyId, sessionId, revoked, expiresAt), `Session` (valid, refreshTokenId), `Identity.status` | login, refresh with replay detection, context switch, logout, DELETE /sessions/:id, password reset and change, suspend/ban, account deletion, token revocation, clean-up | concurrent rotations; scans that race rotations; errors thrown after writes; rows pruned under live chains | one usable token per family, each token rotated once, closed sessions have no usable token, a replay kills the family |
| Access-token blocklist (`lib/security/jti-blocklist.ts`, `api/plugins/auth-guard.plugin.ts`) | `AccessToken`, `RevokedJti`, Redis keys, a map per process | issue, logout, bulk revocation, revocation of one token, kill chain, clean-up | calls nobody awaits, unique-key conflicts, Redis outages, restarts | a revoked access token is not accepted again |
| Webhook outbox (`lib/webhooks`, `jobs/webhook-worker.ts`, `modules/webhooks`) | `WebhookEvent` (attempts, nextRetryAt, processingBy, processingAt, deliveredAt) | dispatch, claim, fetch, deliver, release, manual retry | several workers, leases, crashes, writes that fail, paused workers | one worker per event, no early surrender, everything settles |
| Credentials and status lists (`modules/credentials`) | `BitstringStatusList`, `StatusListEntry`, `VerifiableCredential`, `CredentialOffer`, the issuer's signing key | issue, offer, accept, revoke, verify | index allocation, read-encode-write of a shared list, offers checked early and consumed late | one slot per credential, revocations visible and never false |
| Presentation (`verify-session.route.ts`, `verify-present.route.ts`) | `VerifySession.status` | create, present | check, then update by id, with a verification in between | a session vouches once, and not for a revoked credential (the code promises both and keeps neither: a bound holds, section 5) |
| OAuth authorization code (`modules/oauth`) | `Client`, `OAuthConsent`, `AuthorizationCode` | client CRUD, consent, authorize, exchange | consent and client change while a code is on its way; check, then update by id | codes carry consented scopes, PKCE is not escaped, a valid code is exchanged (it is not: section 5) |
| E-mail links and seats (`email-token.service.ts` and its callers, `membership.service.ts`) | `EmailToken`, `TenantMembership`, `Identity.status` | register, verify, magic link, password reset, invite, accept, remove | check, then mark; consumption and effect in different transactions; count, then insert | a link works once, is not spent for nothing, and one lives; removed members stay out; seats are capped |
| Sign-in (`login.flow.ts`, `login-attempt.ts`, `mfa*`, `passkey*`, `step-up*`, `challenge-store.ts`) | Redis counter, lock and challenges, `Mfa`, `MfaRecoveryCode`, `Passkey`, `Session` | log in, fail, set up, verify, recover, register, assert, elevate, disable | several Redis commands per operation; sessions ended while a factor is verified | lockout bounds guesses, codes and challenges work once, ended sessions stay ended |
| Federation (`social.route.ts`, `modules/idp`, `oauth-link.route.ts`) | `OAuthAccount`, `IdpConnection`, `Identity`, two cookies | redirect, callback, provision, link, unlink | concurrent first sign-ins, addresses that change hands, failures half-way | a link does not move and leads to its owner; only verified addresses attract links |
| Billing, plans, API keys, endpoints (`modules/billing`, `modules/api-key`, `webhook-config.route.ts`) | `Subscription`, the plan claim of a JWT, `ApiKey`, `WebhookEndpoint` | provider events, issue, create and revoke, endpoint CRUD | events repeated and out of order; a claim that outlives its plan; count, then insert | the plan follows the provider, downgrades reach the tokens, the cap holds |
| Projects and onboarding (`modules/tenant`) | `Project`, `OnboardingFlow`, `OnboardingProgress` | CRUD, start, advance | read-modify-write of a list; deletions against the rows that refer to them | no completed step is lost |
| Flow executor (`core/flows`) | the open transaction | run | timeouts, errors | all or nothing |

Interaction. Routes call flows; `FlowExecutor.run` wraps a flow in
`prisma.$transaction` unless the route says `transaction: false`; flows call services
and repositories on the transaction's client. All components meet in the database
at READ COMMITTED. Redis, the process-local maps and un-awaited promises are
outside the transaction, and their effects survive a rollback or may be lost
although the transaction commits. The session row is where sign-in, rotation, step-up and
revocation meet; the identity row is where registration, federation and administration meet.

The hazards, each with its line in the code and the properties that cover it, are in
`PROJECT.json`.

## 2. Modules

| Module | Models | Extended by |
|---|---|---|
| `TokenFamily` | abstract: what rotation promises | implemented by `RefreshTokens` (`FamilyChain`) |
| `RefreshTokens` | rotation and every request that ends a session | `MCRefreshTokens`, `RefreshTokensProofs` |
| `AccessBlocklist` | how an access token is taken out of service | `MCAccess`, `AccessProofs` |
| `WebhookDelivery` | the outbox and its workers | `MCWebhookDelivery`, `WebhookDeliveryProofs` |
| `StatusRegistry` | abstract: what issuance and revocation promise | implemented by `CredentialStatus` (`ListRegistry`) |
| `CredentialStatus` | issuance, offers, status lists, revocation, presentation | `MCCredentialStatus`, `CredentialStatusProofs` |
| `EmailTokens` | links sent by e-mail, invitations and seats | `MCEmailTokens`, `EmailTokensProofs` |
| `SignIn` | password, lockout, TOTP, recovery, passkeys, step-up | `MCSignIn`, `SignInProofs` |
| `Federation` | social and tenant identity providers | `MCFederation`, `FederationProofs` |
| `Tenancy` | subscription, plan claims, keys, endpoints, onboarding | `MCTenancy`, `AccessProofs` |
| `OAuthGrant` | clients, consent, authorization codes | `MCAccess`, `OAuthGrantProofs` |

The `MC*` modules add symmetry sets and the values of structured constants.

Conventions. `req[r]` is a request in progress: `pc` is the statement or awaited call it is
about to make, the other fields are what it has read, and, inside a transaction, what it has written.
A transaction's writes are invisible until `Commit` and dropped by `Abort`; the rows it wrote are locked,
and whoever needs them waits. A request without a transaction changes the rows as it goes, and
`Abort` leaves them as they are. Variables commented "history" only record what happened, so that a property can
name the overlap or the order it is about. An operator under a "Mutant:" comment is not part of
the model: it is the operator below it with one plausible mistake, and shows that a property notices it.

### RefreshTokens and TokenFamily

Committed rows are `refreshToken` and `session`; what an open transaction has
written is in `req[r]` (`writes`, `child`, `binds`, `offs`). A single-row
`updateMany ... where revoked = false` is one action that waits for the lock and looks
at the row again (`RefreshCas`, `SwitchCas`); a multi-row one is `Scan` (the snapshot
of the statement) followed by one `Visit` per row. That is what READ COMMITTED
does, and what lets a row committed after the snapshot escape.

| Actions | Code |
|---|---|
| `LoginStart` ... `LoginBind` | `login.flow.ts`, `session.service.ts` (cap), `token.service.ts`; no transaction, each statement commits |
| `RefreshRead`, `RefreshIdentity`, `RefreshCas`, `TxIssue`, `TxBind` | `token-refresh.flow.ts`, `token.service.ts` |
| `KillScan`, `KillVisit`, `KillSession`, `KillThrow` | `triggerKillChain` and the throw that ends it |
| `SwitchRead`, `SwitchCas` | `switch-context.flow.ts` |
| `LogoutRead`, `LogoutBound`, `DeleteSession`, `ResetRead`, `PasswordRead`, `Suspend`, `DeleteAccount`, then `Scan`, `Visit`, `VisitDone`, `Off`/`OffFirst`, `Erase` | `logout.flow.ts`, `session.route.ts`, `session.repository.ts`, `password.route.ts`, `admin.route.ts`, `profile.route.ts` |
| `RevokeRead`, `RevokeOne` | `token-revoke.flow.ts` on a refresh token |
| `Cleanup`, `CleanupSession`, `Expire`, `Reinstate` | `token-cleanup.job.ts`, time, `admin.route.ts` |

`TokenFamily` is the promise without requests, transactions or sessions: each family has one current token or none; it
is opened, rotated, switched to a family of its own, or revoked, and a closed family
stays closed. `RefreshTokens!Family` instantiates it with `current` mapped to the live token
of the family and `used` to the issued ones; every other variable is hidden, and the steps inside a
transaction are stutters.

`replayed` and `closed` are history. Abstractions: one identity, because every
query is filtered by token, session or identity; a session that has expired and been
pruned is one state (`"pruned"`), since no refresh looks at the expiry of a session; the read
and the update of the eviction in `SessionService.create` are one step; the branches
of the kill chain for rows without `familyId` are left out, since `TokenService.issue`
always sets it; `deleteAccountFlow` is exported and tested but no route calls it, so
DELETE /profile is modelled from `profile.route.ts`. A context switch works on the identity's newest valid session, which
need not be the caller's; when its login has not bound a token to it yet there is nothing to revoke, and the switch issues the first
token of a family.

### AccessBlocklist

`RequireUser(p, a, redisUp)` is the decision of the auth guard in process `p`:
the JWT is in date, the Redis key (or, when Redis fails, the map of the process) is
absent, and there is no `RevokedJti` row. The model has the four ways a revocation is
written: logout (an upsert, awaited: `BlockOwn`), the bulk requests (list, then a transaction with
one `create` per listed token, which fails as a whole on a duplicate), the requests
that start the insert and `blockJti` without awaiting them (revocation of a token, and the context switch with its
`create`, `switch-context.flow.ts:147-150`), and the kill chain, of which only the
`blockJti` calls survive. A logout that finds no session row answers success and writes nothing (`LogoutNoSession`). `blocking` holds the calls under way; a restart loses them with
the map. A multi-statement transaction is one step here: what
interleaves within it is the subject of `RefreshTokens`. The names of its specification carry a prefix (`TokenSpec`, `TokenTypeOK`, `tokenReq`), so that
`AccessProofs` can extend it next to `Tenancy`.

### WebhookDelivery

An event is one row for one endpoint. `flow` is the business transaction together with
the `dispatchWebhookEvent` call it does not await; `task` is what each worker does with
each row of its batch. `ClaimBatch` is the `FOR UPDATE SKIP LOCKED` statement, `FetchBatch`
the re-read that skips rows another worker has taken, `Deliver` the POST with a free choice of
outcome, `ReleaseDelivered`/`ReleaseFailed` the write-back from the fetched counter.
`retrying` counts the retry requests that have checked an event and will update its row
(`RetryCheck`, `RetryUpdate`), whatever happens in between. `WriteFails` and `Crash` are bounded by `Faults`. A lease runs out by itself only
when no worker is at work on the row (`LEASE_TTL_MS` is far above the 10 s delivery timeout);
a worker that is paused for longer is `Stall`, bounded by `Stalls`. The endpoints themselves are in `Tenancy`.

### CredentialStatus and StatusRegistry

`FindList`/`TakeIndex` are `allocateIndex` with its compare-and-swap and restart, `CreateVc` signs and inserts,
`AcceptOffer` marks the offer by id, `UpsertEntry`, `ReadEntries` and `EncodeList` are
`updateEntry`. The encoded list is the set of indexes whose bit is 1.
`Present`, `VerifyCredential` and `ConsumeSession` are POST /credentials/present, which has no transaction.
Where a signed credential keeps its status is modelled by the number of `vc` objects around it: issuance adds one (`PayloadDepth`), signing another
(`SignedDepth`), verification opens one, so `StatusFound` is false and the bit is never asked for; the second disjunct is every other
refusal, that of an SD-JWT included.
The nested `$transaction` of issuance is a savepoint of
the flow's transaction. Revocation is modelled at the flow: the route validates `credentialId`
as a plain UUID, while issued ids have the form `urn:uuid:...`. `Init` assumes the issuer's DID and key rows in the form
`provisionTenantDidFlow` writes, and a subject with a verified identifier: the routes that would create either always fail (section 5).

`StatusRegistry` is the promise without requests, transactions, locks, retries and offers: a list hands out its slots in order, a credential keeps its
slot, a revocation is final, and what a list publishes changes with a revocation only, which shows itself and nothing false and, unless
revocations of the list have overlapped, everything shown before. `CredentialStatus!Registry` instantiates it with the committed rows.

### EmailTokens

One account owns the verification, magic and reset links; invitations go to several identities of one tenant. `ScanOlder`,
`Supersede`, `Insert` are `EmailTokenService.issue`, `FindToken` and `Mark` are `consume`; `InTransaction` says
which callers run them in a flow's transaction. `EmailVerify`, `MagicLink`, `PasswordResetConfirm`, and `FindMembership` with
`Activate`, are what the callers do with a consumed token. `MembersPost`/`MembersDelete` are the membership routes,
with the seats counted in `AddMember` and taken in `TakeSeat`.

### SignIn

One identity, several sessions and requests. The Redis commands of `login-attempt.ts` are one action each
(`RecordIncr`, `RecordExpire`, `RecordTtl`, `RecordLock`, and the two DELs of
`clearAttempts`, which nobody awaits); time is counted in ticks. `LoginSession`/`LoginIssue` insert the session and, with MFA, make it
invalid. `MfaVerification` is POST /mfa/verify, `Recovery` to `Revive` POST /mfa/recovery, `MfaConfirm` the enrolment.
`ConsumeChallenge` is the GETDEL that registration, sign-in and step-up share. `Elevate` is the conditional
update that ends a step-up; with a passkey, anybody's will do, since it is looked up by its credential id alone. Verifying a right proof is a guard: a wrong one changes nothing, except a wrong password.

### Federation

A provider asserts an account and an address, which may differ from one sign-in to the next. The redirect cookies are one
pair for all providers. `HandleCallback` (social) and `FederatedLogin` (tenant) are the
same transaction, `FindAccount` to `Commit`; only the second provisions. A second insert of a unique key waits for the first
and fails if that commits. `Unlink` and `DeleteProfile` remove links under running callbacks, `Register`, `VerifyEmail` and `Suspend`
change the identities they look at.

### Tenancy

One tenant. `sent`/`pending` is the payment provider, which repeats an event until it is answered and lets events overtake each other;
`Deliver` is either billing webhook. `IssueRead`/`IssueSign` are the part of `TokenService.issue` that puts the plan
in a claim; `PaidCaller` is `requirePlan` for a token or a key. `EndpointCount`/`EndpointInsert` are the capped creation.
`AdvanceRead`/`AdvanceWrite` are `advanceProgress`. A flow's deletion, or its project's, fails when somebody has begun the flow (`Restricted`,
`Refuse`): the foreign key of `OnboardingProgress` restricts (`schema.prisma:523`, `ON DELETE RESTRICT` in its migration). None of these requests has a
transaction of more than one statement.

### OAuthGrant

One client and one user. `ClientPatch` writes the create defaults for every field the body omits, as the schema does. `Authorize` to
`AuthorizeCode` is `authorizeFlow`, a statement at a time; `Exchange`, `ExchangeConsume`, `ExchangeIssue` are the exchange in its
transaction. `IssueFinds` is the look-up of the client in `TokenService.issue`, which takes
the public `clientId`, while the exchange passes the id of the row: as the code stands an exchange that has come that far ends in a rollback,
which gives the code back, and `ExchangeSucceeds` is violated.

## 3. Runs

| Run | Result | Shows |
|---|---|---|
| `refresh_concurrent` | pass | Two requests at once on one session, rotation, context switch, session deletion, clean-up and aborts in any order: `OneLivePerFamily`, `RotatedOnce`, `LineageSpent`, `RotationConsumesLive`, and the refinement `FamilyChain` |
| `refresh_sequential` | pass | Every operation one after the other, with aborts between any two statements, over two sessions: a session that was closed has no usable token (`ClosedSessionsDead`) |
| `refresh_killchain` | violation | The kill chain's writes are rolled back by its own throw |
| `webhook_outbox` | pass | `ExclusiveDelivery`, `FailedMeansExhausted`, `NoSendAfterDelivered`, with retry requests that overlap each other and the workers; `EventuallySettled` under fairness |
| `access_grants` | pass | `RevocationDurable` for the awaited revocations, `RevocationRecorded` for the others, across two processes, restarts and Redis outages; `CodesConsented` and `PkceUnlessTightened` unless consent or client changed after the check |
| `credentials_concurrent` | pass | `SlotUnique`, `NoDeadSlots`; `RevocationKept` as long as revocations of a list do not overlap; a session vouches at most once per request that overlaps on it (`PresentationsBounded`); an offer that has yielded a credential is not accepted again, except by an acceptance under way (`OfferClosed`); the refinement `ListRegistry`, with it that no bit is set for a credential that is not revoked |
| `email_links` | pass | A link has its effect once unless two requests held it (`UsedAgainOnlyIfRaced`), is not consumed without effect except by a request that dies in POST /invites/accept (`ConsumptionJustified`), one link per purpose lives unless two issues overlapped, never for invitations (`OneLiveLink`); `RemovalFinal`; `SeatsBounded` |
| `signin_factors` | pass | `GuessesBounded`, with a counter that may outlive the lock; `CodeOnce`, `EndedStaysEnded`, `ChallengeOnce`, `ElevationOnLive`, `KeepsAWayIn` |
| `signin_totp` | violation | The session a login leaves for MFA is invalid, and the TOTP verification refuses invalid sessions |
| `federation_signin` | pass | `ProvisionedLinked`, `LinksNeedVerified`, `EntersOwner`, `LinkStable` |
| `tenancy_plans` | pass | `PlanFollowsProvider` unless an event was applied after a later one; `EndpointsBounded`; `ProgressDurable` except for steps answered while another advance of the flow was under way; `EventuallyDowngraded` under fairness |
| `oauth_exchange` | violation | A valid authorization code, client and session do not get a token bundle |

Many properties have an exception, "unless two ... overlapped". The exception is a history variable that is set only by that
overlap, so the property says two things: the code is right whenever the overlap does not happen, whatever else
interleaves; and the overlap is the only way it goes wrong. It does not say that the overlap is harmless: for recovery codes, links,
overlapping revocations of a list, acceptances of an offer, passkey deletions, onboarding advances, and consent or PKCE changed behind a check,
the exempted overlap is the hazard itself, nothing in the code prevents it, and the note of that hazard in `PROJECT.json` says so.

Each violation is a disagreement between the code and a comment or description in it, quoted under
`findings` in `PROJECT.json`.

### Bounds

- `refresh_concurrent`: three tokens are a chain of two rotations, or a rotation and a
  switch; two requests are what a race needs; one session, because the properties
  are about families and a second session only adds an independent one. `MaxSessions = 1`
  makes the eviction happen.
- `refresh_sequential`: two sessions, so that "the others" and "all" differ; three tokens; one
  request, since the concurrent case does not hold (`RotationNeverEscapes`, section 5). `MaxSessions` is above the number of sessions, since a
  reset does not reach evicted ones (section 5).
- `webhook_outbox`: two events and two workers, one crash or failed write, one stall, two
  attempts, and two manual retries, so that the second can land on a row the first has put back. A batch of one leaves rows for the other worker.
- `access_grants`: `OAuthGrant` and `AccessBlocklist` share no state, so a behaviour is of one or the other (`AccessNext`). Grants: two scopes, two codes, two requests;
  `Together` says which inputs vary: the scopes, what the exchange authenticates, or what is asked for. Blocklist: two processes (the map of one is unknown to the other),
  two tokens (a batch in which one conflicts), one request in flight while logouts, issues, expiry and restarts go on around it. Tokens bear the names of the codes, and processes those
  of the requests, so that one permutation serves both.
- `oauth_exchange`: the same specification with one code and one request.
- `credentials_concurrent`: lists of two slots and three lists, so that a list fills up and
  two credentials share one; three credentials; two requests. A behaviour has offers or presentations (`Together`): neither reads the other's rows.
- `email_links`: three tokens (two of one purpose and one more), three invitees for two seats besides the administrator's own, so that
  the cap is met and overrun; two requests. `Together`: the account's links with its verification, or the invitations; links of different purposes meet only in the account.
- `signin_factors`: two sessions (a revoked one and another to act from), two codes, three challenges (one replaced while another is
  answered), two passkeys, two requests. `MaxErrors = 1`. `Theme` lists five groups of operations; each group contains the operations that read or write the rows of its properties.
  Thresholds 2 and 3 stand for 5, 10 and 20 failures, with lock times of 2 and 3 ticks and a window of 2: two steps of the ladder, the first reached by two
  requests at once, and ticks enough for one request to refresh the counter after another has set the lock. With a window of one tick that order cannot be told from the ordinary one.
- `signin_totp`: as `signin_factors`.
- `federation_signin`: two identities and addresses, so that an address can change hands; one user id with two providers gives two accounts; two
  requests. `Together`: a PKCE provider with a tenant's connection, or a PKCE and a plain provider.
- `tenancy_plans`: one paid plan and FREE, two tokens (one replaced by the next), a cap of one with three endpoints, so that the overrun of one happens and more
  would show; two steps of one flow; two requests. `MaxEvents` is 3 where reordering is the subject, and less
  where the endpoints multiply the states.

Symmetry is declared over tokens, processes, credentials, requests and the like in runs
without liveness, where nothing orders them. Deadlock checking is off where the bound on
issuance ends the run (`RefreshTokens`, `MCAccess`, `WebhookDelivery`, `Tenancy`); it is on for the others,
where `Abort` always remains possible and a request stuck on locks would be a modelling error.

### Fairness

- `WebhookDelivery`: weak fairness of each worker's loop (it
  re-arms itself after every batch, and a POST has a timeout), of the passing of time
  (`RetryDue`, `LeaseExpires`) and of the retry requests of each event that were checked. Nothing is assumed
  of new events, of the endpoint, of crashes or of stalls.
- `Tenancy`: weak fairness of `ExpireJwt` (the `exp` of an access token passes) and of
  `IssueSign` (a request that has started goes on). Nothing is assumed of the provider, of new tokens or of callers.

The other specifications state safety only.

## 4. Proofs

Eight modules hold theorems, each about one specification but for `AccessProofs`, which is about two that share no variable. They are proved for all values of the constants that
satisfy the named assumptions: any number of rows, workers, processes and concurrent requests, where a run has two or three.
Each follows the same plan: `IndInv`, one lemma per action or group of actions, `NextInv`, `Invariance == Spec => []IndInv`, and the theorems from it.

| Module | Theorem | Statement |
|---|---|---|
| `RefreshTokensProofs` | `TypeCorrect` | `Spec => []TypeOK` |
| | `FamilySafety` | `Spec => []OneLivePerFamily` |
| | `RotationUnique` | `Spec => []RotatedOnce` |
| | `LineageSafety` | `Spec => []LineageSpent` |
| | `RotationAtomic` | `Spec => RotationConsumesLive` (action property) |
| | `RotationImplementsFamily` | `Spec => FamilyChain` (refinement of `TokenFamily`) |
| `AccessProofs` (`Tenancy`) | `TypeCorrect` | `Spec => []TypeOK` |
| | `PlanIsProviders` | `Spec => []PlanFollowsProvider` |
| | `EndpointsAreBounded` | `Spec => []EndpointsBounded` |
| | `ProgressIsDurable` | `Spec => []ProgressDurable` |
| `AccessProofs` (`AccessBlocklist`) | `TokensTypeCorrect` | `TokenSpec => []TokenTypeOK` |
| | `RevocationIsDurable` | `TokenSpec => []RevocationDurable` |
| | `RevocationIsRecorded` | `TokenSpec => []RevocationRecorded` |
| `WebhookDeliveryProofs` | `TypeCorrect` | `Spec => []TypeOK` |
| | `LeaseExcludes` | `Spec => []ExclusiveDelivery` |
| | `FailureIsExhaustion` | `Spec => []FailedMeansExhausted` |
| | `DeliveredIsFinal` | `Spec => NoSendAfterDelivered` (action property) |
| `CredentialStatusProofs` | `TypeCorrect` | `Spec => []TypeOK` |
| | `SlotsAreUnique`, `CountsAreExact` | `Spec => []SlotUnique`, `Spec => []NoDeadSlots` |
| | `BitsJustified` | `Spec => []NoFalseRevocation` |
| | `RevocationIsKept` | `Spec => []RevocationKept` |
| | `PresentationsAreBounded` | `Spec => []PresentationsBounded` |
| | `OffersClose` | `Spec => OfferClosed` (action property) |
| | `ListsAreRegistry` | `Spec => ListRegistry` (refinement of `StatusRegistry`) |
| `EmailTokensProofs` | `TypeCorrect` | `Spec => []TypeOK` |
| | `SecondUseIsARace` | `Spec => []UsedAgainOnlyIfRaced` |
| | `ConsumptionIsJustified` | `Spec => []ConsumptionJustified` |
| | `LatestLinkOnly` | `Spec => []OneLiveLink` |
| | `RemovalIsFinal` | `Spec => []RemovalFinal` |
| | `SeatsAreBounded` | `Spec => []SeatsBounded` |
| `SignInProofs` | `TypeCorrect` | `Spec => []TypeOK` |
| | `GuessesAreBounded` | `Spec => []GuessesBounded` |
| | `CodesWorkOnce` | `Spec => []CodeOnce` |
| | `ChallengesWorkOnce` | `Spec => []ChallengeOnce` |
| | `EndedStayEnded` | `Spec => []EndedStaysEnded` |
| | `ElevationNeedsLive` | `Spec => ElevationOnLive` (action property) |
| | `AWayInIsKept` | `Spec => KeepsAWayIn` (action property) |
| `FederationProofs` | `TypeCorrect` | `Spec => []TypeOK` |
| | `SignInEntersOwner` | `Spec => []EntersOwner` |
| | `ProvisioningIsLinked` | `Spec => []ProvisionedLinked` |
| | `LinksAreVerified` | `Spec => []LinksNeedVerified` |
| | `LinksAreStable` | `Spec => LinkStable` (action property) |
| `OAuthGrantProofs` | `TypeCorrect` | `Spec => []TypeOK` |
| | `CodesAreConsented` | `Spec => []CodesConsented` |
| | `PkceIsEnforced` | `Spec => []PkceUnlessTightened` |

### Assumptions

Each module names one assumption (`RefreshTokens` two). They say that bounds are natural numbers, that NULL (`None`) and the pseudo-values
(`Gone`, `"none"`) are not members of the sets they stand beside, and that the inputs of a run are of the right kind. Beyond that:
`SignInAssumption` has the ladder of lockouts increasing, in failures and in time, and the window no longer than the first lock, as in
`login-attempt.ts`; where a property counts requests or invitees, those sets are finite; `AccessBlocklist` has at least one session; `EmailTokens`
at least one request; in `Tenancy` an endpoint cap is at least one and no plan is called like an event (`"cancel"`, `"unknown"`). TLC evaluates them in every run.

### Inductive invariants

*RefreshTokens.* `RowsTyped /\ Requests /\ Families`.
`OneLivePerFamily` alone is not inductive: a commit publishes a child, and whether the family
then has two live tokens depends on what the transaction did earlier. `Requests` says what that is:
each request is `Sound` (the rows it has written exist; its child is not stored yet; a rotation past
the compare-and-swap holds the lock of a parent that is still live, `Spends`, or is a switch of a session without a token and has none, `Opens`) and any two are `Apart`
(disjoint locks, different children). `Families` adds to the three properties that
a row's family is named by an issued row (`RowsRooted`), so a fresh token is never in an
existing family. The argument of the commit: the parent is live and locked by this transaction, so it is the only
live token of its family; the commit takes it to revoked and puts the child in its place;
locks of different transactions are disjoint, so the facts about the others remain.

*The refinement.* `Mapped` computes what the mapping of `FamilyChain` yields where no family has two live tokens: `current[f]` is the live row of `f`, if
there is one. `RowsChange` says how `current` follows the rows; `OpenStep`, `RevokeStep` and
`CommitStep` map an insertion, or the commit of a switch without a parent, to `Open`, anything that closes a family to `Revoke`, and a commit to `Rotate`, `Switch` or `Revoke`; `FamilyStep` shows that all
other steps stutter.

*AccessBlocklist.* `RevocationDurable` is about what the guard decides; what makes it last is `RowOutlivesJwt`: the `RevokedJti` row of an answered revocation
stays until the token is past its `exp`, since the clean-up deletes by `expiresAt` and every writer of a row sets that to the `exp`. Redis and the maps are not needed for it.

*Tenancy.* Plan: the subscription shows the event applied last (`ShowsLast`), and an event that was answered has been applied, hence is not later than that one as long as
they came in order (`AnsweredApplied`). Endpoints: not those created are bounded but the created and the counted-for together (`EndpointRoom`), by the cap plus the other requests.
Onboarding: an advance between its read and its write has read every answered step but the `exposed` ones, those answered while another advance was there (`Reading`), and so
has the row, which the last advance wrote (`Recorded`); nothing is answered before the flow is begun (`ProgressOfFlow`), and a flow somebody has begun is not deleted.

*WebhookDelivery.* Per event and worker: `Held` (a worker that is busy with an event owns it, the lease is on, the row is due and not delivered), `Counted` and
`Tallied` (neither the counter of the row nor the copy a worker has fetched is ahead of the requests made, and only exhaustion
gives up). `Held` and the upper bounds hold while no live worker was paused beyond its lease (`stalls = 0`), which is the exception the properties name.

*CredentialStatus.* `Slots` (the slots of a list are handed out from 0 on; the number of its credentials is `issuedCount`), and per request: past the
compare-and-swap it locks the list row and `seen` is the count (`OnList`); what a revocation is about to encode contains its own bit, only bits of
finished revocations, and all of them unless the list is raced (`OnBits`); pairs are `Apart`. A commit adds one credential in slot `seen` and moves the count by one.
The refinement follows from it commit by commit: `IssueCommitRefines` (the slot is the next one although the count was read before) and `RevokeCommitRefines` (`OnBits` is the guard of the abstract
revocation); the first entry of an overlapping revocation is `Overlap`, everything else a stutter. `OffersClose` needs `OfferInv`: the offer of a committed credential is accepted, since the
transaction that inserts the credential has marked the offer before it commits. Presentations: not the accepted ones are bounded but the accepted and the
requests that have read the session together (`PresentRoom`, `Holders`), by the number of requests: once the session is marked nobody joins them.

*EmailTokens.* Seats: not the taken seats are bounded but the claimed ones (`Claimed`: taken, or counted for and not yet taken by a request in progress), by
the cap plus the other requests. Links: a request that has taken the snapshot of the older links has all of them in hand unless another one of the same scope is that far
too (`LinkFits`); a token that was never held twice and was used is out of reach (`UsedOnce`).

*SignIn.* Lockout: three bounds. The guesses are at most the counter plus the failures not yet counted plus the errors; while there is
no lock they are below the first threshold but for the requests that will set one or find one (`Lockers`); and together with the requests that have passed `checkLockout`
(`Passers`) they are below the first threshold plus all requests. A request is never in both sets, which is why the slack is one per request and not more. Codes: who is past the
mark has marked it, two holders mean a race, and a code that was used and not raced has no holder (`Coded`). Challenges: a stored one was issued and never accepted, and is stored for one ceremony (`Challenged`).
Passkeys: unless two deletions overlap there is one, and it leaves a way in (`Kept`). `EndedStaysEnded` is inductive given that no operation but the recovery code sets `valid` on an existing row.

*Federation.* `OnLink` and `OnIdentity` say what a callback still knows of the link and of the identity it found; `Apart` is what the unique keys guarantee
of two inserts; `Links` bounds the links of an identity nobody has verified.

*OAuthGrant.* A request that is about to insert a code has found consent for its scopes, and passed the PKCE gate, or is marked by whoever changed that since (`Consented`, `Tightened`).

### What the proofs changed

Two statements were right only within the bounds of their runs. A retry request that lands on a row another one had already put back used to
reset the history `sends` of `WebhookDelivery` and with it the meaning of `FailedMeansExhausted`; it now counts from the first. `GuessesBounded` counts guesses
until the counter *or the lock* expires; the model reset them only with the counter, which made no difference as long as a window of one tick never let the counter outlive the lock.
`webhook_outbox` and `signin_factors` now have the bounds at which either would be seen.

### Only model-checked

Liveness (`EventuallySettled`, `EventuallyDowngraded`): fairness and ENABLED are outside the prover.
`ClosedSessionsDead`: it holds for one request at a time and a cap out of reach, which a concurrent server does not grant, so a theorem under these hypotheses
would promise more than it says; the run shows that no sequence of requests, each aborted anywhere, leaves a usable token. Every other safety property of a passing run has its theorem. The type invariants and `NoFalseRevocation`
are proved and are in no run.

## 5. What the code does that no run carries

Stated as definitions in the modules and violated there when put in a cfg; each was seen as a TLC
counterexample:

- `RefreshTokens!RotationNeverEscapes`: `updateMany` visits the rows committed when it starts; a rotation that commits afterwards leaves a live child
  in a session that a password reset has revoked (`session.repository.ts:61`, whose comment at line 37 promises to "catch all tokens ever issued for the session").
- `WebhookDelivery!FanOutComplete`: a flow starts `dispatchWebhookEvent` on its own transaction without awaiting it; when the transaction
  commits first the event is lost (`revoke-credential.flow.ts:48`).
- `AccessBlocklist!RevokedIsBlocked`: the `RevokedJti` insert of `token-revoke.flow.ts:42` is not awaited and may be lost with the Redis write.
- `AccessBlocklist!SuspendedTokensRejected`: logout leaves `AccessToken.revoked = false` next to a `RevokedJti` row; a later suspension
  lists that token again, meets the unique jti, and fails as a whole (`admin.route.ts:36`).
- `CredentialStatus!RevokedRejected`: a revoked credential is accepted. Issuance builds `{vc: {...}}` (`issue-credential.flow.ts:95`) and signing puts that into another `vc`
  (`signing.service.ts:59`); `verify-credential.flow.ts:86` opens one, and finds neither `credentialStatus` nor the expiry (line 92 on). `verify-present.route.ts:38` says
  "checks credential validity (signature, expiry, revocation)". An SD-JWT, which is signed without `iss`, is refused.
- `Tenancy!DeletionCascades`: a flow somebody has begun cannot be deleted, nor its project. The comments of `onboarding.service.ts:86` and `project.service.ts:104` count on
  `onDelete: Cascade`; `schema.prisma:523` has none, and the migration creates the key with `ON DELETE RESTRICT`.
- `Tenancy`: of two advances that overlap the later write drops the other's step (`exposed`, `onboarding.service.ts:152`).
- `CredentialStatus!RevocationVisible`: of two overlapping revocations on one list the later write drops the other's bit (`status-list.service.ts:88`).
- `CredentialStatus!OfferIssuesOnce`: two overlapping acceptances of one offer both issue (`offer-credential.flow.ts:133`).

Read while modelling, and part of the models where they touch the state:

- *Sessions.* A password reset does not reach the tokens of sessions the cap has evicted (`session.repository.ts:43` filters `valid: true`). Two logins may
  together exceed `maxSessionsPerUser` (`session.service.ts:67`). A token issued between the list and the transaction of DELETE /sessions/:id is marked but
  not blocked. POST /mfa/recovery makes an ended session valid again and, like the passkey sign-in, does not look at
  the identity's status. A context switch rotates the identity's newest valid session and not the caller's (`switch-context.route.ts:42`). A step-up
  accepts any passkey that is registered, since neither `step-up.service.ts:196` nor `passkey.service.ts:83` compares its owner. Sessions from a magic link or a social provider are not asked for a second factor.
- *Lockout.* The thresholds of 10 and 20 failures are reached only by concurrent requests or after Redis errors, since the lock of the first usually outlives the counter. A request whose EXPIRE comes after
  another one has set the lock makes the counter outlive it; the next wrong password then locks at once. The
  TTL of the lock is read and then set; a crash between INCR and EXPIRE leaves a counter without a TTL.
- *Federation.* The state cookie is not bound to a provider. A connection that is deleted and created again has a new id, so an identity it provisioned with an
  unverified address is answered with 409; the same happens to one that unlinks its only account, which nothing prevents.
  Provisioning does not look at the member cap. The error messages point to linking from the account settings, for which there is no route. PATCH of a connection changes neither protocol nor `enabled`.
  The comment "pure signing, no writes" at `social.route.ts:220` is about `TokenService.issue`, which writes three tables.
- *Tenants.* `createTenantFlow` counts every membership of the caller, SYSTEM's included, so a FREE caller can never create a tenant. PATCH of an endpoint
  enables it without a look at the cap. `activateFromProvider` never clears `endsAt`; events applied out of order leave the wrong plan. `completedAt` of an onboarding is never cleared, and starting
  one does not ask for membership.
- *OAuth.* What run `oauth_exchange` shows of the exchange is true of client_credentials: they pass the client's row id where `TokenService.issue` looks up the public `clientId`
  (`token-exchange.flow.ts:131`, `:183`, `token.service.ts:107`) and so fail; the tests mock `issue`. The body schema of POST /token drops `state`, so a code issued with one never matches. PATCH of a client
  writes the create defaults for what the body omits. A client that begins to require PKCE after a code was issued reaches the branch that `token-exchange.flow.ts:63` calls impossible. The `redirect_uri` of an exchange
  need only be registered.
- *Keys and DIDs.* POST signing-keys exports a key that is not extractable; `did.route.ts` publishes a key it throws away, and
  `provision-tenant-did.flow.ts`, which would repair that, is wired to no route; the seed stores PEM text where signing expects DER.
- *External identifiers.* The flow schemas require `identityId` (`link-external-id.flow.ts:19`), which the routes never pass
  (`external-id.route.ts:53`, `:120`). Clearing an expired code is rolled back by the error that reports it (`confirm-identifier.flow.ts:62`).
- *Status lists.* Once the oldest list is full every issuance creates a list (`status-list.service.ts:30`).

## 6. Not modelled

- Tenant creation and policies: what the first bullet on tenants leaves of it is one insert.
- External identifiers and delegations: the first always fail; a delegation is one insert and one conditional update.
- Creation of signing keys, wallet and tenant DIDs: see above; only the revocation of a key under running issuances has anything to interleave with.
- The signature counter of a passkey: the comparison is the library's.
- The isolation filter, the audit trail, rate limiting: filters and append-only inserts without state of their own.
- Cryptography, KMS, mail, notifications, console, SDK, seed: pure calls and I/O.

## 7. Plan

1. More abstract specifications, each with its run and its theorem in the module's proofs: a queue with a single owner per event, implemented by `WebhookDelivery`
   while nobody is paused; a one-time link, implemented by `EmailTokens`; an account with one owner, implemented by `Federation`.
2. The session cap as a property, and tenant creation once it can succeed.
