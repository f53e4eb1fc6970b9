------------------------------- MODULE SignIn -------------------------------
(***************************************************************************)
(* How one identity signs in and proves itself again: password with the    *)
(* per-address lockout in Redis, TOTP and recovery codes, passkeys and     *)
(* their challenges, step-up, and the operations that need an elevated     *)
(* session.  A request is a sequence of awaited calls; each of them is an  *)
(* action, and the steps of other requests come between them.              *)
(*                                                                         *)
(* Refresh tokens, eviction and the blocklist are in RefreshTokens and     *)
(* AccessBlocklist.  Here a session is a row and what its holder can do.   *)
(***************************************************************************)
EXTENDS Naturals, Sequences, FiniteSets

CONSTANTS
  Session, Code, Challenge, Passkey,  \* rows and challenges there may be (bounds)
  Req,           \* requests the server handles at the same time
  None,
  Threshold,     \* failures that lock: <<5, 10, 20>> in the code
  LockTtl,       \* for how long, in ticks: <<900, 3600, 86400>> seconds
  Window,        \* lifetime of the failure counter: 900 seconds
  RequireMfa,    \* TenantPolicy.requireMfa of SYSTEM
  MaxErrors,     \* Redis errors and dead requests (a bound)
  Theme          \* sets of operations that one behaviour uses (a bound)

Ceremony == {"registration", "authentication"}

ASSUME SignInAssumption ==
  /\ Threshold \in Seq(Nat \ {0}) /\ LockTtl \in Seq(Nat \ {0})
  /\ Len(Threshold) = Len(LockTtl) /\ Len(Threshold) > 0
  /\ \A i, j \in 1..Len(Threshold) :
       i < j => Threshold[i] < Threshold[j] /\ LockTtl[i] < LockTtl[j]
  /\ Window \in Nat \ {0} /\ Window <= LockTtl[1]
  /\ RequireMfa \in BOOLEAN /\ MaxErrors \in Nat
  /\ None \notin Session \cup Code \cup Challenge \cup Passkey
  /\ IsFiniteSet(Req)

VARIABLES
  theme,      \* the operations of this behaviour, never changed
  fails,      \* Redis: failure counter, 0 when the key is absent
  failTtl,    \* Redis: ticks left to the counter, 0 when it has no TTL
  lockTtl,    \* Redis: ticks left to the lock, 0 when there is none
  clearing,   \* un-awaited DELs of the two keys still on their way
  password,   \* the identity has a LocalAccount
  status,     \* of the identity
  totp,       \* its Mfa row: none, off (not confirmed, or disabled), on
  code,       \* MfaRecoveryCode rows
  passkeys,   \* registered passkeys
  stored,     \* the challenge store, per ceremony
  issued,     \* challenges that clients have been given
  session,    \* Session rows
  req,        \* requests in progress
  guesses,    \* history: wrong passwords since counter or lock was reset or expired
  errors,     \* history: Redis errors and requests that died
  used,       \* history: recovery codes, how often each signed in
  raced,      \* history: codes that two requests have held at once
  spent,      \* history: challenges, how often each was accepted
  collided,   \* history: two deletions of passkeys have overlapped
  refused     \* history: a login could not be completed by its TOTP code

lockout == <<fails, failTtl, lockTtl, clearing, guesses>>
factors == <<password, status, totp, code, passkeys, stored, issued>>
history == <<used, raced, spent, collided, refused>>
vars == <<theme, lockout, factors, session, req, errors, history>>

Row == [made: BOOLEAN, valid: BOOLEAN, expired: BOOLEAN, aal2: BOOLEAN,
        elevated: BOOLEAN,    \* elevatedAt is within STEP_UP_WINDOW_MS
        known: BOOLEAN,       \* its id has been returned to the client
        bearer: BOOLEAN,      \* access tokens with this sid were issued
        pending: BOOLEAN,     \* a login left it invalid until MFA
        revoked: BOOLEAN,     \* history: a logout or a suspension ended it
        via: {"none", "password", "passkey", "recovery"}]

NoRow == [made |-> FALSE, valid |-> FALSE, expired |-> FALSE, aal2 |-> FALSE,
          elevated |-> FALSE, known |-> FALSE, bearer |-> FALSE, pending |-> FALSE,
          revoked |-> FALSE, via |-> "none"]

Pc == {"idle", "password", "incr", "expire", "ttl", "lock", "session", "issue",
       "promote", "code", "mark", "revive", "supersede", "confirm", "disable",
       "prove", "elevate", "consume", "register", "assert", "enter", "delete"}

Op == {"none", "login", "mfa", "registration", "authentication", "passkey", "stepUp"}

Request == [pc: Pc, op: Op, s: Session \cup {None}, c: Code \cup {None},
            k: Passkey \cup {None}, ch: Challenge \cup {None}, n: Nat,
            mfa: BOOLEAN, scan: SUBSET Code]

Idle == [pc |-> "idle", op |-> "none", s |-> None, c |-> None, k |-> None, ch |-> None,
         n |-> 0, mfa |-> FALSE, scan |-> {}]

TypeOK ==
  /\ theme \in Theme
  /\ fails \in Nat /\ failTtl \in 0..Window /\ (fails = 0 => failTtl = 0)
  /\ lockTtl \in 0..LockTtl[Len(LockTtl)]
  /\ clearing \in [{"fail", "lock"} -> Nat]
  /\ password \in BOOLEAN /\ status \in {"ACTIVE", "SUSPENDED"}
  /\ totp \in {"none", "off", "on"}
  /\ code \in [Code -> {"free", "unused", "used"}]
  /\ passkeys \subseteq Passkey
  /\ stored \in [Ceremony -> Challenge \cup {None}] /\ issued \subseteq Challenge
  /\ session \in [Session -> Row]
  /\ \A s \in Session : session[s].valid \/ session[s].known => session[s].made
  /\ req \in [Req -> Request]
  /\ guesses \in Nat /\ errors \in Nat
  /\ used \in [Code -> Nat] /\ raced \subseteq Code /\ spent \in [Challenge -> Nat]
  /\ collided \in BOOLEAN /\ refused \in BOOLEAN

\* A registered identity, with a password or (federated) without one.
Init ==
  /\ theme \in Theme
  /\ fails = 0 /\ failTtl = 0 /\ lockTtl = 0
  /\ clearing = [k \in {"fail", "lock"} |-> 0]
  /\ password \in BOOLEAN /\ ("login" \in theme => password)
  /\ status = "ACTIVE" /\ totp = "none"
  /\ code = [c \in Code |-> "free"]
  /\ passkeys = {}
  /\ stored = [m \in Ceremony |-> None] /\ issued = {}
  /\ session \in
       {[s \in Session |-> IF s = f /\ "login" \notin theme
                             THEN [NoRow EXCEPT !.made = TRUE, !.valid = TRUE, !.known = TRUE,
                                                !.bearer = TRUE, !.via = "password"]
                             ELSE NoRow] : f \in Session}
  /\ req = [r \in Req |-> Idle]
  /\ guesses = 0 /\ errors = 0
  /\ used = [c \in Code |-> 0] /\ raced = {} /\ spent = [h \in Challenge |-> 0]
  /\ collided = FALSE /\ refused = FALSE

-----------------------------------------------------------------------------
Put(r, x) == req' = [req EXCEPT ![r] = x]
Goto(r, p) == Put(r, [req[r] EXCEPT !.pc = p])
Finish(r) == Put(r, Idle)
Start(r, o, p) == req[r].pc = "idle" /\ o \in theme /\ Put(r, [Idle EXCEPT !.pc = p, !.op = o])

\* A session (a recovery code) is left for the request; a bound.
RoomFor(r) ==
  Cardinality({s \in Session : ~session[s].made}) >
  Cardinality({q \in Req \ {r} : req[q].op = "authentication" \/ req[q].pc \in {"password", "session"}})
CodesFor(r) ==
  Cardinality({c \in Code : code[c] = "free"}) >
  Cardinality({q \in Req \ {r} : req[q].pc \in {"supersede", "confirm"}})

Live(s) == session[s].valid /\ ~session[s].expired
SignedIn == \E s \in Session : session[s].bearer
\* requireElevated: the sid of the access token names a live, elevated session.
Elevated == \E s \in Session : session[s].bearer /\ Live(s) /\ session[s].aal2 /\ session[s].elevated

-----------------------------------------------------------------------------
\* Password login.

\* checkLockout; a Redis error lets the request through.
LoginCheck(r) ==
  /\ Start(r, "login", "password")
  /\ RoomFor(r) \/ "wrong" \in theme
  /\ IF lockTtl = 0 THEN UNCHANGED errors
                    ELSE errors < MaxErrors /\ errors' = errors + 1
  /\ UNCHANGED <<theme, lockout, factors, session, history>>

\* The identity is read (status, enabled factors), then the password verified.
LoginWrong(r) ==
  /\ req[r].pc = "password" /\ "wrong" \in theme
  /\ status = "ACTIVE"
  /\ guesses' = guesses + 1
  /\ Goto(r, "incr")
  /\ UNCHANGED <<theme, fails, failTtl, lockTtl, clearing, factors, session, errors, history>>

\* clearAttempts, not awaited; where no wrong passwords are modelled there is
\* nothing to delete.
Clear == IF "wrong" \in theme THEN [k \in {"fail", "lock"} |-> clearing[k] + 1] ELSE clearing

\* A right password: the session is next.
LoginRight(r) ==
  /\ req[r].pc = "password" /\ RoomFor(r)
  /\ status = "ACTIVE"
  /\ clearing' = Clear
  /\ Put(r, [req[r] EXCEPT !.pc = "session", !.mfa = RequireMfa \/ totp = "on"])
  /\ UNCHANGED <<theme, fails, failTtl, lockTtl, guesses, factors, session, errors, history>>

LoginRefused(r) ==
  /\ req[r].pc = "password"
  /\ status = "SUSPENDED"
  /\ Finish(r)
  /\ UNCHANGED <<theme, lockout, factors, session, errors, history>>

\* sessionService.create: the row is valid when it is inserted.
LoginSession(r) ==
  /\ req[r].pc = "session"
  /\ \E s \in Session :
       /\ ~session[s].made
       /\ session' = [session EXCEPT ![s] = [NoRow EXCEPT !.made = TRUE, !.valid = TRUE,
                        !.via = "password"]]
       /\ Put(r, [req[r] EXCEPT !.pc = "issue", !.s = s])
  /\ UNCHANGED <<theme, lockout, factors, errors, history>>

\* With MFA the session is made invalid and no tokens are issued.
LoginIssue(r) ==
  /\ req[r].pc = "issue"
  /\ session' = [session EXCEPT ![req[r].s] =
       IF req[r].mfa THEN [@ EXCEPT !.valid = FALSE, !.known = TRUE, !.pending = TRUE]
                     ELSE [@ EXCEPT !.known = TRUE, !.bearer = TRUE]]
  /\ Finish(r)
  /\ UNCHANGED <<theme, lockout, factors, errors, history>>

-----------------------------------------------------------------------------
\* recordFailure, one Redis command at a time.

RecordIncr(r) ==
  /\ req[r].pc = "incr"
  /\ fails' = fails + 1
  /\ Put(r, [req[r] EXCEPT !.pc = "expire", !.n = fails + 1])
  /\ UNCHANGED <<theme, failTtl, lockTtl, clearing, guesses, factors, session, errors, history>>

\* EXPIRE of a key that is gone does nothing.
RecordExpire(r) ==
  /\ req[r].pc = "expire"
  /\ failTtl' = IF fails > 0 THEN Window ELSE 0
  /\ IF req[r].n >= Threshold[1] THEN Goto(r, "ttl") ELSE Finish(r)
  /\ UNCHANGED <<theme, fails, lockTtl, clearing, guesses, factors, session, errors, history>>

\* lockoutTtlSeconds of the count INCR returned, by the number of thresholds met.
TtlOf(n) == LockTtl[Cardinality({i \in DOMAIN Threshold : n >= Threshold[i]})]

\* Mutant: the comparison is off by one.
RecordTtlLate(r) ==
  /\ req[r].pc = "ttl"
  /\ IF req[r].n > Threshold[1] + 1 THEN Put(r, [req[r] EXCEPT !.pc = "lock", !.n = TtlOf(@)])
                                    ELSE Finish(r)
  /\ UNCHANGED <<theme, lockout, factors, session, errors, history>>

\* The lock is left alone when it lasts at least as long.
RecordTtl(r) ==
  /\ req[r].pc = "ttl"
  /\ IF lockTtl < TtlOf(req[r].n)
       THEN Put(r, [req[r] EXCEPT !.pc = "lock", !.n = TtlOf(@)])
       ELSE Finish(r)
  /\ UNCHANGED <<theme, lockout, factors, session, errors, history>>

RecordLock(r) ==
  /\ req[r].pc = "lock"
  /\ lockTtl' = req[r].n
  /\ Finish(r)
  /\ UNCHANGED <<theme, fails, failTtl, clearing, guesses, factors, session, errors, history>>

\* One of the two un-awaited DELs of clearAttempts arrives, or is lost.
ClearAttempts(k) ==
  /\ clearing[k] > 0
  /\ clearing' = [clearing EXCEPT ![k] = @ - 1]
  /\ \/ /\ k = "fail" /\ fails' = 0 /\ failTtl' = 0 /\ guesses' = 0 /\ UNCHANGED lockTtl
     \/ /\ k = "lock" /\ lockTtl' = 0 /\ guesses' = 0 /\ UNCHANGED <<fails, failTtl>>
     \/ UNCHANGED <<fails, failTtl, lockTtl, guesses>>
  /\ UNCHANGED <<theme, factors, session, req, errors, history>>

\* Time passes for both keys; a counter without a TTL stays.
Tick ==
  /\ failTtl > 0 \/ lockTtl > 0
  /\ failTtl' = IF failTtl > 0 THEN failTtl - 1 ELSE 0
  /\ lockTtl' = IF lockTtl > 0 THEN lockTtl - 1 ELSE 0
  /\ fails' = IF failTtl = 1 THEN 0 ELSE fails
  /\ guesses' = IF failTtl = 1 \/ lockTtl = 1 THEN 0 ELSE guesses
  /\ UNCHANGED <<theme, clearing, factors, session, req, errors, history>>

-----------------------------------------------------------------------------
\* TOTP and recovery codes.

\* The row is unique per identity and type.
SetupTotp == totp = "none" /\ totp' = "off"

MfaSetup ==
  /\ "mfa" \in theme /\ SignedIn
  /\ SetupTotp
  /\ UNCHANGED <<theme, lockout, password, status, code, passkeys, stored, issued, session, req, errors, history>>

\* mfaConfirmFlow, in a transaction: the row that is not enabled and its code ...
ConfirmTotp(r) ==
  /\ Start(r, "mfa", "supersede")
  /\ SignedIn /\ totp = "off" /\ CodesFor(r)
  /\ UNCHANGED <<theme, lockout, factors, session, errors, history>>

\* ... then the unused codes that generateRecoveryCodes sees ...
GenerateCodes(r) ==
  /\ req[r].pc = "supersede"
  /\ Put(r, [req[r] EXCEPT !.pc = "confirm", !.scan = {c \in Code : code[c] = "unused"}])
  /\ UNCHANGED <<theme, lockout, factors, session, errors, history>>

\* ... and its commit: the factor is on, they are used, a new set is there.
MfaConfirmed(r) ==
  /\ req[r].pc = "confirm"
  /\ totp' = "on"
  /\ \E new \in Code :
       /\ code[new] = "free"
       /\ code' = [c \in Code |-> IF c = new THEN "unused"
                                  ELSE IF c \in req[r].scan THEN "used" ELSE code[c]]
  /\ Finish(r)
  /\ UNCHANGED <<theme, lockout, password, status, passkeys, stored, issued, session, errors, history>>

MfaConfirm(r) == ConfirmTotp(r) \/ GenerateCodes(r) \/ MfaConfirmed(r)

\* mfaVerifyFlow with a right code.  The session must be valid.
MfaVerify(r, s) ==
  /\ req[r].pc = "idle" /\ "mfa" \in theme
  /\ session[s].known /\ totp = "on"
  /\ IF session[s].valid
       THEN /\ Put(r, [Idle EXCEPT !.pc = "promote", !.op = "mfa", !.s = s])
            /\ UNCHANGED refused
       ELSE /\ UNCHANGED req
            /\ refused' = (refused \/ (session[s].pending /\ ~session[s].revoked
                                         /\ ~session[s].expired /\ ~session[s].bearer))
  /\ UNCHANGED <<theme, lockout, factors, session, errors, used, raced, spent, collided>>

\* Mutant: completing MFA makes the session valid, whatever happened to it.
MfaPromoteValid(r) ==
  /\ req[r].pc = "promote"
  /\ session' = [session EXCEPT ![req[r].s].valid = TRUE, ![req[r].s].aal2 = TRUE,
                                ![req[r].s].bearer = TRUE]
  /\ Finish(r)
  /\ UNCHANGED <<theme, lockout, factors, errors, history>>

\* The update is by id, and leaves valid alone.
PromoteToAal2(s) == [session EXCEPT ![s].aal2 = TRUE]

\* It and the tokens are one transaction.
MfaPromote(r) ==
  /\ req[r].pc = "promote"
  /\ session' = [PromoteToAal2(req[r].s) EXCEPT ![req[r].s].bearer = TRUE]
  /\ Finish(r)
  /\ UNCHANGED <<theme, lockout, factors, errors, history>>

MfaVerification(r) == MfaPromote(r) \/ \E s \in Session : MfaVerify(r, s)

\* POST /mfa/recovery, outside a transaction: the session, valid or not ...
Recovery(r, s) ==
  /\ req[r].pc = "idle" /\ "mfa" \in theme
  /\ session[s].known /\ ~session[s].expired
  /\ Put(r, [Idle EXCEPT !.pc = "code", !.op = "mfa", !.s = s])
  /\ UNCHANGED <<theme, lockout, factors, session, errors, history>>

\* ... consumeRecoveryCode finds an unused code, or the request is refused ...
FindCode(r, c) ==
  /\ req[r].pc = "code"
  /\ IF code[c] = "unused" THEN Put(r, [req[r] EXCEPT !.pc = "mark", !.c = c]) ELSE Finish(r)
  /\ raced' = raced \cup {x \in {c} : \E q \in Req \ {r} : req[q].c = x}
  /\ UNCHANGED <<theme, lockout, factors, session, errors, used, spent, collided, refused>>

\* Mutant: the code is left unused.
MarkNoCode(r) ==
  /\ req[r].pc = "mark"
  /\ Goto(r, "revive")
  /\ UNCHANGED <<theme, lockout, factors, session, errors, history>>

\* ... and marks it by id ...
MarkCode(r) ==
  /\ req[r].pc = "mark"
  /\ code' = [code EXCEPT ![req[r].c] = "used"]
  /\ Goto(r, "revive")
  /\ UNCHANGED <<theme, lockout, password, status, totp, passkeys, stored, issued, session, errors, history>>

\* ... then a transaction makes the session valid and issues tokens.
Revive(r) ==
  /\ req[r].pc = "revive"
  /\ session' = [session EXCEPT ![req[r].s] =
       [@ EXCEPT !.valid = TRUE, !.aal2 = TRUE, !.bearer = TRUE, !.via = "recovery"]]
  /\ used' = [used EXCEPT ![req[r].c] = @ + 1]
  /\ Finish(r)
  /\ UNCHANGED <<theme, lockout, factors, errors, raced, spent, collided, refused>>

\* DELETE /mfa/disable: requireElevated, then every factor is switched off.
DisableMfa(r) ==
  /\ Start(r, "mfa", "disable")
  /\ Elevated
  /\ UNCHANGED <<theme, lockout, factors, session, errors, history>>

DisableAll(r) ==
  /\ req[r].pc = "disable"
  /\ totp' = IF totp = "on" THEN "off" ELSE totp
  /\ Finish(r)
  /\ UNCHANGED <<theme, lockout, password, status, code, passkeys, stored, issued, session, errors, history>>

-----------------------------------------------------------------------------
\* Passkeys.

\* A challenge nobody has seen replaces the one stored for the ceremony.
StoreChallenge(m, h) ==
  /\ h \notin issued
  /\ issued' = issued \cup {h}
  /\ stored' = [stored EXCEPT ![m] = h]

\* POST /passkey/options/register and /passkey/options/authenticate.
PasskeyOptions(m, h) ==
  /\ "passkey" \in theme
  /\ m = "registration" => SignedIn
  /\ StoreChallenge(m, h)
  /\ UNCHANGED <<theme, lockout, password, status, totp, code, passkeys, session, req, errors, history>>

ChallengeExpires(m) ==
  /\ stored[m] # None
  /\ stored' = [stored EXCEPT ![m] = None]
  /\ UNCHANGED <<theme, lockout, password, status, totp, code, passkeys, issued, session, req, errors, history>>

\* The client answers challenge h: to register, to sign in with a passkey the
\* server knows, or to step up a live session.
PasskeyRegister(r, h) ==
  /\ req[r].pc = "idle" /\ "passkey" \in theme
  /\ SignedIn /\ h \in issued
  /\ Put(r, [Idle EXCEPT !.pc = "consume", !.op = "registration", !.ch = h])
  /\ UNCHANGED <<theme, lockout, factors, session, errors, history>>

PasskeyAuthenticate(r, k, h) ==
  /\ req[r].pc = "idle" /\ "passkey" \in theme
  /\ k \in passkeys /\ h \in issued /\ RoomFor(r)
  /\ Put(r, [Idle EXCEPT !.pc = "consume", !.op = "authentication", !.k = k, !.ch = h])
  /\ UNCHANGED <<theme, lockout, factors, session, errors, history>>

\* Mutant: the stored challenge is read and kept.
ConsumeChallengeGet(r) ==
  LET m == IF req[r].op = "registration" THEN "registration" ELSE "authentication" IN
  /\ req[r].pc = "consume"
  /\ IF stored[m] = req[r].ch
       THEN /\ Goto(r, CASE req[r].op = "registration" -> "register"
                         [] req[r].op = "authentication" -> "assert"
                         [] OTHER -> "elevate")
            /\ spent' = [spent EXCEPT ![req[r].ch] = @ + 1]
       ELSE Finish(r) /\ UNCHANGED spent
  /\ UNCHANGED <<theme, lockout, factors, session, errors, used, raced, collided, refused>>

\* GETDEL of the ceremony's key, then the challengeId is compared; the stored
\* challenge is gone either way.
ConsumeChallenge(r) ==
  LET m == IF req[r].op = "registration" THEN "registration" ELSE "authentication" IN
  /\ req[r].pc = "consume"
  /\ stored' = [stored EXCEPT ![m] = None]
  /\ IF stored[m] = req[r].ch
       THEN /\ Goto(r, CASE req[r].op = "registration" -> "register"
                         [] req[r].op = "authentication" -> "assert"
                         [] OTHER -> "elevate")
            /\ spent' = [spent EXCEPT ![req[r].ch] = @ + 1]
       ELSE Finish(r) /\ UNCHANGED spent
  /\ UNCHANGED <<theme, lockout, password, status, totp, code, passkeys, issued, session,
                 errors, used, raced, collided, refused>>

\* The insert fails when the credentialId, which is unique, is there already.
VerifyRegistration(k) == passkeys' = passkeys \cup {k}

StorePasskey(r, k) ==
  /\ req[r].pc = "register"
  /\ VerifyRegistration(k)
  /\ Finish(r)
  /\ UNCHANGED <<theme, lockout, password, status, totp, code, stored, issued, session, errors, history>>

\* verifyAuthentication reads the passkey again; it may be gone.
VerifyAssertion(r) ==
  /\ req[r].pc = "assert"
  /\ IF req[r].k \in passkeys THEN Goto(r, "enter") ELSE Finish(r)
  /\ UNCHANGED <<theme, lockout, factors, session, errors, history>>

\* Session at aal2 and tokens commit together; the status is not looked at.
PasskeyEnter(r) ==
  /\ req[r].pc = "enter"
  /\ \E s \in Session :
       /\ ~session[s].made
       /\ session' = [session EXCEPT ![s] = [NoRow EXCEPT !.made = TRUE, !.valid = TRUE,
                        !.known = TRUE, !.bearer = TRUE, !.aal2 = TRUE, !.via = "passkey"]]
  /\ Finish(r)
  /\ UNCHANGED <<theme, lockout, factors, errors, history>>

\* The two routes over these steps, but for the challenge both consume.
PasskeyRegistration(r) ==
  (\E h \in Challenge : PasskeyRegister(r, h)) \/ (\E k \in Passkey : StorePasskey(r, k))

PasskeyAuthentication(r) ==
  \/ \E h \in Challenge, k \in Passkey : PasskeyAuthenticate(r, k, h)
  \/ VerifyAssertion(r) \/ PasskeyEnter(r)

\* Mutant: the last passkey may go.
DeletePasskeyAny(r, k) ==
  /\ req[r].pc = "idle" /\ "passkey" \in theme
  /\ Elevated /\ k \in passkeys
  /\ Put(r, [Idle EXCEPT !.pc = "delete", !.op = "passkey", !.k = k])
  /\ UNCHANGED <<theme, lockout, factors, session, errors, history>>

\* DELETE /passkey/:id: requireElevated, ownership, the two counts ...
DeletePasskey(r, k) ==
  /\ req[r].pc = "idle" /\ "passkey" \in theme
  /\ Elevated /\ k \in passkeys
  /\ Cardinality(passkeys) > 1 \/ password
  /\ Put(r, [Idle EXCEPT !.pc = "delete", !.op = "passkey", !.k = k])
  /\ collided' = (collided \/ \E q \in Req \ {r} : req[q].pc = "delete")
  /\ UNCHANGED <<theme, lockout, factors, session, errors, used, raced, spent, refused>>

\* ... and the deletion by id.
DeleteById(r) ==
  /\ req[r].pc = "delete"
  /\ passkeys' = passkeys \ {req[r].k}
  /\ Finish(r)
  /\ UNCHANGED <<theme, lockout, password, status, totp, code, stored, issued, session, errors, history>>

-----------------------------------------------------------------------------
\* Step-up.

\* The verifiers of the password and of the TOTP code only read.
Proves(method) ==
  \/ method = "password" /\ password
  \/ method = "totp" /\ totp = "on"

\* POST /step-up: the session must be live and the caller's own.
StepUp(r, s, method) ==
  /\ req[r].pc = "idle" /\ "stepUp" \in theme
  /\ SignedIn /\ session[s].known /\ Live(s)
  /\ Proves(method)
  /\ Put(r, [Idle EXCEPT !.pc = "elevate", !.op = "stepUp", !.s = s])
  /\ UNCHANGED <<theme, lockout, factors, session, errors, history>>

\* The assertion's passkey is looked up by its credential id alone: it may be
\* anybody's, so it does not matter which ones the identity has.
StepUpPasskey(r, s, h) ==
  /\ req[r].pc = "idle" /\ {"stepUp", "passkey"} \subseteq theme
  /\ SignedIn /\ session[s].known /\ Live(s)
  /\ h \in issued
  /\ Put(r, [Idle EXCEPT !.pc = "consume", !.op = "stepUp", !.s = s, !.ch = h])
  /\ UNCHANGED <<theme, lockout, factors, session, errors, history>>

\* Mutant: the session is elevated by id.
ElevateById(r) ==
  /\ req[r].pc = "elevate"
  /\ session' = [session EXCEPT ![req[r].s].aal2 = TRUE, ![req[r].s].elevated = TRUE]
  /\ Finish(r)
  /\ UNCHANGED <<theme, lockout, factors, errors, history>>

\* The conditional update; count 0 answers 403.
Elevate(r) ==
  /\ req[r].pc = "elevate"
  /\ session' = IF Live(req[r].s)
       THEN [session EXCEPT ![req[r].s].aal2 = TRUE, ![req[r].s].elevated = TRUE]
       ELSE session
  /\ Finish(r)
  /\ UNCHANGED <<theme, lockout, factors, errors, history>>

-----------------------------------------------------------------------------
\* What happens meanwhile.

WindowPasses(s) ==
  /\ session[s].elevated
  /\ session' = [session EXCEPT ![s].elevated = FALSE]
  /\ UNCHANGED <<theme, lockout, factors, req, errors, history>>

ExpireSession(s) ==
  /\ "expire" \in theme /\ session[s].known /\ ~session[s].expired
  /\ session' = [session EXCEPT ![s].expired = TRUE]
  /\ UNCHANGED <<theme, lockout, factors, req, errors, history>>

\* Logout, DELETE /sessions, a password change or reset.
RevokeSession(s) ==
  /\ "revoke" \in theme /\ session[s].known /\ session[s].valid
  /\ session' = [session EXCEPT ![s].valid = FALSE, ![s].revoked = TRUE]
  /\ UNCHANGED <<theme, lockout, factors, req, errors, history>>

\* An administrator suspends the identity, with all its sessions, or reinstates it.
Suspend ==
  /\ "suspend" \in theme /\ status = "ACTIVE"
  /\ status' = "SUSPENDED"
  /\ session' = [s \in Session |->
       IF session[s].valid THEN [session[s] EXCEPT !.valid = FALSE, !.revoked = TRUE] ELSE session[s]]
  /\ UNCHANGED <<theme, lockout, password, totp, code, passkeys, stored, issued, req, errors, history>>

Reinstate ==
  /\ "suspend" \in theme /\ status = "SUSPENDED"
  /\ status' = "ACTIVE"
  /\ UNCHANGED <<theme, lockout, password, totp, code, passkeys, stored, issued, session, req, errors, history>>

\* The process dies, a Redis command or a statement fails; the transaction of
\* a flow is rolled back, single statements stay.
Abort(r) ==
  /\ req[r].pc # "idle"
  /\ errors < MaxErrors
  /\ errors' = errors + 1
  /\ Finish(r)
  /\ UNCHANGED <<theme, lockout, factors, session, history>>

\* POST /login, its flow run without a transaction.
Login(r) ==
  \/ LoginCheck(r) \/ LoginWrong(r) \/ LoginRight(r) \/ LoginRefused(r)
  \/ LoginSession(r) \/ LoginIssue(r)

RequestStep(r) ==
  \/ Login(r) \/ RecordIncr(r) \/ RecordExpire(r) \/ RecordTtl(r) \/ RecordLock(r)
  \/ MfaConfirm(r) \/ MfaVerification(r)
  \/ \E s \in Session : Recovery(r, s)
  \/ \E c \in Code : FindCode(r, c)
  \/ MarkCode(r) \/ Revive(r) \/ DisableMfa(r) \/ DisableAll(r)
  \/ PasskeyRegistration(r) \/ PasskeyAuthentication(r) \/ ConsumeChallenge(r)
  \/ \E h \in Challenge, s \in Session : StepUpPasskey(r, s, h)
  \/ \E k \in Passkey : DeletePasskey(r, k)
  \/ DeleteById(r)
  \/ \E s \in Session, m \in {"password", "totp"} : StepUp(r, s, m)
  \/ Elevate(r) \/ Abort(r)

Next ==
  \/ \E r \in Req : RequestStep(r)
  \/ \E k \in {"fail", "lock"} : ClearAttempts(k)
  \/ Tick \/ MfaSetup \/ Suspend \/ Reinstate
  \/ \E m \in Ceremony, h \in Challenge : PasskeyOptions(m, h)
  \/ \E m \in Ceremony : ChallengeExpires(m)
  \/ \E s \in Session : WindowPasses(s) \/ ExpireSession(s) \/ RevokeSession(s)

Spec == Init /\ [][Next]_vars

-----------------------------------------------------------------------------
\* The lockout holds against requests that run side by side: wrong passwords
\* are verified at most up to the first threshold, plus one for each further
\* request that had passed checkLockout, plus one for each Redis error, until
\* the counter or the lock expires or a success clears them.
GuessesBounded == guesses <= Threshold[1] + Cardinality(Req) - 1 + errors

\* A recovery code signs in twice only if two requests held it at once.
CodeOnce == \A c \in Code : used[c] <= 1 \/ c \in raced

\* A session that was ended comes back only through a recovery code, whatever
\* MFA verification, step-up or login was under way when it was ended.
EndedStaysEnded == \A s \in Session :
  session[s].revoked /\ session[s].valid => session[s].via = "recovery"

\* A step-up never lands on a session that was revoked or expired while the
\* credential was being verified (step-up.service.ts ll. 22-33).
ElevationOnLive ==
  [][\A s \in Session : session'[s].elevated /\ ~session[s].elevated => Live(s)]_vars

\* A challenge is accepted once: by one registration, sign-in or step-up,
\* also when they are answered at the same time.
ChallengeOnce == \A h \in Challenge : spent[h] <= 1

\* The last passkey of an account without a password is not deleted, unless
\* two deletions overlapped: the counts are read before the row goes.
KeepsAWayIn ==
  [][passkeys # {} /\ passkeys' = {} => password \/ collided]_vars

\* "Verify TOTP MFA code and finalize login": a right TOTP code for the session
\* a login left pending is not refused while the session lasts.
TotpCompletesLogin == ~refused
=============================================================================
