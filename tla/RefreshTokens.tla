---------------------------- MODULE RefreshTokens ----------------------------
(***************************************************************************)
(* Refresh-token rotation and every request that ends a session, as they   *)
(* interleave on PostgreSQL at READ COMMITTED.                             *)
(*                                                                         *)
(* The committed rows are refreshToken and session; everything a request   *)
(* has written inside its open transaction is in req[r] and nobody else    *)
(* sees it before Commit.  A row a transaction has written is locked until *)
(* it ends: an UPDATE that meets the row waits, and then evaluates its     *)
(* WHERE again on the row as committed.  A multi-row UPDATE visits the     *)
(* rows that were committed when the statement began (its snapshot), so    *)
(* it never sees a row inserted by a transaction that commits later.       *)
(*                                                                         *)
(* One identity owns every row: all queries are filtered by token, by      *)
(* session or by identity, so identities do not interact.                  *)
(***************************************************************************)
EXTENDS Naturals, FiniteSets

CONSTANTS
  Token,         \* refresh tokens that may be issued (the bound on issuance)
  SessionBound,  \* number of sessions that may be created
  Req,           \* requests the server handles at the same time
  None,          \* SQL NULL
  MaxSessions,   \* maxSessionsPerUser of the tenant policy
  Ops            \* the operations clients call in this instance

ASSUME NoneAssumption == None \notin Token /\ None \notin Nat
ASSUME BoundAssumption == SessionBound \in Nat /\ MaxSessions \in Nat \ {0}

\* Sessions are numbered in the order of createdAt.
Session == 1..SessionBound

VARIABLES
  refreshToken,  \* committed rows of refresh_tokens
  expired,       \* tokens whose expiresAt has passed
  session,       \* committed rows of sessions
  status,        \* identity.status, "DELETED" once the row is gone
  req,           \* the requests in progress, with their uncommitted writes
  replayed,      \* history: families on which a replay was detected
  closed         \* history: sessions a finished request was to revoke

rows == <<refreshToken, expired, session, status, replayed, closed>>

vars == <<refreshToken, expired, session, status, req, replayed, closed>>

RowState == {"free", "live", "revoked", "deleted"}

OpName == {"login", "refresh", "switch", "logout", "deleteSession", "reset",
           "password", "suspend", "deleteAccount", "revoke", "reinstate", "expire", "cleanup"}

Pc == {"idle", "count", "evict", "create", "issue", "loginBind",
       "identity", "cas", "bind", "commit", "killScan", "kill", "killSession",
       "switchCas", "bound", "offFirst", "scan", "visit", "off", "revokeOne",
       "erase"}

\* One request: what it has read (token, sess, sessions, excess, scan) and
\* what its open transaction has written (writes, child, binds, offs), whose
\* rows it holds locked.  promised is history: the sessions it is to revoke.
Request ==
  [pc: Pc, op: OpName, token: Token \cup {None}, sess: Session \cup {None},
   sessions: SUBSET Session, excess: Nat, scan: SUBSET Token,
   writes: SUBSET Token, child: Token \cup {None},
   binds: BOOLEAN, offs: SUBSET Session, promised: SUBSET Session]

Idle == [pc |-> "idle", op |-> "login", token |-> None, sess |-> None,
         sessions |-> {}, excess |-> 0, scan |-> {}, writes |-> {},
         child |-> None, binds |-> FALSE, offs |-> {}, promised |-> {}]

TypeOK ==
  /\ refreshToken \in [Token -> [state: RowState, parentJti: Token \cup {None},
                                 familyId: Token, sessionId: Session \cup {None}]]
  /\ expired \subseteq Token
  /\ session \in [Session -> [state: {"none", "valid", "invalid", "pruned"},
                              refreshTokenId: Token \cup {None}]]
  /\ status \in {"ACTIVE", "SUSPENDED", "DELETED"}
  /\ req \in [Req -> Request]
  /\ replayed \subseteq Token
  /\ closed \subseteq Session

Init ==
  /\ refreshToken = [t \in Token |-> [state |-> "free", parentJti |-> None,
                                      familyId |-> t, sessionId |-> None]]
  /\ expired = {}
  /\ session = [s \in Session |-> [state |-> "none", refreshTokenId |-> None]]
  /\ status = "ACTIVE"
  /\ req = [r \in Req |-> Idle]
  /\ replayed = {}
  /\ closed = {}

-----------------------------------------------------------------------------
\* Rows, locks and the two ways a transaction ends.

Live(t) == refreshToken[t].state = "live"
Exists(t) == refreshToken[t].state \in {"live", "revoked"}
Valid(s) == session[s].state = "valid"
Pruned == {s \in Session : session[s].state = "pruned"}

\* The row of t is locked by a transaction other than r's.
LockedBy(q, t) == t \in req[q].writes
TokenFree(r, t) == \A q \in Req \ {r} : ~LockedBy(q, t)
SessionFree(r, S) ==
  \A q \in Req \ {r} : /\ req[q].offs \cap S = {}
                       /\ ~(req[q].binds /\ req[q].sess \in S)

\* A token value nobody has: neither stored nor about to be inserted.
Fresh(c) == refreshToken[c].state = "free" /\ \A q \in Req : req[q].child # c

\* Request r becomes x, the others are left alone.
Put(r, x) == req' = [req EXCEPT ![r] = x]

Goto(r, p) == Put(r, [req[r] EXCEPT !.pc = p])

\* A request begins on an idle server slot with operation o.
Begin(r, o, fields) ==
  /\ o \in Ops
  /\ req[r].pc = "idle"
  /\ Put(r, fields)

\* The request answers: its locks are released and whatever it has written
\* and not committed is dropped.
Finish(r) == Put(r, Idle)

\* Mutant: a login leaves familyId NULL (no fallback to the new jti).
NewRowNoFamily(r, c) ==
  [state |-> "live",
   parentJti |-> IF req[r].op = "refresh" THEN req[r].token ELSE None,
   familyId |-> IF req[r].op = "refresh"
                  THEN refreshToken[req[r].token].familyId ELSE None,
   sessionId |-> req[r].sess]

\* Mutant: a rotation is not told its family and starts one of its own.
NewRowOwnFamily(r, c) ==
  [state |-> "live",
   parentJti |-> IF req[r].op = "refresh" THEN req[r].token ELSE None,
   familyId |-> c, sessionId |-> req[r].sess]

\* The row TokenService.issue inserts for r: a rotated token inherits its
\* parent's family, every other one is the root of a family of its own.
NewRow(r, c) ==
  [state |-> "live",
   parentJti |-> IF req[r].op = "refresh" THEN req[r].token ELSE None,
   familyId |-> IF req[r].op = "refresh"
                  THEN refreshToken[req[r].token].familyId ELSE c,
   sessionId |-> req[r].sess]

\* The sessions a login has handed out and that are still stored.
Known == {s \in Session : session[s].refreshTokenId # None} \ Pruned

Commit(r) ==
  /\ req[r].pc = "commit"
  /\ refreshToken' =
       [t \in Token |->
          IF t = req[r].child THEN NewRow(r, t)
          ELSE IF t \in req[r].writes
            THEN [refreshToken[t] EXCEPT !.state = "revoked"]
          ELSE refreshToken[t]]
  /\ session' =
       [s \in Session |->
          IF s \in req[r].offs THEN [session[s] EXCEPT !.state = "invalid"]
          ELSE IF req[r].binds /\ s = req[r].sess
            THEN [session[s] EXCEPT !.refreshTokenId = req[r].child]
          ELSE session[s]]
  /\ IF req[r].op = "deleteAccount"
       THEN /\ Put(r, [Idle EXCEPT !.op = "deleteAccount", !.pc = "erase"])
            /\ UNCHANGED closed
       ELSE /\ Finish(r)
            /\ closed' = closed \cup req[r].promised
  /\ UNCHANGED <<expired, status, replayed>>

\* The 60 s transaction timeout, a deadlock victim, a lost connection or a
\* crash of the process.  A login has no transaction: what it wrote stays.
Abort(r) ==
  /\ req[r].pc # "idle"
  /\ Finish(r)
  /\ UNCHANGED rows

-----------------------------------------------------------------------------
\* Password login (login.route runs the flow with transaction: false, so each
\* statement commits by itself).

LoginStart(r) ==
  /\ status = "ACTIVE"
  /\ Begin(r, "login", [Idle EXCEPT !.pc = "count"])
  /\ UNCHANGED rows

\* SessionService.create counts the valid sessions against the policy ...
LoginCount(r) ==
  LET active == Cardinality({s \in Session : Valid(s)})
      excess == IF active >= MaxSessions THEN active - MaxSessions + 1 ELSE 0
  IN /\ req[r].pc = "count"
     /\ Put(r, [req[r] EXCEPT !.excess = excess,
                              !.pc = IF excess = 0 THEN "create" ELSE "evict"])
     /\ UNCHANGED rows

Oldest(n) ==
  {s \in Session : /\ Valid(s)
                   /\ Cardinality({u \in Session : Valid(u) /\ u < s}) < n}

\* ... and marks the oldest ones invalid; their refresh tokens stay as they are.
LoginEvict(r) ==
  /\ req[r].pc = "evict"
  /\ SessionFree(r, Oldest(req[r].excess))
  /\ session' = [s \in Session |->
                   IF s \in Oldest(req[r].excess)
                     THEN [session[s] EXCEPT !.state = "invalid"] ELSE session[s]]
  /\ Goto(r, "create")
  /\ UNCHANGED <<refreshToken, expired, status, replayed, closed>>

\* (Once the identity is gone, an insert fails on its foreign key: Abort.)
LoginCreate(r) ==
  /\ req[r].pc = "create"
  /\ status # "DELETED"
  /\ \E s \in Session :
       /\ session[s].state = "none"
       /\ \A u \in 1..(s - 1) : session[u].state # "none"
       /\ session' = [session EXCEPT ![s].state = "valid"]
       /\ Put(r, [req[r] EXCEPT !.pc = "issue", !.sess = s])
  /\ UNCHANGED <<refreshToken, expired, status, replayed, closed>>

\* TokenService.issue outside a transaction: the row is committed at once and
\* bound to the session by a second statement.
LoginIssue(r) ==
  /\ req[r].pc = "issue" /\ req[r].op = "login"
  /\ status # "DELETED"
  /\ \E c \in Token :
       /\ Fresh(c)
       /\ refreshToken' = [refreshToken EXCEPT ![c] = NewRow(r, c)]
       /\ Put(r, [req[r] EXCEPT !.pc = "loginBind", !.token = c])
  /\ UNCHANGED <<expired, session, status, replayed, closed>>

LoginBind(r) ==
  /\ req[r].pc = "loginBind"
  /\ SessionFree(r, {req[r].sess})
  /\ session' = [session EXCEPT ![req[r].sess].refreshTokenId = req[r].token]
  /\ Finish(r)
  /\ UNCHANGED <<refreshToken, expired, status, replayed, closed>>

-----------------------------------------------------------------------------
\* tokenRefreshFlow, inside the transaction FlowExecutor opens.  A token that
\* is unknown, pruned, or expired without having been revoked is refused
\* before anything is written.  (No client has the token of a login that has
\* not answered.)

RefreshRead(r, t) ==
  /\ Exists(t)
  /\ \A q \in Req : ~(req[q].pc = "loginBind" /\ req[q].token = t)
  /\ ~(Live(t) /\ t \in expired)
  /\ Begin(r, "refresh",
           [Idle EXCEPT !.op = "refresh", !.token = t,
                        !.sess = refreshToken[t].sessionId,
                        !.pc = IF Live(t) THEN "identity" ELSE "killScan"])
  /\ UNCHANGED rows

RefreshIdentity(r) ==
  /\ req[r].pc = "identity"
  /\ IF status = "ACTIVE" THEN Goto(r, "cas") ELSE Finish(r)
  /\ UNCHANGED rows

\* Mutant: an update by id that does not ask whether the row is still live.
RefreshCasBlind(r) ==
  /\ req[r].pc = "cas"
  /\ TokenFree(r, req[r].token)
  /\ Put(r, [req[r] EXCEPT !.writes = {req[r].token}, !.pc = "issue"])
  /\ UNCHANGED rows

\* Mutant: a plain read and a later write, with no lock between them.
RefreshCasNoWait(r) ==
  /\ req[r].pc = "cas"
  /\ IF Live(req[r].token)
       THEN Put(r, [req[r] EXCEPT !.writes = {req[r].token}, !.pc = "issue"])
       ELSE Goto(r, "killScan")
  /\ UNCHANGED rows

\* updateMany where id and revoked = false: waits for the row lock, then looks
\* at the row again.
RefreshCas(r) ==
  /\ req[r].pc = "cas"
  /\ TokenFree(r, req[r].token)
  /\ IF Live(req[r].token)
       THEN Put(r, [req[r] EXCEPT !.writes = {req[r].token}, !.pc = "issue"])
       ELSE Goto(r, "killScan")
  /\ UNCHANGED rows

\* TokenService.issue inside a transaction (rotation or context switch): the
\* child is inserted, then the session row is pointed at it.
TxIssue(r) ==
  /\ req[r].pc = "issue" /\ req[r].op # "login"
  /\ status # "DELETED"
  /\ \E c \in Token :
       /\ Fresh(c)
       /\ Put(r, [req[r] EXCEPT !.child = c, !.pc = "bind"])
  /\ UNCHANGED rows

TxBind(r) ==
  /\ req[r].pc = "bind"
  /\ SessionFree(r, {req[r].sess})
  /\ Put(r, [req[r] EXCEPT !.binds = (req[r].sess \notin Pruned), !.pc = "commit"])
  /\ UNCHANGED rows

\* triggerKillChain: revoke the whole family, row by row, ...
KillScan(r) ==
  /\ req[r].pc = "killScan"
  /\ Put(r, [req[r] EXCEPT
               !.pc = "kill",
               !.scan = {t \in Token : /\ Exists(t)
                                          /\ refreshToken[t].familyId =
                                               refreshToken[req[r].token].familyId}])
  /\ UNCHANGED rows

KillVisit(r, t) ==
  /\ req[r].pc = "kill" /\ t \in req[r].scan
  /\ TokenFree(r, t)
  /\ Put(r, [req[r] EXCEPT !.scan = @ \ {t},
                           !.writes = IF Exists(t) THEN @ \cup {t} ELSE @])
  /\ UNCHANGED rows

KillSession(r) ==
  /\ req[r].pc = "kill" /\ req[r].scan = {}
  /\ SessionFree(r, {req[r].sess})
  /\ Put(r, [req[r] EXCEPT !.pc = "killSession", !.offs = {req[r].sess} \ Pruned])
  /\ UNCHANGED rows

\* ... invalidate the session, and throw invalid_grant.  The throw leaves the
\* callback of prisma.$transaction, which rolls all of it back.
KillThrow(r) ==
  /\ req[r].pc = "killSession"
  /\ replayed' = replayed \cup {refreshToken[req[r].token].familyId}
  /\ Finish(r)
  /\ UNCHANGED <<refreshToken, expired, session, status, closed>>

-----------------------------------------------------------------------------
\* switchContextFlow: rotates the bound token into a new family.  The route takes
\* the session of the identity that was the newest valid one when it looked, be it
\* the caller's or not; the flow asks again whether it is valid.  It may belong to
\* a login that has not bound its token yet: then there is nothing to revoke.

SwitchRead(r, s) ==
  LET bound == session[s].refreshTokenId
  IN /\ Valid(s) /\ Known # {}
     /\ Begin(r, "switch", [Idle EXCEPT !.op = "switch", !.sess = s, !.token = bound,
                                        !.pc = IF bound = None THEN "issue" ELSE "switchCas"])
     /\ UNCHANGED rows

SwitchCas(r) ==
  /\ req[r].pc = "switchCas"
  /\ TokenFree(r, req[r].token)
  /\ IF Live(req[r].token)
       THEN Put(r, [req[r] EXCEPT !.writes = {req[r].token}, !.pc = "issue"])
       ELSE Finish(r)
  /\ UNCHANGED rows

-----------------------------------------------------------------------------
\* The requests that revoke sessions: logout, DELETE /sessions/:id, password
\* reset and change, admin suspension and account deletion.

\* logoutFlow reads the session and first revokes the token bound to it (the
\* login that created the session has answered, so there is one).
LogoutRead(r, s) ==
  /\ session[s].refreshTokenId # None
  /\ s \notin Pruned
  /\ Begin(r, "logout", [Idle EXCEPT !.op = "logout", !.sessions = {s},
                                     !.promised = {s}, !.pc = "bound",
                                     !.token = session[s].refreshTokenId])
  /\ UNCHANGED rows

LogoutBound(r) ==
  /\ req[r].pc = "bound"
  /\ TokenFree(r, req[r].token)
  /\ Put(r, [req[r] EXCEPT !.pc = "scan",
                           !.writes = IF Live(req[r].token) THEN {req[r].token} ELSE {}])
  /\ UNCHANGED rows

DeleteSession(r, s) ==
  /\ session[s].state # "none"
  /\ Begin(r, "deleteSession", [Idle EXCEPT !.op = "deleteSession", !.sessions = {s},
                                            !.promised = {s} \cap Known, !.pc = "scan"])
  /\ UNCHANGED rows

\* revokeAllForIdentity: only sessions that are still valid; none, no work.
ResetRead(r) ==
  LET active == {s \in Session : Valid(s)}
  IN /\ status # "DELETED"
     /\ Begin(r, "reset", [Idle EXCEPT !.op = "reset", !.sessions = active, !.promised = Known,
                                       !.pc = IF active = {} THEN "commit" ELSE "scan"])
     /\ UNCHANGED rows

\* Password change: the other sessions of the caller, with the same statements.
PasswordRead(r, s) ==
  LET others == {u \in Session \ {s} : Valid(u)}
  IN /\ s \in Known
     /\ Begin(r, "password", [Idle EXCEPT !.op = "password", !.sessions = others,
                                          !.promised = Known \ {s},
                                          !.pc = IF others = {} THEN "commit" ELSE "scan"])
     /\ UNCHANGED rows

\* Mutant: the admin route invalidates the sessions and forgets their tokens.
SuspendSessionsOnly(r) ==
  /\ status # "DELETED"
  /\ Begin(r, "suspend", [Idle EXCEPT !.op = "suspend", !.sessions = Session, !.promised = Known,
                                      !.pc = "off"])
  /\ status' = "SUSPENDED"
  /\ UNCHANGED <<refreshToken, expired, session, replayed, closed>>

\* The admin routes commit the status first and then revoke by identity.
Suspend(r) ==
  /\ status # "DELETED"
  /\ Begin(r, "suspend", [Idle EXCEPT !.op = "suspend", !.sessions = Session, !.promised = Known,
                                      !.pc = "scan"])
  /\ status' = "SUSPENDED"
  /\ UNCHANGED <<refreshToken, expired, session, replayed, closed>>

\* DELETE /profile updates the sessions before the tokens and commits that
\* before it deletes the identity.
DeleteAccount(r) ==
  /\ status # "DELETED"
  /\ Begin(r, "deleteAccount", [Idle EXCEPT !.op = "deleteAccount",
                                            !.sessions = Session, !.pc = "offFirst"])
  /\ UNCHANGED rows

\* identity.delete cascades to every row of the identity.  It waits for open
\* transactions: one that has inserted a row holds the key of the identity, one
\* that has updated a row holds that row.
Erase(r) ==
  /\ req[r].pc = "erase"
  /\ \A q \in Req \ {r} : req[q].writes = {} /\ req[q].offs = {} /\ req[q].child = None
  /\ status' = "DELETED"
  /\ refreshToken' = [t \in Token |->
                        IF Exists(t) THEN [refreshToken[t] EXCEPT !.state = "deleted"]
                        ELSE refreshToken[t]]
  /\ session' = [s \in Session |-> [state |-> "none", refreshTokenId |-> None]]
  /\ Finish(r)
  /\ UNCHANGED <<expired, replayed, closed>>

OffFirst(r) ==
  LET active == {s \in Session : Valid(s)}
  IN /\ req[r].pc = "offFirst"
     /\ SessionFree(r, active)
     /\ Put(r, [req[r] EXCEPT !.offs = active, !.pc = "scan"])
     /\ UNCHANGED rows

\* updateMany where sessionId in sessions and revoked = false: the snapshot of
\* the statement ...
Scan(r) ==
  /\ req[r].pc = "scan"
  /\ Put(r, [req[r] EXCEPT
               !.pc = "visit",
               !.scan = {t \in Token : /\ Live(t)
                                          /\ refreshToken[t].sessionId \in req[r].sessions
                                          /\ t \notin req[r].writes}])
  /\ UNCHANGED rows

\* ... and its rows, each looked at again once its lock is free.
Visit(r, t) ==
  /\ req[r].pc = "visit" /\ t \in req[r].scan
  /\ TokenFree(r, t)
  /\ Put(r, [req[r] EXCEPT !.scan = @ \ {t},
                           !.writes = IF Live(t) THEN @ \cup {t} ELSE @])
  /\ UNCHANGED rows

VisitDone(r) ==
  /\ req[r].pc = "visit" /\ req[r].scan = {}
  /\ Goto(r, IF req[r].op = "deleteAccount" THEN "commit" ELSE "off")
  /\ UNCHANGED rows

\* (The session.update of logout is an error when the row is gone: Abort.)
Off(r) ==
  LET S == IF req[r].op = "suspend" THEN {s \in Session : Valid(s)}
           ELSE req[r].sessions
  IN /\ req[r].pc = "off"
     /\ SessionFree(r, S)
     /\ req[r].op = "logout" => S \cap Pruned = {}
     /\ Put(r, [req[r] EXCEPT !.offs = S \ Pruned, !.pc = "commit"])
     /\ UNCHANGED rows

-----------------------------------------------------------------------------
\* tokenRevokeFlow on a refresh token: that row and nothing else.

RevokeRead(r, t) ==
  /\ Exists(t)
  /\ Begin(r, "revoke", [Idle EXCEPT !.op = "revoke", !.token = t, !.pc = "revokeOne"])
  /\ UNCHANGED rows

RevokeOne(r) ==
  /\ req[r].pc = "revokeOne"
  /\ TokenFree(r, req[r].token)
  /\ IF Exists(req[r].token)
       THEN Put(r, [req[r] EXCEPT !.writes = {req[r].token}, !.pc = "commit"])
       ELSE Finish(r)
  /\ UNCHANGED rows

\* PATCH /identity/:id/status with ACTIVE.
Reinstate ==
  /\ "reinstate" \in Ops
  /\ status = "SUSPENDED"
  /\ status' = "ACTIVE"
  /\ UNCHANGED <<refreshToken, expired, session, req, replayed, closed>>

Expire(t) ==
  /\ "expire" \in Ops
  /\ Exists(t) /\ t \notin expired
  /\ expired' = expired \cup {t}
  /\ UNCHANGED <<refreshToken, session, status, req, replayed, closed>>

\* runTokenCleanup deletes old rows that are revoked or expired.
Cleanup(t) ==
  /\ "cleanup" \in Ops
  /\ refreshToken[t].state = "revoked" \/ (Live(t) /\ t \in expired)
  /\ \A q \in Req : ~LockedBy(q, t)
  /\ refreshToken' = [refreshToken EXCEPT ![t].state = "deleted"]
  /\ UNCHANGED <<expired, session, status, req, replayed, closed>>

\* ... and sessions that expired before the retention period, valid or not.  The
\* chain of rotations may go on: no refresh looks at the session.  (A login does
\* not last that long.)
CleanupSession(s) ==
  /\ "cleanup" \in Ops
  /\ session[s].state \in {"valid", "invalid"}
  /\ \A q \in Req : /\ s \notin req[q].offs
                    /\ ~((req[q].binds \/ req[q].op = "login") /\ req[q].sess = s)
  /\ session' = [session EXCEPT ![s].state = "pruned"]
  /\ UNCHANGED <<refreshToken, expired, status, req, replayed, closed>>

-----------------------------------------------------------------------------
Start(r) ==
  \/ LoginStart(r) \/ ResetRead(r) \/ Suspend(r) \/ DeleteAccount(r)
  \/ \E t \in Token : RefreshRead(r, t) \/ RevokeRead(r, t)
  \/ \E s \in Session : \/ SwitchRead(r, s) \/ LogoutRead(r, s)
                         \/ DeleteSession(r, s) \/ PasswordRead(r, s)

Step(r) ==
  \/ LoginCount(r) \/ LoginEvict(r) \/ LoginCreate(r) \/ LoginIssue(r) \/ LoginBind(r)
  \/ RefreshIdentity(r) \/ RefreshCas(r) \/ TxIssue(r) \/ TxBind(r)
  \/ KillScan(r) \/ KillSession(r) \/ KillThrow(r)
  \/ SwitchCas(r) \/ LogoutBound(r) \/ OffFirst(r)
  \/ Scan(r) \/ VisitDone(r) \/ Off(r) \/ RevokeOne(r)
  \/ \E t \in Token : KillVisit(r, t) \/ Visit(r, t)
  \/ Commit(r) \/ Abort(r) \/ Erase(r)

Next ==
  \/ \E r \in Req : Start(r) \/ Step(r)
  \/ Reinstate
  \/ \E t \in Token : Expire(t) \/ Cleanup(t)
  \/ \E s \in Session : CleanupSession(s)

Spec == Init /\ [][Next]_vars

-----------------------------------------------------------------------------
\* Properties.

\* However refreshes, switches, revocations and aborts interleave, a family
\* never has two usable refresh tokens: the compare-and-swap of
\* tokenRefreshFlow lets one of two concurrent rotations through.
OneLivePerFamily ==
  \A t, u \in Token :
    Live(t) /\ Live(u) /\ refreshToken[t].familyId = refreshToken[u].familyId => t = u

Issued(t) == refreshToken[t].state # "free"

\* A refresh token is rotated at most once: no two tokens that were ever
\* issued name the same parentJti, even after clean-up deleted the parent.
RotatedOnce ==
  \A t, u \in Token :
    /\ Issued(t) /\ Issued(u)
    /\ refreshToken[t].parentJti # None
    /\ refreshToken[t].parentJti = refreshToken[u].parentJti
    => t = u

\* A child inherits its parent's family and the parent is spent for good.
LineageSpent ==
  \A t \in Token :
    Issued(t) /\ refreshToken[t].parentJti # None =>
      LET p == refreshToken[t].parentJti
      IN /\ refreshToken[p].state \in {"revoked", "deleted"}
         /\ refreshToken[p].familyId = refreshToken[t].familyId

\* A step that publishes a rotated token takes its parent from live to
\* revoked in that same step, and no step brings a revoked token back.
RotationConsumesLive ==
  [][\A t \in Token :
       /\ (~Issued(t) /\ Issued(t)' /\ refreshToken'[t].parentJti # None) =>
            LET p == refreshToken'[t].parentJti
            IN Live(p) /\ refreshToken'[p].state = "revoked"
       /\ (Issued(t) /\ ~Live(t)) => ~Live(t)']_vars

\* Once a request that revokes a session has answered, no refresh token of
\* that session can be used: logout, DELETE /sessions/:id, password reset and
\* change, and suspension.
ClosedSessionsDead ==
  \A t \in Token : refreshToken[t].sessionId \in closed => ~Live(t)

\* The same for tokens that were rotated: "We revoke via the back-reference
\* [...] to catch all tokens ever issued for the session [...] This handles the
\* edge case where a token was rotated between the session read and the revoke."
RotationNeverEscapes ==
  \A t \in Token :
    refreshToken[t].parentJti # None /\ refreshToken[t].sessionId \in closed => ~Live(t)

\* triggerKillChain: "Revokes the entire session family (all tokens sharing the
\* same familyId or sessionId) and invalidates the session."
KillChainRevokesFamily ==
  \A t \in Token : Issued(t) /\ refreshToken[t].familyId \in replayed => ~Live(t)

\* The refinement mapping: a family's current token is its live one.
LiveIn(f) == {t \in Token : Live(t) /\ refreshToken[t].familyId = f}
Current == [f \in Token |-> IF LiveIn(f) = {} THEN None ELSE CHOOSE t \in LiveIn(f) : TRUE]
Family == INSTANCE TokenFamily WITH current <- Current, used <- {t \in Token : Issued(t)}

\* Rotation implements the chain of TokenFamily: whatever the interleaving, a
\* family goes from one usable token to the next and, once closed, stays closed.
FamilyChain == Family!Spec
=============================================================================
