------------------------- MODULE RefreshTokensProofs -------------------------
(***************************************************************************)
(* Machine-checked proofs about RefreshTokens, for any number of tokens,   *)
(* sessions and concurrent requests, and any set of operations.            *)
(***************************************************************************)
EXTENDS RefreshTokens, FiniteSetTheorems, TLAPS

-----------------------------------------------------------------------------
\* The inductive invariant.  OneLivePerFamily is not inductive by itself: what
\* makes it so is what a transaction knows while it holds its row locks.

\* Program points at which the token, or the session, read earlier is used.
NeedsToken == {"loginBind", "identity", "cas", "killScan", "kill", "killSession",
               "switchCas", "bound", "revokeOne"}

NeedsSess == {"issue", "loginBind", "identity", "cas", "bind", "killScan", "kill",
              "killSession", "switchCas"}

\* The operations that replace a token by another, and the program points at
\* which a request is known to be one, or known not to be.
Rotations == {"refresh", "switch"}

OpFits(p, o) ==
  /\ p \in {"count", "evict", "create"} => o = "login"
  /\ p \in {"identity", "cas", "switchCas", "bind"} => o \in Rotations
  /\ p = "issue" => o \in Rotations \cup {"login"}
  /\ p \in {"bound", "offFirst", "scan", "visit", "off", "revokeOne"} => o \notin Rotations

\* What a rotation has once it may issue a child: the lock of one token, a live
\* one; or nothing, if it switches a session that no token was bound to.
Spends(x) == x.token \in Token /\ x.writes = {x.token} /\ Live(x.token)
Opens(x) == x.op = "switch" /\ x.token = None /\ x.writes = {}

\* What is true of a request x against the committed rows: its locked rows
\* exist, and only a rotation has a child, which is not stored yet.
Sound(x) ==
  /\ x \in Request
  /\ x.pc \in NeedsToken => x.token \in Token
  /\ x.pc \in NeedsSess => x.sess \in Session
  /\ \A t \in x.writes : Exists(t)
  /\ x.child # None => /\ x.pc \in {"bind", "commit"}
                       /\ ~Issued(x.child)
                       /\ x.sess \in Session
                       /\ x.op \in Rotations
  /\ (x.op \in Rotations /\ x.pc \in {"issue", "bind", "commit"}) => Spends(x) \/ Opens(x)
  /\ OpFits(x.pc, x.op)

\* Two requests hold different rows and insert different ones.
Apart(x, y) ==
  /\ x.writes \cap y.writes = {}
  /\ x.child # None => x.child # y.child

RowsTyped ==
  /\ refreshToken \in [Token -> [state: RowState, parentJti: Token \cup {None},
                                 familyId: Token, sessionId: Session \cup {None}]]
  /\ expired \subseteq Token
  /\ session \in [Session -> [state: {"none", "valid", "invalid", "pruned"},
                              refreshTokenId: Token \cup {None}]]
  /\ status \in {"ACTIVE", "SUSPENDED", "DELETED"}
  /\ replayed \subseteq Token
  /\ closed \subseteq Session

\* An issued row belongs to a session, and its family is named by a row that
\* was issued, so that a fresh token is never in an existing family.
RowsRooted ==
  \A t \in Token : Issued(t) => /\ refreshToken[t].sessionId \in Session
                                /\ Issued(refreshToken[t].familyId)

Requests ==
  /\ req \in [Req -> Request]
  /\ \A r \in Req : Sound(req[r])
  /\ \A r, q \in Req : r # q => Apart(req[r], req[q])

Families == RowsRooted /\ OneLivePerFamily /\ RotatedOnce /\ LineageSpent

IndInv == RowsTyped /\ Requests /\ Families

-----------------------------------------------------------------------------
\* A slot that has answered satisfies every request-level condition.
LEMMA IdleSound == Sound(Idle) /\ Idle.writes = {} /\ Idle.child = None /\ Idle \in Request
  BY DEF Idle, Sound, Request, Pc, OpName, NeedsToken, NeedsSess, OpFits, Rotations

\* A step that leaves the refresh-token rows alone preserves the invariant when
\* the new request is sound and apart from the others.
LEMMA RequestStep ==
  ASSUME IndInv, RowsTyped', refreshToken' = refreshToken,
         NEW r \in Req, NEW x, Put(r, x), Sound(x),
         \A q \in Req \ {r} : Apart(x, req[q]) /\ Apart(req[q], x)
  PROVE  IndInv'
<1>1. x \in Request
  BY DEF Sound
<1>2. /\ req' \in [Req -> Request]
      /\ req'[r] = x
      /\ \A q \in Req : q # r => req'[q] = req[q]
  BY <1>1 DEF Put, IndInv, Requests
<1>3. Families'
  BY DEF IndInv, Families, RowsRooted, OneLivePerFamily, RotatedOnce, LineageSpent, Issued, Live
<1>4. \A y : Sound(y)' <=> Sound(y)
  BY DEF Sound, Spends, Opens, Exists, Issued, Live
<1>5. Requests'
  BY <1>2, <1>4 DEF IndInv, Requests, Apart
<1> QED
  BY <1>3, <1>5 DEF IndInv

\* The same for a step that locks only rows nobody else holds and names no
\* new child: every step of a request except the inserts and the commit.
LEMMA LockStep ==
  ASSUME IndInv, RowsTyped', refreshToken' = refreshToken,
         NEW r \in Req, NEW x, Put(r, x), Sound(x),
         \A t \in x.writes : t \in req[r].writes \/ TokenFree(r, t),
         x.child = None \/ x.child = req[r].child
  PROVE  IndInv'
<1>1. \A q \in Req \ {r} : x.writes \cap req[q].writes = {}
  BY DEF IndInv, Requests, Apart, TokenFree, LockedBy
<1>2. \A q \in Req \ {r} : Apart(x, req[q]) /\ Apart(req[q], x)
  BY <1>1 DEF IndInv, Requests, Apart
<1> QED
  BY <1>2, RequestStep

\* The committed rows stay typed when none of them changes.
LEMMA RowsSame == ASSUME RowsTyped, UNCHANGED rows PROVE RowsTyped' /\ refreshToken' = refreshToken
  BY DEF RowsTyped, rows

\* A request that ends without committing preserves the invariant.
LEMMA FinishStep ==
  ASSUME IndInv, RowsTyped', refreshToken' = refreshToken, NEW r \in Req, Finish(r)
  PROVE  IndInv'
<1>1. Put(r, Idle)
  BY DEF Finish
<1> QED
  BY <1>1, IdleSound, LockStep

\* So does a request that only moves on, to a point where it needs nothing more.
LEMMA GotoStep ==
  ASSUME IndInv, RowsTyped', refreshToken' = refreshToken,
         NEW r \in Req, NEW p \in Pc, Goto(r, p),
         p \in NeedsToken => req[r].token \in Token,
         p \in NeedsSess => req[r].sess \in Session,
         req[r].child = None,
         OpFits(p, req[r].op), p \in {"issue", "bind", "commit"} => req[r].op \notin Rotations
  PROVE  IndInv'
<1> DEFINE x == [req[r] EXCEPT !.pc = p]
<1>1. Sound(req[r]) /\ req[r] \in Request
  BY DEF IndInv, Requests
<1>2. /\ x \in Request /\ x.pc = p /\ x.writes = req[r].writes /\ x.child = req[r].child
      /\ x.token = req[r].token /\ x.sess = req[r].sess /\ x.op = req[r].op
  BY <1>1 DEF Request
<1> HIDE DEF x
<1>3. Sound(x)
  BY <1>1, <1>2 DEF Sound
<1>4. Put(r, x)
  BY DEF Goto, x
<1> QED
  BY <1>2, <1>3, <1>4, LockStep

\* The empty database satisfies the invariant.
LEMMA InitInv == Init => IndInv
<1> SUFFICES ASSUME Init PROVE IndInv
  OBVIOUS
<1>1. RowsTyped
  BY NoneAssumption DEF Init, RowsTyped, RowState
<1>2. \A t \in Token : ~Issued(t) /\ ~Live(t)
  BY DEF Init, Issued, Live
<1>3. Families
  BY <1>2 DEF Families, RowsRooted, OneLivePerFamily, RotatedOnce, LineageSpent
<1>4. \A r \in Req : req[r] = Idle
  BY DEF Init
<1>5. req \in [Req -> Request]
  BY IdleSound DEF Init
<1>6. Requests
  BY <1>4, <1>5, IdleSound DEF Requests, Apart
<1> QED
  BY <1>1, <1>3, <1>6 DEF IndInv

-----------------------------------------------------------------------------
\* Requests that begin: they have read rows and written none.

\* A request that begins preserves the invariant when what it read is typed.
LEMMA BeginStep ==
  ASSUME IndInv, RowsTyped', refreshToken' = refreshToken,
         NEW r \in Req, NEW o, NEW x, Begin(r, o, x), x \in Request,
         x.writes = {}, x.child = None,
         x.pc \in NeedsToken => x.token \in Token,
         x.pc \in NeedsSess => x.sess \in Session,
         x.op \in Rotations /\ x.pc \in {"issue", "bind", "commit"} => Opens(x),
         OpFits(x.pc, x.op)
  PROVE  IndInv'
<1>1. Sound(x)
  BY DEF Sound
<1>2. Put(r, x)
  BY DEF Begin
<1> QED
  BY <1>1, <1>2, LockStep

\* Every operation's first step preserves the invariant.
LEMMA StartInv ==
  ASSUME IndInv, NEW r \in Req, Start(r) PROVE IndInv'
<1> USE DEF Request, Pc, OpName, NeedsToken, NeedsSess, OpFits, Rotations
<1>0. RowsTyped /\ (UNCHANGED rows => RowsTyped' /\ refreshToken' = refreshToken)
  BY RowsSame DEF IndInv
<1>1. CASE LoginStart(r)
  <2> DEFINE x == [Idle EXCEPT !.pc = "count"]
  <2>1. x \in Request /\ x.writes = {} /\ x.child = None /\ x.pc = "count" /\ x.op = "login"
    BY DEF Idle
  <2>2. Begin(r, "login", x) /\ UNCHANGED rows
    BY <1>1 DEF LoginStart
  <2> HIDE DEF x
  <2> QED
    BY <1>0, <2>1, <2>2, BeginStep
<1>2. CASE ResetRead(r)
  <2> DEFINE active == {s \in Session : Valid(s)}
             x == [Idle EXCEPT !.op = "reset", !.sessions = active, !.promised = Known,
                               !.pc = IF active = {} THEN "commit" ELSE "scan"]
  <2>1. active \subseteq Session /\ Known \subseteq Session
    BY DEF Known
  <2>2. Begin(r, "reset", x) /\ UNCHANGED rows
    BY <1>2 DEF ResetRead
  <2> HIDE DEF active
  <2>3. x \in Request /\ x.writes = {} /\ x.child = None /\ x.pc \in {"commit", "scan"} /\ x.op = "reset"
    BY <2>1 DEF Idle
  <2> HIDE DEF x
  <2> QED
    BY <1>0, <2>2, <2>3, BeginStep
<1>3. CASE Suspend(r)
  <2> DEFINE x == [Idle EXCEPT !.op = "suspend", !.sessions = Session, !.promised = Known,
                               !.pc = "scan"]
  <2>1. x \in Request /\ x.writes = {} /\ x.child = None /\ x.pc = "scan" /\ x.op = "suspend"
    BY DEF Idle, Known
  <2>2. Begin(r, "suspend", x) /\ RowsTyped' /\ refreshToken' = refreshToken
    BY <1>0, <1>3 DEF Suspend, RowsTyped
  <2> HIDE DEF x
  <2> QED
    BY <2>1, <2>2, BeginStep
<1>4. CASE DeleteAccount(r)
  <2> DEFINE x == [Idle EXCEPT !.op = "deleteAccount", !.sessions = Session,
                               !.pc = "offFirst"]
  <2>1. x \in Request /\ x.writes = {} /\ x.child = None /\ x.pc = "offFirst" /\ x.op = "deleteAccount"
    BY DEF Idle, Known
  <2>2. Begin(r, "deleteAccount", x) /\ UNCHANGED rows
    BY <1>4 DEF DeleteAccount
  <2> HIDE DEF x
  <2> QED
    BY <1>0, <2>1, <2>2, BeginStep
<1>5. ASSUME NEW t \in Token, RefreshRead(r, t) PROVE IndInv'
  <2> DEFINE x == [Idle EXCEPT !.op = "refresh", !.token = t,
                               !.sess = refreshToken[t].sessionId,
                               !.pc = IF Live(t) THEN "identity" ELSE "killScan"]
  <2>1. Begin(r, "refresh", x) /\ UNCHANGED rows /\ Exists(t)
    BY <1>5 DEF RefreshRead
  <2>2. refreshToken[t].sessionId \in Session
    BY <2>1 DEF IndInv, Families, RowsRooted, Exists, Issued
  <2>3. /\ x \in Request /\ x.writes = {} /\ x.child = None /\ x.pc \in {"identity", "killScan"}
        /\ x.token = t /\ x.sess \in Session /\ x.op = "refresh"
    BY <2>2 DEF Idle
  <2> HIDE DEF x
  <2> QED
    BY <1>0, <2>1, <2>3, BeginStep
<1>6. ASSUME NEW t \in Token, RevokeRead(r, t) PROVE IndInv'
  <2> DEFINE x == [Idle EXCEPT !.op = "revoke", !.token = t, !.pc = "revokeOne"]
  <2>1. Begin(r, "revoke", x) /\ UNCHANGED rows
    BY <1>6 DEF RevokeRead
  <2>2. x \in Request /\ x.writes = {} /\ x.child = None /\ x.pc = "revokeOne" /\ x.token = t /\ x.op = "revoke"
    BY DEF Idle
  <2> HIDE DEF x
  <2> QED
    BY <1>0, <2>1, <2>2, BeginStep
<1>7. ASSUME NEW s \in Session, SwitchRead(r, s) PROVE IndInv'
  <2> PICK bound, p : /\ bound = session[s].refreshTokenId
                      /\ p = IF bound = None THEN "issue" ELSE "switchCas"
    OBVIOUS
  <2> DEFINE x == [Idle EXCEPT !.op = "switch", !.sess = s, !.token = bound, !.pc = p]
  <2>1. Begin(r, "switch", x) /\ UNCHANGED rows /\ bound \in Token \cup {None}
    BY <1>0, <1>7 DEF SwitchRead, RowsTyped
  <2>2. /\ x \in Request /\ x.writes = {} /\ x.child = None /\ x.pc = p /\ x.op = "switch"
        /\ x.token = bound /\ x.sess = s
    BY <2>1 DEF Idle
  <2> HIDE DEF x
  <2>3. CASE bound = None
    BY <1>0, <2>1, <2>2, <2>3, BeginStep DEF Opens
  <2>4. CASE bound # None
    BY <1>0, <2>1, <2>2, <2>4, BeginStep
  <2> QED
    BY <2>3, <2>4
<1>8. ASSUME NEW s \in Session, LogoutRead(r, s) PROVE IndInv'
  <2> DEFINE x == [Idle EXCEPT !.op = "logout", !.sessions = {s}, !.promised = {s},
                               !.pc = "bound", !.token = session[s].refreshTokenId]
  <2>1. Begin(r, "logout", x) /\ UNCHANGED rows /\ session[s].refreshTokenId \in Token
    BY <1>0, <1>8 DEF LogoutRead, RowsTyped
  <2>2. /\ x \in Request /\ x.writes = {} /\ x.child = None /\ x.pc = "bound" /\ x.op = "logout"
        /\ x.token \in Token
    BY <2>1 DEF Idle
  <2> HIDE DEF x
  <2> QED
    BY <1>0, <2>1, <2>2, BeginStep
<1>9. ASSUME NEW s \in Session, DeleteSession(r, s) PROVE IndInv'
  <2> DEFINE x == [Idle EXCEPT !.op = "deleteSession", !.sessions = {s},
                               !.promised = {s} \cap Known, !.pc = "scan"]
  <2>1. Begin(r, "deleteSession", x) /\ UNCHANGED rows
    BY <1>9 DEF DeleteSession
  <2>2. /\ x \in Request /\ x.writes = {} /\ x.child = None /\ x.pc = "scan" /\ x.op = "deleteSession"
    BY DEF Idle
  <2> HIDE DEF x
  <2> QED
    BY <1>0, <2>1, <2>2, BeginStep
<1>10. ASSUME NEW s \in Session, PasswordRead(r, s) PROVE IndInv'
  <2> DEFINE others == {u \in Session \ {s} : Valid(u)}
             x == [Idle EXCEPT !.op = "password", !.sessions = others,
                               !.promised = Known \ {s},
                               !.pc = IF others = {} THEN "commit" ELSE "scan"]
  <2>1. others \subseteq Session /\ Known \subseteq Session
    BY DEF Known
  <2>2. Begin(r, "password", x) /\ UNCHANGED rows
    BY <1>10 DEF PasswordRead
  <2> HIDE DEF others
  <2>3. /\ x \in Request /\ x.writes = {} /\ x.child = None
        /\ x.pc \in {"commit", "scan"} /\ x.op = "password"
    BY <2>1 DEF Idle
  <2> HIDE DEF x
  <2> QED
    BY <1>0, <2>2, <2>3, BeginStep
<1> QED
  BY <1>1, <1>2, <1>3, <1>4, <1>5, <1>6, <1>7, <1>8, <1>9, <1>10 DEF Start

-----------------------------------------------------------------------------
\* Steps inside a request that leave the refresh-token rows alone.

\* What a request in progress knows, unfolded once.
LEMMA InFlight ==
  ASSUME IndInv, NEW r \in Req
  PROVE  /\ Sound(req[r]) /\ req[r] \in Request /\ RowsTyped
         /\ req[r].pc \notin {"bind", "commit"} => req[r].child = None
  BY DEF IndInv, Requests, Sound

\* Counting, evicting, creating and binding the session of a login.
LEMMA LoginInv ==
  ASSUME IndInv, NEW r \in Req,
         LoginCount(r) \/ LoginEvict(r) \/ LoginCreate(r) \/ LoginBind(r)
  PROVE  IndInv'
<1> USE DEF Pc, NeedsToken, NeedsSess, OpFits, Rotations
<1>0. /\ Sound(req[r]) /\ req[r] \in Request /\ RowsTyped
      /\ req[r].pc \notin {"bind", "commit"} => req[r].child = None
  BY InFlight
<1>1. CASE LoginCount(r)
  <2> DEFINE active == Cardinality({s \in Session : Valid(s)})
             excess == IF active >= MaxSessions THEN active - MaxSessions + 1 ELSE 0
             x == [req[r] EXCEPT !.excess = excess,
                                 !.pc = IF excess = 0 THEN "create" ELSE "evict"]
  <2>1. Put(r, x) /\ UNCHANGED rows /\ req[r].pc = "count"
    BY <1>1 DEF LoginCount
  <2>2. active \in Nat
    <3>1. IsFiniteSet(Session)
      BY FS_Interval, BoundAssumption DEF Session
    <3>2. {s \in Session : Valid(s)} \subseteq Session
      OBVIOUS
    <3> QED
      BY <3>1, <3>2, FS_Subset, FS_CardinalityType
  <2>3. excess \in Nat
    BY <2>2, BoundAssumption
  <2> HIDE DEF active, excess
  <2>4. /\ x \in Request /\ x.pc \in {"create", "evict"}
        /\ x.writes = req[r].writes /\ x.child = req[r].child /\ x.op = req[r].op
    BY <1>0, <2>3 DEF Request
  <2> HIDE DEF x
  <2>5. Sound(x)
    BY <1>0, <2>1, <2>4 DEF Sound
  <2> QED
    BY <1>0, <2>1, <2>4, <2>5, LockStep, RowsSame
<1>2. CASE LoginEvict(r)
  <2>1. /\ req[r].pc = "evict" /\ req[r].op = "login"
        /\ Goto(r, "create") /\ refreshToken' = refreshToken
    BY <1>0, <1>2 DEF LoginEvict, Sound
  <2>2. RowsTyped'
    BY <1>0, <1>2 DEF LoginEvict, RowsTyped
  <2> QED
    BY <1>0, <2>1, <2>2, GotoStep
<1>3. CASE LoginCreate(r)
  <2> PICK s \in Session : /\ session' = [session EXCEPT ![s].state = "valid"]
                           /\ Put(r, [req[r] EXCEPT !.pc = "issue", !.sess = s])
    BY <1>3 DEF LoginCreate
  <2> DEFINE x == [req[r] EXCEPT !.pc = "issue", !.sess = s]
  <2>0. session' \in [Session -> [state: {"none", "valid", "invalid", "pruned"},
                                  refreshTokenId: Token \cup {None}]]
    BY <1>0 DEF RowsTyped
  <2>1. Put(r, x) /\ refreshToken' = refreshToken /\ RowsTyped' /\ req[r].pc = "create"
    <3>1. /\ UNCHANGED <<refreshToken, expired, status, replayed, closed>>
          /\ req[r].pc = "create"
      BY <1>3 DEF LoginCreate
    <3> QED
      BY <1>0, <2>0, <3>1 DEF RowsTyped
  <2>2. /\ x \in Request /\ x.pc = "issue" /\ x.sess = s /\ x.op = req[r].op
        /\ x.writes = req[r].writes /\ x.child = req[r].child
    BY <1>0 DEF Request
  <2>3. req[r].op = "login"
    BY <1>0, <2>1 DEF Sound
  <2> HIDE DEF x
  <2>4. Sound(x)
    BY <1>0, <2>1, <2>2, <2>3 DEF Sound
  <2> QED
    BY <2>1, <2>2, <2>4, LockStep
<1>4. CASE LoginBind(r)
  <2>1. req[r].token \in Token /\ req[r].pc = "loginBind"
    BY <1>0, <1>4 DEF Sound, LoginBind
  <2>2. Finish(r) /\ refreshToken' = refreshToken /\ RowsTyped'
    <3>1. /\ Finish(r) /\ UNCHANGED <<refreshToken, expired, status, replayed, closed>>
          /\ session' = [session EXCEPT ![req[r].sess].refreshTokenId = req[r].token]
      BY <1>4 DEF LoginBind
    <3>2. session' \in [Session -> [state: {"none", "valid", "invalid", "pruned"},
                                    refreshTokenId: Token \cup {None}]]
      BY <1>0, <2>1, <3>1 DEF RowsTyped
    <3> QED
      BY <1>0, <3>1, <3>2 DEF RowsTyped
  <2> QED
    BY <2>2, FinishStep
<1> QED
  BY <1>1, <1>2, <1>3, <1>4

\* The steps of a rotation or of a context switch up to the commit.
LEMMA RotationInv ==
  ASSUME IndInv, NEW r \in Req,
         \/ RefreshIdentity(r) \/ RefreshCas(r) \/ TxIssue(r) \/ TxBind(r) \/ SwitchCas(r)
  PROVE  IndInv'
<1> USE DEF Pc, NeedsToken, NeedsSess, OpFits, Rotations
<1>0. /\ Sound(req[r]) /\ req[r] \in Request /\ RowsTyped
      /\ req[r].pc \notin {"bind", "commit"} => req[r].child = None
  BY InFlight
<1>1. UNCHANGED rows /\ RowsTyped' /\ refreshToken' = refreshToken
  BY <1>0, RowsSame DEF RefreshIdentity, RefreshCas, TxIssue, TxBind, SwitchCas
<1>2. CASE RefreshIdentity(r)
  <2>1. /\ req[r].pc = "identity" /\ req[r].token \in Token /\ req[r].sess \in Session
        /\ req[r].op \in Rotations
        /\ Goto(r, "cas") \/ Finish(r)
    BY <1>0, <1>2 DEF RefreshIdentity, Sound
  <2>2. ASSUME Goto(r, "cas") PROVE IndInv'
    BY <1>0, <1>1, <2>1, <2>2, GotoStep
  <2> QED
    BY <1>1, <2>1, <2>2, FinishStep
<1>3. ASSUME req[r].pc \in {"cas", "switchCas"}, TokenFree(r, req[r].token), Live(req[r].token),
             Put(r, [req[r] EXCEPT !.writes = {req[r].token}, !.pc = "issue"])
      PROVE  IndInv'
  <2> DEFINE x == [req[r] EXCEPT !.writes = {req[r].token}, !.pc = "issue"]
  <2>1. req[r].token \in Token /\ req[r].sess \in Session
    BY <1>0, <1>3 DEF Sound
  <2>2. /\ x \in Request /\ x.writes = {req[r].token} /\ x.pc = "issue" /\ x.child = req[r].child
        /\ x.token = req[r].token /\ x.sess = req[r].sess /\ x.op = req[r].op
    BY <1>0, <2>1 DEF Request
  <2>3. Put(r, x)
    BY <1>3
  <2> HIDE DEF x
  <2>4. Sound(x)
    BY <1>0, <1>3, <2>1, <2>2 DEF Sound, Spends, Exists, Live
  <2> QED
    BY <1>1, <1>3, <2>2, <2>3, <2>4, LockStep
<1>4. CASE RefreshCas(r)
  <2>1. /\ req[r].pc = "cas" /\ req[r].token \in Token /\ req[r].sess \in Session
        /\ TokenFree(r, req[r].token)
    BY <1>0, <1>4 DEF RefreshCas, Sound
  <2>2. CASE Live(req[r].token)
    BY <1>3, <1>4, <2>1, <2>2 DEF RefreshCas
  <2>3. CASE ~Live(req[r].token)
    <3>1. Goto(r, "killScan")
      BY <1>4, <2>3 DEF RefreshCas
    <3> QED
      BY <1>0, <1>1, <2>1, <3>1, GotoStep
  <2> QED
    BY <2>2, <2>3
<1>5. CASE SwitchCas(r)
  <2>1. req[r].pc = "switchCas" /\ TokenFree(r, req[r].token)
    BY <1>5 DEF SwitchCas
  <2>2. CASE Live(req[r].token)
    BY <1>3, <1>5, <2>1, <2>2 DEF SwitchCas
  <2>3. CASE ~Live(req[r].token)
    BY <1>1, <1>5, <2>3, FinishStep DEF SwitchCas
  <2> QED
    BY <2>2, <2>3
<1>6. CASE TxIssue(r)
  <2> PICK c \in Token : Fresh(c) /\ Put(r, [req[r] EXCEPT !.child = c, !.pc = "bind"])
    BY <1>6 DEF TxIssue
  <2> DEFINE x == [req[r] EXCEPT !.child = c, !.pc = "bind"]
  <2>1. req[r].pc = "issue" /\ req[r].sess \in Session /\ req[r].op \in Rotations
    BY <1>0, <1>6 DEF TxIssue, Sound
  <2>2. /\ x \in Request /\ x.child = c /\ x.pc = "bind" /\ x.writes = req[r].writes
        /\ x.token = req[r].token /\ x.sess = req[r].sess /\ x.op = req[r].op
    BY <1>0 DEF Request
  <2>3. Put(r, x)
    OBVIOUS
  <2> HIDE DEF x
  <2>4. Sound(x)
    BY <1>0, <2>1, <2>2 DEF Sound, Spends, Opens, Fresh, Issued
  <2>5. \A q \in Req \ {r} : Apart(x, req[q]) /\ Apart(req[q], x)
    BY <2>2 DEF Apart, Fresh, IndInv, Requests
  <2> QED
    BY <1>1, <2>3, <2>4, <2>5, RequestStep
<1>7. CASE TxBind(r)
  <2> DEFINE x == [req[r] EXCEPT !.binds = (req[r].sess \notin Pruned), !.pc = "commit"]
  <2>1. Put(r, x) /\ req[r].pc = "bind"
    BY <1>7 DEF TxBind
  <2>2. /\ x \in Request /\ x.child = req[r].child /\ x.pc = "commit" /\ x.writes = req[r].writes
        /\ x.token = req[r].token /\ x.sess = req[r].sess /\ x.op = req[r].op
    BY <1>0 DEF Request
  <2> HIDE DEF x
  <2>3. Sound(x)
    BY <1>0, <2>1, <2>2 DEF Sound, Spends, Opens
  <2> QED
    BY <1>1, <2>1, <2>2, <2>3, LockStep
<1> QED
  BY <1>2, <1>4, <1>5, <1>6, <1>7

\* The steps of the kill chain and of the requests that revoke sessions.
LEMMA RevocationInv ==
  ASSUME IndInv, NEW r \in Req,
         \/ KillScan(r) \/ KillSession(r) \/ KillThrow(r) \/ LogoutBound(r) \/ OffFirst(r)
         \/ Scan(r) \/ VisitDone(r) \/ Off(r) \/ RevokeOne(r)
         \/ \E t \in Token : KillVisit(r, t) \/ Visit(r, t)
  PROVE  IndInv'
<1> USE DEF Pc, NeedsToken, NeedsSess, OpFits, Rotations
<1>0. /\ Sound(req[r]) /\ req[r] \in Request /\ RowsTyped
      /\ req[r].pc \notin {"bind", "commit"} => req[r].child = None
  BY InFlight
\* A step that rewrites pc, scan, writes and offs, and locks free rows that exist.
<1>1. ASSUME NEW x \in Request, Put(r, x), UNCHANGED rows,
             req[r].pc \notin {"bind", "commit"}, x.child = req[r].child,
             x.token = req[r].token, x.sess = req[r].sess, x.op = req[r].op,
             \A t \in x.writes : t \in req[r].writes \/ (TokenFree(r, t) /\ Exists(t)),
             x.pc \in NeedsToken => req[r].token \in Token,
             x.pc \in NeedsSess => req[r].sess \in Session,
             OpFits(x.pc, x.op),
             x.op \in Rotations => x.pc \notin {"issue", "bind", "commit"}
      PROVE  IndInv'
  <2>1. Sound(x)
    BY <1>0, <1>1 DEF Sound
  <2> QED
    BY <1>0, <1>1, <2>1, LockStep, RowsSame
<1>2. CASE KillScan(r)
  <2> DEFINE F == {t \in Token : /\ Exists(t)
                                 /\ refreshToken[t].familyId =
                                      refreshToken[req[r].token].familyId}
             x == [req[r] EXCEPT !.pc = "kill", !.scan = F]
  <2>1. Put(r, x) /\ UNCHANGED rows /\ req[r].pc = "killScan" /\ F \subseteq Token
    BY <1>2 DEF KillScan
  <2> HIDE DEF F
  <2>2. /\ x \in Request /\ x.child = req[r].child /\ x.token = req[r].token
        /\ x.sess = req[r].sess /\ x.op = req[r].op /\ x.writes = req[r].writes /\ x.pc = "kill"
    BY <1>0, <2>1 DEF Request
  <2> HIDE DEF x
  <2> QED
    BY <1>0, <1>1, <2>1, <2>2 DEF Sound
<1>3. CASE KillSession(r)
  <2> DEFINE x == [req[r] EXCEPT !.pc = "killSession", !.offs = {req[r].sess} \ Pruned]
  <2>1. Put(r, x) /\ UNCHANGED rows /\ req[r].pc = "kill"
    BY <1>3 DEF KillSession
  <2>2. req[r].token \in Token /\ req[r].sess \in Session
    BY <1>0, <2>1 DEF Sound
  <2>3. /\ x \in Request /\ x.child = req[r].child /\ x.token = req[r].token
        /\ x.sess = req[r].sess /\ x.op = req[r].op /\ x.writes = req[r].writes
        /\ x.pc = "killSession"
    BY <1>0, <2>2 DEF Request
  <2> HIDE DEF x
  <2> QED
    BY <1>1, <2>1, <2>2, <2>3
<1>4. CASE KillThrow(r)
  <2>1. req[r].token \in Token
    BY <1>0, <1>4 DEF Sound, KillThrow
  <2>2. RowsTyped' /\ refreshToken' = refreshToken /\ Finish(r)
    BY <1>0, <1>4, <2>1 DEF KillThrow, RowsTyped
  <2> QED
    BY <2>2, FinishStep
<1>5. CASE LogoutBound(r)
  <2> DEFINE W == IF Live(req[r].token) THEN {req[r].token} ELSE {}
             x == [req[r] EXCEPT !.pc = "scan", !.writes = W]
  <2>1. /\ Put(r, x) /\ UNCHANGED rows /\ req[r].pc = "bound" /\ req[r].token \in Token
        /\ TokenFree(r, req[r].token) /\ req[r].op \notin Rotations
    BY <1>0, <1>5 DEF LogoutBound, Sound
  <2>2. W \subseteq Token /\ \A t \in W : TokenFree(r, t) /\ Exists(t)
    BY <2>1 DEF Live, Exists
  <2> HIDE DEF W
  <2>3. /\ x \in Request /\ x.child = req[r].child /\ x.token = req[r].token
        /\ x.sess = req[r].sess /\ x.op = req[r].op /\ x.writes = W /\ x.pc = "scan"
    BY <1>0, <2>2 DEF Request
  <2> HIDE DEF x
  <2> QED
    BY <1>1, <2>1, <2>2, <2>3
<1>6. CASE OffFirst(r)
  <2> DEFINE active == {s \in Session : Valid(s)}
             x == [req[r] EXCEPT !.offs = active, !.pc = "scan"]
  <2>1. /\ Put(r, x) /\ UNCHANGED rows /\ req[r].pc = "offFirst" /\ req[r].op \notin Rotations
        /\ active \subseteq Session
    BY <1>0, <1>6 DEF OffFirst, Sound
  <2> HIDE DEF active
  <2>2. /\ x \in Request /\ x.child = req[r].child /\ x.token = req[r].token
        /\ x.sess = req[r].sess /\ x.op = req[r].op /\ x.writes = req[r].writes /\ x.pc = "scan"
    BY <1>0, <2>1 DEF Request
  <2> HIDE DEF x
  <2> QED
    BY <1>1, <2>1, <2>2
<1>7. CASE Scan(r)
  <2> DEFINE F == {t \in Token : /\ Live(t)
                                 /\ refreshToken[t].sessionId \in req[r].sessions
                                 /\ t \notin req[r].writes}
             x == [req[r] EXCEPT !.pc = "visit", !.scan = F]
  <2>1. /\ Put(r, x) /\ UNCHANGED rows /\ req[r].pc = "scan" /\ req[r].op \notin Rotations
        /\ F \subseteq Token
    BY <1>0, <1>7 DEF Scan, Sound
  <2> HIDE DEF F
  <2>2. /\ x \in Request /\ x.child = req[r].child /\ x.token = req[r].token
        /\ x.sess = req[r].sess /\ x.op = req[r].op /\ x.writes = req[r].writes /\ x.pc = "visit"
    BY <1>0, <2>1 DEF Request
  <2> HIDE DEF x
  <2> QED
    BY <1>1, <2>1, <2>2
<1>8. CASE VisitDone(r)
  <2> DEFINE p == IF req[r].op = "deleteAccount" THEN "commit" ELSE "off"
  <2>1. /\ Goto(r, p) /\ UNCHANGED rows /\ req[r].pc = "visit" /\ req[r].op \notin Rotations
        /\ p \in {"commit", "off"}
    BY <1>0, <1>8 DEF VisitDone, Sound
  <2> HIDE DEF p
  <2> QED
    BY <1>0, <2>1, GotoStep, RowsSame
<1>9. CASE Off(r)
  <2> DEFINE S == IF req[r].op = "suspend" THEN {s \in Session : Valid(s)}
                  ELSE req[r].sessions
             x == [req[r] EXCEPT !.offs = S \ Pruned, !.pc = "commit"]
  <2>1. /\ Put(r, x) /\ UNCHANGED rows /\ req[r].pc = "off" /\ req[r].op \notin Rotations
    BY <1>0, <1>9 DEF Off, Sound
  <2>2. S \subseteq Session
    BY <1>0 DEF Request
  <2> HIDE DEF S
  <2>3. /\ x \in Request /\ x.child = req[r].child /\ x.token = req[r].token
        /\ x.sess = req[r].sess /\ x.op = req[r].op /\ x.writes = req[r].writes /\ x.pc = "commit"
    BY <1>0, <2>2 DEF Request
  <2> HIDE DEF x
  <2> QED
    BY <1>1, <2>1, <2>3
<1>10. CASE RevokeOne(r)
  <2> DEFINE x == [req[r] EXCEPT !.writes = {req[r].token}, !.pc = "commit"]
  <2>1. /\ UNCHANGED rows /\ req[r].pc = "revokeOne" /\ req[r].op \notin Rotations
        /\ TokenFree(r, req[r].token) /\ req[r].token \in Token
    BY <1>0, <1>10 DEF RevokeOne, Sound
  <2>2. /\ x \in Request /\ x.child = req[r].child /\ x.token = req[r].token
        /\ x.sess = req[r].sess /\ x.op = req[r].op /\ x.writes = {req[r].token} /\ x.pc = "commit"
    BY <1>0, <2>1 DEF Request
  <2>3. (Exists(req[r].token) /\ Put(r, x)) \/ Finish(r)
    BY <1>10 DEF RevokeOne
  <2> HIDE DEF x
  <2> QED
    BY <1>0, <1>1, <2>1, <2>2, <2>3, FinishStep, RowsSame
<1>11. ASSUME NEW t \in Token, KillVisit(r, t) \/ Visit(r, t) PROVE IndInv'
  <2> DEFINE W == IF IF req[r].pc = "kill" THEN Exists(t) ELSE Live(t)
                    THEN req[r].writes \cup {t} ELSE req[r].writes
             x == [req[r] EXCEPT !.scan = @ \ {t}, !.writes = W]
  <2>1. UNCHANGED rows /\ req[r].pc \in {"kill", "visit"} /\ TokenFree(r, t)
    BY <1>11 DEF KillVisit, Visit
  <2>2. Put(r, x)
    <3>1. CASE KillVisit(r, t)
      BY <3>1 DEF KillVisit
    <3>2. CASE Visit(r, t)
      BY <3>2 DEF Visit
    <3> QED
      BY <1>11, <3>1, <3>2
  <2>3. W \subseteq Token /\ \A u \in W : u \in req[r].writes \/ (TokenFree(r, u) /\ Exists(u))
    BY <1>0, <2>1 DEF Request, Live, Exists
  <2> HIDE DEF W
  <2>4. /\ x \in Request /\ x.child = req[r].child /\ x.token = req[r].token
        /\ x.sess = req[r].sess /\ x.op = req[r].op /\ x.writes = W /\ x.pc = req[r].pc
    BY <1>0, <2>3 DEF Request
  <2> HIDE DEF x
  <2> QED
    BY <1>0, <1>1, <2>1, <2>2, <2>3, <2>4 DEF Sound
<1> QED
  BY <1>2, <1>3, <1>4, <1>5, <1>6, <1>7, <1>8, <1>9, <1>10, <1>11

-----------------------------------------------------------------------------
\* The three steps that change the refresh-token rows.

\* A login publishes the root of a new family: no row is in it yet.
LEMMA LoginIssueInv ==
  ASSUME IndInv, NEW r \in Req, LoginIssue(r) PROVE IndInv'
<1> USE DEF Pc, NeedsToken, NeedsSess, OpFits, Rotations
<1>0. /\ Sound(req[r]) /\ req[r] \in Request /\ RowsTyped
      /\ req[r].pc = "issue" /\ req[r].op = "login" /\ req[r].child = None
      /\ req[r].sess \in Session
  BY InFlight DEF LoginIssue, Sound
<1> PICK c \in Token : /\ Fresh(c)
                       /\ refreshToken' = [refreshToken EXCEPT ![c] = NewRow(r, c)]
                       /\ Put(r, [req[r] EXCEPT !.pc = "loginBind", !.token = c])
  BY DEF LoginIssue
<1> DEFINE row == NewRow(r, c)
           x == [req[r] EXCEPT !.pc = "loginBind", !.token = c]
<1>1. row = [state |-> "live", parentJti |-> None, familyId |-> c, sessionId |-> req[r].sess]
  BY <1>0 DEF NewRow
<1>2. refreshToken'[c] = row /\ \A t \in Token : t # c => refreshToken'[t] = refreshToken[t]
  BY <1>0 DEF RowsTyped
<1>3. /\ row.state = "live" /\ row.parentJti = None /\ row.familyId = c
      /\ row.sessionId \in Session
      /\ row \in [state: RowState, parentJti: Token \cup {None},
                  familyId: Token, sessionId: Session \cup {None}]
  BY <1>0, <1>1 DEF RowState
<1> HIDE DEF row
<1>4. RowsTyped'
  BY <1>0, <1>3 DEF RowsTyped, LoginIssue, row
<1>5. ~Issued(c) /\ \A q \in Req : req[q].child # c
  BY DEF Fresh, Issued
<1>6. \A t \in Token : t # c => /\ Issued(t)' <=> Issued(t)
                                /\ Live(t)' <=> Live(t)
                                /\ Exists(t)' <=> Exists(t)
  BY <1>2 DEF Issued, Live, Exists
<1>7. Issued(c)' /\ Live(c)'
  BY <1>2, <1>3 DEF Issued, Live
<1>8. Families'
  <2>1. RowsRooted /\ OneLivePerFamily /\ RotatedOnce /\ LineageSpent
    BY DEF IndInv, Families
  <2>2. \A t \in Token : /\ refreshToken[t].familyId \in Token
                         /\ refreshToken[t].parentJti \in Token \cup {None}
    BY <1>0 DEF RowsTyped
  <2>3. \A t \in Token : Live(t) => Issued(t)
    BY DEF Live, Issued
  <2>4. RowsRooted'
    BY <1>2, <1>3, <1>6, <1>7, <2>1, <2>2 DEF RowsRooted, Issued
  <2>5. OneLivePerFamily'
    BY <1>2, <1>3, <1>5, <1>6, <2>1, <2>3 DEF OneLivePerFamily, RowsRooted
  <2>6. RotatedOnce'
    BY <1>2, <1>3, <1>6, <2>1 DEF RotatedOnce
  <2>7. LineageSpent'
    <3> SUFFICES ASSUME NEW t \in Token, Issued(t)', refreshToken'[t].parentJti # None
                 PROVE  LET p == refreshToken'[t].parentJti
                        IN /\ refreshToken'[p].state \in {"revoked", "deleted"}
                           /\ refreshToken'[p].familyId = refreshToken'[t].familyId
      BY DEF LineageSpent
    <3>1. t # c /\ Issued(t) /\ refreshToken'[t] = refreshToken[t]
      BY <1>2, <1>3, <1>6
    <3> DEFINE p == refreshToken[t].parentJti
    <3>2. /\ refreshToken[p].state \in {"revoked", "deleted"}
          /\ refreshToken[p].familyId = refreshToken[t].familyId
      BY <2>1, <3>1 DEF LineageSpent
    <3>3. p \in Token /\ p # c
      BY <1>5, <2>2, <3>1, <3>2 DEF Issued
    <3> QED
      BY <1>2, <3>1, <3>2, <3>3
  <2> QED
    BY <2>4, <2>5, <2>6, <2>7 DEF Families
<1>9. /\ x \in Request /\ x.pc = "loginBind" /\ x.token = c /\ x.writes = req[r].writes
      /\ x.child = None /\ x.sess = req[r].sess /\ x.op = "login"
  BY <1>0 DEF Request
<1>10. Put(r, x)
  OBVIOUS
<1> HIDE DEF x
<1>11. /\ req' \in [Req -> Request] /\ req'[r] = x
       /\ \A q \in Req : q # r => req'[q] = req[q]
  BY <1>9, <1>10 DEF Put, IndInv, Requests
<1>12. \A q \in Req : Sound(req[q]) /\ req[q] \in Request
  BY DEF IndInv, Requests
<1>13. \A q \in Req : q # r => Sound(req[q])'
  <2> SUFFICES ASSUME NEW q \in Req, q # r PROVE Sound(req[q])'
    OBVIOUS
  <2>1. Sound(req[q]) /\ req'[q] = req[q] /\ req[q] \in Request
    BY <1>11, <1>12
  <2>2. \A t \in req[q].writes : t \in Token /\ t # c
    BY <1>5, <2>1 DEF Sound, Exists, Issued, Request
  <2>3. req[q].child # c /\ req[q].child \in Token \cup {None}
    BY <1>5, <2>1 DEF Request
  <2> QED
    BY <1>6, <2>1, <2>2, <2>3 DEF Sound, Spends, Opens
<1>14. Sound(req[r])'
  <2>1. \A t \in req[r].writes : t \in Token /\ t # c /\ Exists(t)
    BY <1>0, <1>5 DEF Sound, Exists, Issued, Request
  <2> QED
    BY <1>0, <1>6, <1>9, <1>11, <2>1 DEF Sound
<1>15. Requests'
  BY <1>9, <1>11, <1>13, <1>14 DEF Requests, IndInv, Apart
<1> QED
  BY <1>4, <1>8, <1>15 DEF IndInv

\* A commit revokes the rows the transaction locked and publishes its child.
\* The child of a rotation joins a family whose only live row was its parent,
\* and that row is among the revoked ones.
LEMMA CommitInv ==
  ASSUME IndInv, NEW r \in Req, Commit(r) PROVE IndInv'
<1> USE DEF Pc, NeedsToken, NeedsSess, OpFits, Rotations
<1> PICK W, c, row : W = req[r].writes /\ c = req[r].child /\ row = NewRow(r, c)
  OBVIOUS
<1>0. /\ Sound(req[r]) /\ req[r] \in Request /\ RowsTyped /\ req[r].pc = "commit"
      /\ W \subseteq Token /\ c \in Token \cup {None} /\ \A t \in W : Exists(t)
      /\ c # None => c \in Token /\ ~Issued(c) /\ req[r].sess \in Session
      /\ req[r].op = "refresh" => req[r].token \in W /\ Live(req[r].token)
  BY InFlight DEF Commit, Sound, Spends, Opens, Request
<1>1. \A t \in Token : refreshToken[t] \in [state: RowState, parentJti: Token \cup {None},
                                            familyId: Token, sessionId: Session \cup {None}]
  BY <1>0 DEF RowsTyped
<1>2. /\ \A t \in Token : t = c => refreshToken'[t] = row
      /\ \A t \in Token : t # c /\ t \in W =>
           refreshToken'[t] = [refreshToken[t] EXCEPT !.state = "revoked"]
      /\ \A t \in Token : t # c /\ t \notin W => refreshToken'[t] = refreshToken[t]
  BY DEF Commit
<1>3. c # None =>
        /\ row.state = "live" /\ row.sessionId \in Session
        /\ req[r].op = "refresh" => /\ row.parentJti = req[r].token
                                    /\ row.familyId = refreshToken[req[r].token].familyId
        /\ req[r].op # "refresh" => row.parentJti = None /\ row.familyId = c
        /\ row \in [state: RowState, parentJti: Token \cup {None},
                    familyId: Token, sessionId: Session \cup {None}]
  BY <1>0, <1>1 DEF NewRow, RowState
<1>4. \A t \in Token : t # c =>
        /\ refreshToken'[t].familyId = refreshToken[t].familyId
        /\ refreshToken'[t].parentJti = refreshToken[t].parentJti
        /\ refreshToken'[t].sessionId = refreshToken[t].sessionId
        /\ refreshToken'[t].state = IF t \in W THEN "revoked" ELSE refreshToken[t].state
        /\ refreshToken'[t] \in [state: RowState, parentJti: Token \cup {None},
                                 familyId: Token, sessionId: Session \cup {None}]
  <2> SUFFICES ASSUME NEW t \in Token, t # c
               PROVE  /\ refreshToken'[t].familyId = refreshToken[t].familyId
                      /\ refreshToken'[t].parentJti = refreshToken[t].parentJti
                      /\ refreshToken'[t].sessionId = refreshToken[t].sessionId
                      /\ refreshToken'[t].state =
                           IF t \in W THEN "revoked" ELSE refreshToken[t].state
                      /\ refreshToken'[t] \in [state: RowState, parentJti: Token \cup {None},
                                               familyId: Token, sessionId: Session \cup {None}]
    OBVIOUS
  <2> PICK old : old = refreshToken[t]
    OBVIOUS
  <2>1. old \in [state: RowState, parentJti: Token \cup {None},
                 familyId: Token, sessionId: Session \cup {None}]
    BY <1>1
  <2>2. CASE t \in W
    <3>1. refreshToken'[t] = [old EXCEPT !.state = "revoked"]
      BY <1>2, <2>2
    <3> QED
      BY <2>1, <2>2, <3>1 DEF RowState
  <2>3. CASE t \notin W
    BY <1>2, <2>1, <2>3
  <2> QED
    BY <2>2, <2>3
<1>5. \A t \in Token : t # c => /\ Issued(t)' <=> Issued(t)
                                /\ Live(t)' <=> Live(t) /\ t \notin W
                                /\ Exists(t)' <=> Exists(t)
  BY <1>0, <1>4 DEF Issued, Live, Exists
<1>6. c # None => Issued(c)' /\ Live(c)' /\ c \notin W /\ ~Live(c)
  BY <1>0, <1>2, <1>3 DEF Issued, Live, Exists
<1>7. RowsTyped'
  <2>1. refreshToken' \in [Token -> [state: RowState, parentJti: Token \cup {None},
                                     familyId: Token, sessionId: Session \cup {None}]]
    BY <1>0, <1>2, <1>3, <1>4, NoneAssumption DEF Commit
  <2>2. session' \in [Session -> [state: {"none", "valid", "invalid", "pruned"},
                                  refreshTokenId: Token \cup {None}]]
    BY <1>0 DEF Commit, RowsTyped
  <2>3. closed' \subseteq Session
    BY <1>0 DEF Commit, RowsTyped, Request
  <2> QED
    BY <1>0, <2>1, <2>2, <2>3 DEF RowsTyped, Commit
<1>8. Families'
  <2>1. RowsRooted /\ OneLivePerFamily /\ RotatedOnce /\ LineageSpent
    BY DEF IndInv, Families
  <2>2. \A t \in Token : /\ refreshToken[t].familyId \in Token
                         /\ refreshToken[t].parentJti \in Token \cup {None}
    BY <1>1
  <2>3. \A t \in Token : Live(t) => Issued(t)
    BY DEF Live, Issued
  <2>4. RowsRooted'
    <3>1. \A t \in Token : Issued(t) => Issued(t)'
      BY <1>5, <1>6, NoneAssumption
    <3>2. ASSUME NEW t \in Token, Issued(t)', t # c
          PROVE  refreshToken'[t].sessionId \in Session /\ Issued(refreshToken[t].familyId)'
      <4> PICK f : f = refreshToken[t].familyId
        OBVIOUS
      <4>1. f \in Token /\ Issued(f) /\ refreshToken'[t].familyId = f
        BY <1>4, <1>5, <2>1, <2>2, <3>2 DEF RowsRooted
      <4> QED
        BY <1>4, <1>5, <2>1, <3>1, <3>2, <4>1 DEF RowsRooted, Issued
    <3>3. ASSUME c # None
          PROVE  /\ row.sessionId \in Session
                 /\ row.familyId \in Token /\ Issued(row.familyId)'
      BY <1>0, <1>3, <1>6, <2>1, <2>2, <2>3, <3>1, <3>3 DEF RowsRooted
    <3> QED
      BY <1>2, <3>2, <3>3, NoneAssumption DEF RowsRooted, Issued
  <2>5. OneLivePerFamily'
    <3>1. ASSUME NEW u \in Token, u # c, Live(u)', c # None
          PROVE  refreshToken'[u].familyId # row.familyId
      <4>1. Live(u) /\ u \notin W /\ refreshToken'[u].familyId = refreshToken[u].familyId
        BY <1>4, <1>5, <3>1
      <4>2. CASE req[r].op = "refresh"
        BY <1>0, <1>3, <2>1, <3>1, <4>1, <4>2 DEF OneLivePerFamily
      <4>3. CASE req[r].op # "refresh"
        BY <1>0, <1>3, <2>1, <2>3, <3>1, <4>1, <4>3 DEF RowsRooted
      <4> QED
        BY <4>2, <4>3
    <3> QED
      BY <1>2, <1>4, <1>5, <2>1, <3>1, NoneAssumption DEF OneLivePerFamily
  <2>6. \A t \in Token : Issued(t) /\ refreshToken[t].parentJti # None =>
          /\ refreshToken[t].parentJti \in Token
          /\ ~Live(refreshToken[t].parentJti)
          /\ refreshToken[t].parentJti # c
    BY <1>0, <2>1, <2>2 DEF LineageSpent, Live, Issued
  <2>7. RotatedOnce'
    <3>1. ASSUME NEW u \in Token, u # c, Issued(u)', c # None, row.parentJti # None
          PROVE  refreshToken'[u].parentJti # row.parentJti
      BY <1>0, <1>3, <1>4, <1>5, <2>6, <3>1
    <3> QED
      BY <1>2, <1>4, <1>5, <2>1, <3>1, NoneAssumption DEF RotatedOnce
  <2>8. LineageSpent'
    <3>1. ASSUME NEW t \in Token, Issued(t)', refreshToken'[t].parentJti # None, t # c
          PROVE  LET p == refreshToken'[t].parentJti
                 IN /\ refreshToken'[p].state \in {"revoked", "deleted"}
                    /\ refreshToken'[p].familyId = refreshToken'[t].familyId
      BY <1>4, <1>5, <2>1, <2>6, <3>1 DEF LineageSpent
    <3>2. ASSUME c # None, row.parentJti # None
          PROVE  /\ refreshToken'[row.parentJti].state \in {"revoked", "deleted"}
                 /\ refreshToken'[row.parentJti].familyId = row.familyId
      BY <1>0, <1>3, <1>4, <1>6, <3>2
    <3> QED
      BY <1>2, <3>1, <3>2, NoneAssumption DEF LineageSpent
  <2> QED
    BY <2>4, <2>5, <2>7, <2>8 DEF Families
<1> PICK x : x = IF req[r].op = "deleteAccount"
                   THEN [Idle EXCEPT !.op = "deleteAccount", !.pc = "erase"] ELSE Idle
  OBVIOUS
<1>9. /\ x \in Request /\ x.writes = {} /\ x.child = None
       /\ x.pc \in {"idle", "erase"}
  <2> DEFINE y == [Idle EXCEPT !.op = "deleteAccount", !.pc = "erase"]
  <2>1. y \in Request /\ y.writes = {} /\ y.child = None /\ y.pc = "erase"
    BY DEF Idle, Request, OpName
  <2>2. Idle.pc = "idle"
    BY DEF Idle
  <2> HIDE DEF y
  <2>3. x = y \/ x = Idle
    BY DEF y
  <2> QED
    BY <2>1, <2>2, <2>3, IdleSound
<1>10. /\ req' \in [Req -> Request] /\ req'[r] = x
      /\ \A q \in Req : q # r => req'[q] = req[q]
  <2>1. Put(r, x)
    BY DEF Commit, Finish
  <2> QED
    BY <1>9, <2>1 DEF Put, IndInv, Requests
<1>11. \A q \in Req : q # r => Sound(req[q])'
  <2> SUFFICES ASSUME NEW q \in Req, q # r PROVE Sound(req[q])'
    OBVIOUS
  <2>1. Sound(req[q]) /\ req'[q] = req[q] /\ req[q] \in Request /\ Apart(req[r], req[q])
    BY <1>10 DEF IndInv, Requests
  <2>2. \A t \in req[q].writes : t \in Token /\ t # c /\ t \notin W
    <3>1. \A t \in req[q].writes : t \in Token /\ Exists(t)
      BY <2>1 DEF Sound, Request
    <3>2. \A t \in req[q].writes : t \notin W
      BY <2>1 DEF Apart
    <3>3. \A t \in Token : Exists(t) => Issued(t)
      BY DEF Exists, Issued
    <3> QED
      BY <1>0, <3>1, <3>2, <3>3, NoneAssumption
  <2>3. req[q].child # None => req[q].child \in Token /\ req[q].child # c
    BY <2>1 DEF Request, Apart
  <2> QED
    BY <1>5, <2>1, <2>2, <2>3 DEF Sound, Spends, Opens
<1>12. Sound(req[r])'
  BY <1>9, <1>10 DEF Sound
<1>13. \A q \in Req : q # r => Apart(x, req[q]) /\ Apart(req[q], x)
  BY <1>9 DEF Apart
<1>14. \A p, q \in Req : p # q => Apart(req[p], req[q])'
  <2>1. \A p, q \in Req : p # q => Apart(req[p], req[q])
    BY DEF IndInv, Requests
  <2>2. \A p, q \in Req : p # q => Apart(req'[p], req'[q])
    BY <1>10, <1>13, <2>1
  <2> QED
    BY <2>2 DEF Apart
<1>15. Requests'
  BY <1>10, <1>11, <1>12, <1>14 DEF Requests
<1> QED
  BY <1>7, <1>8, <1>15 DEF IndInv

\* Clean-up deletes a row nobody holds: parents go from revoked to deleted.
LEMMA CleanupInv ==
  ASSUME IndInv, NEW t \in Token, Cleanup(t) PROVE IndInv'
<1> USE DEF Pc, NeedsToken, NeedsSess, OpFits, Rotations
<1>0. /\ RowsTyped /\ Exists(t) /\ \A q \in Req : t \notin req[q].writes
      /\ refreshToken' = [refreshToken EXCEPT ![t].state = "deleted"] /\ req' = req
  BY DEF IndInv, Cleanup, LockedBy, Exists, Live
<1>1. RowsTyped'
  BY <1>0 DEF RowsTyped, RowState, Cleanup
<1>2. \A u \in Token :
        /\ refreshToken'[u].familyId = refreshToken[u].familyId
        /\ refreshToken'[u].parentJti = refreshToken[u].parentJti
        /\ refreshToken'[u].sessionId = refreshToken[u].sessionId
        /\ refreshToken'[u].state = IF u = t THEN "deleted" ELSE refreshToken[u].state
        /\ refreshToken[u].familyId \in Token /\ refreshToken[u].parentJti \in Token \cup {None}
  BY <1>0 DEF RowsTyped
<1>3. \A u \in Token : /\ Issued(u)' <=> Issued(u)
                       /\ Live(u)' => Live(u)
                       /\ u # t => (Live(u)' <=> Live(u)) /\ (Exists(u)' <=> Exists(u))
  BY <1>0, <1>2 DEF Issued, Live, Exists
<1>4. Families'
  BY <1>2, <1>3 DEF IndInv, Families, RowsRooted, OneLivePerFamily, RotatedOnce, LineageSpent
<1>5. \A q \in Req : Sound(req[q])'
  <2> SUFFICES ASSUME NEW q \in Req PROVE Sound(req[q])'
    OBVIOUS
  <2>1. Sound(req[q]) /\ req[q] \in Request
    BY DEF IndInv, Requests
  <2>2. \A u \in req[q].writes : u \in Token /\ u # t
    BY <1>0, <2>1 DEF Request
  <2>3. req[q].child \in Token \cup {None}
    BY <2>1 DEF Request
  <2> QED
    BY <1>0, <1>3, <2>1, <2>2, <2>3 DEF Sound, Spends, Opens
<1>6. Requests'
  BY <1>0, <1>5 DEF IndInv, Requests, Apart
<1> QED
  BY <1>1, <1>4, <1>6 DEF IndInv

\* Deleting the identity deletes every row; no transaction holds any of them.
LEMMA EraseInv ==
  ASSUME IndInv, NEW r \in Req, Erase(r) PROVE IndInv'
<1> USE DEF Pc, NeedsToken, NeedsSess, OpFits, Rotations
<1>0. RowsTyped /\ Finish(r) /\ \A q \in Req \ {r} : req[q].writes = {} /\ req[q].child = None
  BY DEF IndInv, Erase
<1>1. \A u \in Token :
        /\ refreshToken'[u].familyId = refreshToken[u].familyId
        /\ refreshToken'[u].parentJti = refreshToken[u].parentJti
        /\ refreshToken'[u].sessionId = refreshToken[u].sessionId
        /\ refreshToken'[u].state = IF Exists(u) THEN "deleted" ELSE refreshToken[u].state
        /\ refreshToken[u].familyId \in Token /\ refreshToken[u].parentJti \in Token \cup {None}
        /\ refreshToken'[u] \in [state: RowState, parentJti: Token \cup {None},
                                 familyId: Token, sessionId: Session \cup {None}]
  <2> SUFFICES ASSUME NEW u \in Token
               PROVE  /\ refreshToken'[u].familyId = refreshToken[u].familyId
                      /\ refreshToken'[u].parentJti = refreshToken[u].parentJti
                      /\ refreshToken'[u].sessionId = refreshToken[u].sessionId
                      /\ refreshToken'[u].state =
                           IF Exists(u) THEN "deleted" ELSE refreshToken[u].state
                      /\ refreshToken[u].familyId \in Token
                      /\ refreshToken[u].parentJti \in Token \cup {None}
                      /\ refreshToken'[u] \in [state: RowState, parentJti: Token \cup {None},
                                               familyId: Token, sessionId: Session \cup {None}]
    OBVIOUS
  <2> PICK old : old = refreshToken[u]
    OBVIOUS
  <2>1. old \in [state: RowState, parentJti: Token \cup {None},
                 familyId: Token, sessionId: Session \cup {None}]
    BY <1>0 DEF RowsTyped
  <2>2. CASE Exists(u)
    <3>1. refreshToken'[u] = [old EXCEPT !.state = "deleted"]
      BY <2>2 DEF Erase
    <3> QED
      BY <2>1, <2>2, <3>1 DEF RowState
  <2>3. CASE ~Exists(u)
    <3>1. refreshToken'[u] = old
      BY <2>3 DEF Erase
    <3> QED
      BY <2>1, <2>3, <3>1
  <2> QED
    BY <2>2, <2>3
<1>2. RowsTyped'
  <2>1. refreshToken' \in [Token -> [state: RowState, parentJti: Token \cup {None},
                                     familyId: Token, sessionId: Session \cup {None}]]
    BY <1>1 DEF Erase
  <2>2. session' \in [Session -> [state: {"none", "valid", "invalid", "pruned"},
                                  refreshTokenId: Token \cup {None}]]
    BY DEF Erase
  <2> QED
    BY <1>0, <2>1, <2>2 DEF Erase, RowsTyped
<1>3. \A u \in Token : (Issued(u)' <=> Issued(u)) /\ ~Live(u)'
  BY <1>1 DEF Issued, Live, Exists
<1>4. Families'
  <2>1. RowsRooted /\ OneLivePerFamily /\ RotatedOnce /\ LineageSpent
    BY DEF IndInv, Families
  <2>2. RowsRooted' /\ OneLivePerFamily' /\ RotatedOnce'
    BY <1>1, <1>3, <2>1 DEF RowsRooted, OneLivePerFamily, RotatedOnce
  <2>3. LineageSpent'
    BY <1>1, <1>3, <2>1 DEF LineageSpent, Exists
  <2> QED
    BY <2>2, <2>3 DEF Families
<1>5. /\ req' \in [Req -> Request] /\ req'[r] = Idle
      /\ \A q \in Req : q # r => req'[q] = req[q]
  BY <1>0, IdleSound DEF Finish, Put, IndInv, Requests
<1>6. \A q \in Req : q # r => Sound(req[q])'
  <2> SUFFICES ASSUME NEW q \in Req, q # r PROVE Sound(req[q])'
    OBVIOUS
  <2>1. Sound(req[q]) /\ req'[q] = req[q] /\ req[q].writes = {} /\ req[q].child = None
    BY <1>0, <1>5 DEF IndInv, Requests
  <2> QED
    BY <2>1 DEF Sound, Spends, Opens
<1>7. Sound(req[r])'
  BY <1>5, IdleSound DEF Sound, Idle
<1>8. Requests'
  BY <1>5, <1>6, <1>7, IdleSound DEF Requests, IndInv, Apart
<1> QED
  BY <1>2, <1>4, <1>8 DEF IndInv

-----------------------------------------------------------------------------
\* Every step of the system preserves the invariant.
LEMMA NextInv == IndInv /\ [Next]_vars => IndInv'
<1> SUFFICES ASSUME IndInv, [Next]_vars PROVE IndInv'
  OBVIOUS
<1>1. ASSUME NEW r \in Req, Start(r) PROVE IndInv'
  BY <1>1, StartInv
<1>2. ASSUME NEW r \in Req, Step(r) PROVE IndInv'
  <2>1. CASE LoginCount(r) \/ LoginEvict(r) \/ LoginCreate(r) \/ LoginBind(r)
    BY <2>1, LoginInv
  <2>2. CASE RefreshIdentity(r) \/ RefreshCas(r) \/ TxIssue(r) \/ TxBind(r) \/ SwitchCas(r)
    BY <2>2, RotationInv
  <2>3. CASE \/ KillScan(r) \/ KillSession(r) \/ KillThrow(r) \/ LogoutBound(r) \/ OffFirst(r)
             \/ Scan(r) \/ VisitDone(r) \/ Off(r) \/ RevokeOne(r)
             \/ \E t \in Token : KillVisit(r, t) \/ Visit(r, t)
    BY <2>3, RevocationInv
  <2>4. CASE Abort(r)
    BY <2>4, FinishStep, RowsSame DEF Abort, IndInv
  <2> QED
    BY <1>2, <2>1, <2>2, <2>3, <2>4, LoginIssueInv, CommitInv, EraseInv DEF Step
<1>3. ASSUME UNCHANGED <<refreshToken, req, replayed, closed>>, expired' \subseteq Token,
             session' \in [Session -> [state: {"none", "valid", "invalid", "pruned"},
                                       refreshTokenId: Token \cup {None}]], status' \in {"ACTIVE", "SUSPENDED", "DELETED"}
      PROVE  IndInv'
  <2>1. RowsTyped'
    BY <1>3 DEF IndInv, RowsTyped
  <2>2. Families'
    BY <1>3 DEF IndInv, Families, RowsRooted, OneLivePerFamily, RotatedOnce,
                LineageSpent, Issued, Live
  <2>3. Requests'
    BY <1>3 DEF IndInv, Requests, Sound, Spends, Opens, Apart, Exists, Issued, Live
  <2> QED
    BY <2>1, <2>2, <2>3 DEF IndInv
<1>4. CASE Reinstate
  BY <1>3, <1>4 DEF Reinstate, IndInv, RowsTyped
<1>5. ASSUME NEW t \in Token, Expire(t) PROVE IndInv'
  BY <1>3, <1>5 DEF Expire, IndInv, RowsTyped
<1>7. ASSUME NEW s \in Session, CleanupSession(s) PROVE IndInv'
  BY <1>3, <1>7 DEF CleanupSession, IndInv, RowsTyped
<1>6. CASE UNCHANGED vars
  BY <1>3, <1>6 DEF vars, IndInv, RowsTyped
<1> QED
  BY <1>1, <1>2, <1>4, <1>5, <1>6, <1>7, CleanupInv DEF Next

\* The invariant holds in every reachable state.
LEMMA Invariance == Spec => []IndInv
  BY InitInv, NextInv, PTL DEF Spec

\* Type correctness of the rows and of every request in progress, for any
\* number of tokens, sessions and concurrent requests.
THEOREM TypeCorrect == Spec => []TypeOK
<1>1. IndInv => TypeOK
  BY DEF IndInv, RowsTyped, Requests, TypeOK
<1> QED
  BY <1>1, Invariance, PTL

\* The compare-and-swap of tokenRefreshFlow is enough: whatever the number of
\* concurrent refreshes, switches, revocations, aborts and clean-ups, a family
\* never has two usable refresh tokens.
THEOREM FamilySafety == Spec => []OneLivePerFamily
<1>1. IndInv => OneLivePerFamily
  BY DEF IndInv, Families
<1> QED
  BY <1>1, Invariance, PTL

\* No refresh token is ever rotated twice, not even across the deletion of its
\* row by the clean-up job.
THEOREM RotationUnique == Spec => []RotatedOnce
<1>1. IndInv => RotatedOnce
  BY DEF IndInv, Families
<1> QED
  BY <1>1, Invariance, PTL

\* The parent of a rotated token is spent for good and shares its family.
THEOREM LineageSafety == Spec => []LineageSpent
<1>1. IndInv => LineageSpent
  BY DEF IndInv, Families
<1> QED
  BY <1>1, Invariance, PTL

\* Only a login's insert, a commit, the clean-up and the deletion of the identity
\* change the refresh-token rows.
LEMMA RowsChange ==
  ASSUME [Next]_vars
  PROVE  \/ refreshToken' = refreshToken
         \/ \E r \in Req : LoginIssue(r) \/ Commit(r) \/ Erase(r)
         \/ \E u \in Token : Cleanup(u)
<1>1. ASSUME NEW r \in Req, Start(r) PROVE refreshToken' = refreshToken
  BY <1>1 DEF Start, rows, LoginStart, ResetRead, Suspend, DeleteAccount, RefreshRead,
              RevokeRead, SwitchRead, LogoutRead, DeleteSession, PasswordRead
<1>2. ASSUME NEW r \in Req, Step(r), ~LoginIssue(r), ~Commit(r), ~Erase(r)
      PROVE  refreshToken' = refreshToken
  <2>1. CASE LoginCount(r) \/ LoginEvict(r) \/ LoginCreate(r) \/ LoginBind(r)
    BY <2>1 DEF rows, LoginCount, LoginEvict, LoginCreate, LoginBind
  <2>2. CASE \/ RefreshIdentity(r) \/ RefreshCas(r) \/ TxIssue(r) \/ TxBind(r)
             \/ SwitchCas(r) \/ Abort(r)
    BY <2>2 DEF rows, RefreshIdentity, RefreshCas, TxIssue, TxBind, SwitchCas, Abort
  <2>3. CASE \/ KillScan(r) \/ KillSession(r) \/ KillThrow(r)
             \/ \E u \in Token : KillVisit(r, u)
    BY <2>3 DEF rows, KillScan, KillSession, KillThrow, KillVisit
  <2>4. CASE \/ LogoutBound(r) \/ OffFirst(r) \/ Scan(r) \/ VisitDone(r) \/ Off(r)
             \/ RevokeOne(r) \/ \E u \in Token : Visit(r, u)
    BY <2>4 DEF rows, LogoutBound, OffFirst, Scan, VisitDone, Off, RevokeOne, Visit
  <2> QED
    BY <1>2, <2>1, <2>2, <2>3, <2>4 DEF Step
<1>3. ASSUME Reinstate \/ (\E u \in Token : Expire(u))
               \/ (\E s \in Session : CleanupSession(s))
      PROVE  refreshToken' = refreshToken
  BY <1>3 DEF Reinstate, Expire, CleanupSession
<1>4. ASSUME UNCHANGED vars PROVE refreshToken' = refreshToken
  BY <1>4 DEF vars
<1> QED
  BY <1>1, <1>2, <1>3, <1>4 DEF Next

\* A rotated token becomes visible in the very step that revokes its live
\* parent, and a spent token is never usable again.
THEOREM RotationAtomic == Spec => RotationConsumesLive
<1> DEFINE Body(t) ==
      /\ (~Issued(t) /\ Issued(t)' /\ refreshToken'[t].parentJti # None) =>
           LET p == refreshToken'[t].parentJti
           IN Live(p) /\ refreshToken'[p].state = "revoked"
      /\ (Issued(t) /\ ~Live(t)) => ~Live(t)'
<1>1. ASSUME IndInv, [Next]_vars, NEW t \in Token PROVE Body(t)
  <2>1. CASE refreshToken' = refreshToken
    BY <2>1 DEF Issued, Live
  <2>2. ASSUME NEW r \in Req, LoginIssue(r) PROVE Body(t)
    <3>0. RowsTyped /\ req[r].op = "login"
      BY <1>1, <2>2 DEF IndInv, LoginIssue
    <3> PICK c \in Token : refreshToken' = [refreshToken EXCEPT ![c] = NewRow(r, c)] /\ Fresh(c)
      BY <2>2 DEF LoginIssue
    <3>1. NewRow(r, c).parentJti = None /\ ~Issued(c)
      BY <3>0 DEF NewRow, Fresh, Issued
    <3>2. CASE t = c
      BY <3>0, <3>1, <3>2 DEF RowsTyped
    <3>3. CASE t # c
      <4>1. refreshToken'[t] = refreshToken[t]
        BY <3>0, <3>3 DEF RowsTyped
      <4> QED
        BY <4>1 DEF Issued, Live
    <3> QED
      BY <3>2, <3>3
  <2>3. ASSUME NEW r \in Req, Commit(r) PROVE Body(t)
    <3> PICK W, c, row : W = req[r].writes /\ c = req[r].child /\ row = NewRow(r, c)
      OBVIOUS
    <3>0. /\ Sound(req[r]) /\ req[r] \in Request /\ RowsTyped /\ req[r].pc = "commit"
          /\ W \subseteq Token /\ c \in Token \cup {None} /\ \A u \in W : Exists(u)
          /\ c # None => c \in Token /\ ~Issued(c)
          /\ req[r].op = "refresh" => req[r].token \in W /\ Live(req[r].token)
      BY <1>1, <2>3, InFlight DEF Commit, Sound, Spends, Opens, Request, Rotations
    <3>1. /\ \A u \in Token : u = c => refreshToken'[u] = row
          /\ \A u \in Token : u # c /\ u \in W =>
               refreshToken'[u] = [refreshToken[u] EXCEPT !.state = "revoked"]
          /\ \A u \in Token : u # c /\ u \notin W => refreshToken'[u] = refreshToken[u]
      BY <2>3 DEF Commit
    <3>2. \A u \in W : u # c
      BY <3>0, NoneAssumption DEF Exists, Issued
    <3>3. \A u \in W : refreshToken'[u].state = "revoked"
      <4> SUFFICES ASSUME NEW u \in W PROVE refreshToken'[u].state = "revoked"
        OBVIOUS
      <4> PICK old : old = refreshToken[u]
        OBVIOUS
      <4>1. old \in [state: RowState, parentJti: Token \cup {None},
                     familyId: Token, sessionId: Session \cup {None}]
        BY <3>0 DEF RowsTyped
      <4>2. refreshToken'[u] = [old EXCEPT !.state = "revoked"]
        BY <3>0, <3>1, <3>2
      <4> QED
        BY <4>1, <4>2
    <3>4. CASE t = c
      <4>1. c \in Token /\ ~Issued(c) /\ refreshToken'[t] = row
        BY <3>0, <3>1, <3>4, NoneAssumption
      <4>2. row.parentJti = IF req[r].op = "refresh" THEN req[r].token ELSE None
        BY DEF NewRow
      <4> QED
        BY <3>0, <3>3, <3>4, <4>1, <4>2
    <3>5. CASE t \in W
      BY <3>0, <3>3, <3>5 DEF Exists, Issued, Live
    <3>6. CASE t # c /\ t \notin W
      <4>1. refreshToken'[t] = refreshToken[t]
        BY <3>1, <3>6
      <4> QED
        BY <4>1 DEF Issued, Live
    <3> QED
      BY <3>4, <3>5, <3>6
  <2>4. ASSUME NEW u \in Token, Cleanup(u) PROVE Body(t)
    <3>1. RowsTyped /\ Exists(u) /\ refreshToken' = [refreshToken EXCEPT ![u].state = "deleted"]
      BY <1>1, <2>4 DEF IndInv, Cleanup, Exists, Live
    <3>2. refreshToken'[t].state = IF t = u THEN "deleted" ELSE refreshToken[t].state
      BY <3>1 DEF RowsTyped
    <3> QED
      BY <3>1, <3>2 DEF Issued, Live, Exists
  <2>5. ASSUME NEW r \in Req, Erase(r) PROVE Body(t)
    <3>1. refreshToken'[t].state = IF Exists(t) THEN "deleted" ELSE refreshToken[t].state
      <4>1. refreshToken[t] \in [state: RowState, parentJti: Token \cup {None},
                                 familyId: Token, sessionId: Session \cup {None}]
        BY <1>1 DEF IndInv, RowsTyped
      <4> QED
        BY <2>5, <4>1 DEF Erase
    <3> QED
      BY <3>1 DEF Issued, Live, Exists
  <2>6. \/ refreshToken' = refreshToken
        \/ \E r \in Req : LoginIssue(r) \/ Commit(r) \/ Erase(r)
        \/ \E u \in Token : Cleanup(u)
    BY <1>1, RowsChange
  <2> QED
    BY <2>1, <2>2, <2>3, <2>4, <2>5, <2>6
<1>2. IndInv /\ [Next]_vars => [\A t \in Token : Body(t)]_vars
  BY <1>1
<1> QED
  BY <1>2, Invariance, PTL DEF Spec, RotationConsumesLive

-----------------------------------------------------------------------------
\* RefreshTokens implements TokenFamily.

\* What the refinement mapping yields where no family has two live tokens.
Mapped ==
  /\ \A t \in Token : Live(t) => Current[refreshToken[t].familyId] = t
  /\ \A f \in Token : (\A t \in Token : Live(t) => refreshToken[t].familyId # f) =>
       Current[f] = None
  /\ Current = [f \in Token |-> Current[f]]

LEMMA MappedAlways == (IndInv => Mapped) /\ (IndInv' => Mapped')
<1>1. ASSUME IndInv PROVE Mapped
  <2>1. \A t \in Token : refreshToken[t].familyId \in Token
    BY <1>1 DEF IndInv, RowsTyped
  <2>2. ASSUME NEW t \in Token, Live(t) PROVE LiveIn(refreshToken[t].familyId) = {t}
    BY <1>1, <2>2 DEF IndInv, Families, OneLivePerFamily, LiveIn
  <2>3. ASSUME NEW t \in Token, Live(t) PROVE Current[refreshToken[t].familyId] = t
    BY <2>1, <2>2, <2>3 DEF Current
  <2>4. ASSUME NEW f \in Token, \A t \in Token : Live(t) => refreshToken[t].familyId # f
        PROVE  Current[f] = None
    BY <2>4 DEF Current, LiveIn
  <2>5. Current = [f \in Token |-> Current[f]]
    BY DEF Current
  <2> QED
    BY <2>3, <2>4, <2>5 DEF Mapped
<1>2. ASSUME IndInv' PROVE Mapped'
  <2>1. \A t \in Token : refreshToken'[t].familyId \in Token
    BY <1>2 DEF IndInv, RowsTyped
  <2>2. ASSUME NEW t \in Token, Live(t)' PROVE LiveIn(refreshToken[t].familyId)' = {t}
    BY <1>2, <2>2 DEF IndInv, Families, OneLivePerFamily, LiveIn
  <2>3. ASSUME NEW t \in Token, Live(t)' PROVE (Current[refreshToken[t].familyId])' = t
    BY <2>1, <2>2, <2>3 DEF Current
  <2>4. ASSUME NEW f \in Token, \A t \in Token : (Live(t) => refreshToken[t].familyId # f)'
        PROVE  Current'[f] = None
    BY <2>4 DEF Current, LiveIn
  <2>5. Current' = [f \in Token |-> Current'[f]]
    BY DEF Current
  <2> QED
    BY <2>3, <2>4, <2>5 DEF Mapped
<1> QED
  BY <1>1, <1>2

\* Revocation, clean-up, deletion: whatever stops being usable is a Revoke.
LEMMA RevokeStep ==
  ASSUME Mapped, Mapped', IndInv,
         \A u \in Token : /\ refreshToken'[u].familyId = refreshToken[u].familyId
                          /\ Issued(u)' <=> Issued(u)
                          /\ Live(u)' => Live(u)
  PROVE  Family!Next
<1> DEFINE F == {f \in Token : \A t \in Token : Live(t)' => refreshToken'[t].familyId # f}
<1>1. \A f \in Token : Current'[f] = IF f \in F THEN None ELSE Current[f]
  BY DEF Mapped
<1>2. Current' = [f \in Token |-> IF f \in F THEN None ELSE Current[f]]
  BY <1>1 DEF Mapped
<1>3. UNCHANGED {t \in Token : Issued(t)}
  BY DEF Issued
<1>4. F \in SUBSET Token
  OBVIOUS
<1>5. Family!Revoke(F)
  BY <1>2, <1>3 DEF Family!Revoke
<1> QED
  BY <1>4, <1>5 DEF Family!Next

\* A login that issues the root of a family opens it, and so does the context
\* switch of a session without a token.
LEMMA OpenStep ==
  ASSUME Mapped, Mapped', IndInv, NEW c \in Token, ~Issued(c),
         refreshToken'[c].state = "live", refreshToken'[c].familyId = c,
         \A u \in Token : u # c => refreshToken'[u] = refreshToken[u]
  PROVE  Family!Next
<1>2. \A u \in Token : Live(u) => refreshToken[u].familyId # c /\ u # c
  BY DEF IndInv, Families, RowsRooted, Live, Issued
<1>3. \A u \in Token : u # c => (Live(u)' <=> Live(u)) /\ (Issued(u)' <=> Issued(u))
  BY DEF Live, Issued
<1>4. Live(c)' /\ Issued(c)'
  BY DEF Live, Issued
<1>5. Current'[c] = c
  BY <1>4 DEF Mapped
<1>6. ASSUME NEW f \in Token, f # c PROVE Current'[f] = Current[f]
  <2>1. CASE \E t \in Token : Live(t) /\ refreshToken[t].familyId = f
    BY <1>2, <1>3, <2>1 DEF Mapped
  <2>2. CASE ~\E t \in Token : Live(t) /\ refreshToken[t].familyId = f
    BY <1>3, <1>6, <2>2 DEF Mapped
  <2> QED
    BY <2>1, <2>2
<1>7. Current' = [Current EXCEPT ![c] = c]
  BY <1>5, <1>6 DEF Mapped
<1>8. {t \in Token : Issued(t)}' = {t \in Token : Issued(t)} \cup {c}
  BY <1>3, <1>4
<1>9. Family!Open(c)
  BY <1>7, <1>8 DEF Family!Open
<1> QED
  BY <1>9 DEF Family!Next

\* A commit with a child rotates the family of the parent, or, for a context
\* switch, closes it (if there is one) and opens the child's; any other commit
\* revokes.
LEMMA CommitStep ==
  ASSUME Mapped, Mapped', IndInv, NEW r \in Req, Commit(r)
  PROVE  Family!Next
<1> PICK W, c, p, row : W = req[r].writes /\ c = req[r].child /\ p = req[r].token
                        /\ row = NewRow(r, c)
  OBVIOUS
<1>0. /\ Sound(req[r]) /\ req[r] \in Request /\ RowsTyped /\ req[r].pc = "commit"
      /\ W \subseteq Token /\ c \in Token \cup {None} /\ \A u \in W : Exists(u)
      /\ c # None => /\ c \in Token /\ ~Issued(c)
                     /\ req[r].op \in Rotations
                     /\ \/ p \in Token /\ W = {p} /\ Live(p)
                        \/ req[r].op = "switch" /\ W = {}
  BY InFlight DEF Commit, Sound, Spends, Opens, Request
<1>1. /\ \A u \in Token : u = c => refreshToken'[u] = row
      /\ \A u \in Token : u # c /\ u \in W =>
           refreshToken'[u] = [refreshToken[u] EXCEPT !.state = "revoked"]
      /\ \A u \in Token : u # c /\ u \notin W => refreshToken'[u] = refreshToken[u]
  BY DEF Commit
<1>2. ASSUME NEW u \in Token, u # c
      PROVE  /\ refreshToken'[u].familyId = refreshToken[u].familyId
             /\ Issued(u)' <=> Issued(u)
             /\ Live(u)' <=> Live(u) /\ u \notin W
  <2> PICK old : old = refreshToken[u]
    OBVIOUS
  <2>1. old \in [state: RowState, parentJti: Token \cup {None},
                 familyId: Token, sessionId: Session \cup {None}]
    BY <1>0 DEF RowsTyped
  <2>2. CASE u \in W
    <3>1. refreshToken'[u] = [old EXCEPT !.state = "revoked"] /\ Exists(u)
      BY <1>0, <1>1, <1>2, <2>2
    <3> QED
      BY <2>1, <2>2, <3>1 DEF Issued, Live, Exists
  <2>3. CASE u \notin W
    BY <1>1, <1>2, <2>3 DEF Issued, Live
  <2> QED
    BY <2>2, <2>3
<1>3. CASE c = None
  <2>1. \A u \in Token : u # c
    BY <1>3, NoneAssumption
  <2> QED
    BY <1>2, <2>1, RevokeStep
<1>4. CASE c # None /\ W = {}
  <2>1. c \in Token /\ ~Issued(c) /\ row.state = "live" /\ row.familyId = c
    BY <1>0, <1>4 DEF NewRow
  <2> QED
    BY <1>1, <1>4, <2>1, OpenStep
<1>5. CASE c # None /\ W # {}
  <2> PICK f : f = refreshToken[p].familyId
    OBVIOUS
  <2>1. /\ c \in Token /\ ~Issued(c) /\ p \in Token /\ W = {p} /\ Live(p) /\ p # c
        /\ f \in Token /\ f # c
    BY <1>0, <1>5 DEF IndInv, RowsTyped, Families, RowsRooted, Live, Issued
  <2>2. /\ row.state = "live" /\ row.familyId = IF req[r].op = "refresh" THEN f ELSE c
    BY DEF NewRow
  <2>3. refreshToken'[c] = row /\ Live(c)' /\ Issued(c)'
    BY <1>1, <2>1, <2>2 DEF Live, Issued
  <2>4. \A u \in Token : Live(u) => refreshToken[u].familyId # c /\ u # c
    BY <2>1 DEF IndInv, Families, RowsRooted, Live, Issued
  <2>5. \A u \in Token : Live(u) /\ u # p => refreshToken[u].familyId # f
    BY <2>1 DEF IndInv, Families, OneLivePerFamily
  <2>6. {t \in Token : Issued(t)}' = {t \in Token : Issued(t)} \cup {c}
    BY <1>2, <2>1, <2>3
  <2>7. Current[f] = p /\ p # None
    BY <2>1, NoneAssumption DEF Mapped
  <2>8. ASSUME NEW g \in Token, g # f, g # c PROVE Current'[g] = Current[g]
    <3>1. CASE \E t \in Token : Live(t) /\ refreshToken[t].familyId = g
      BY <1>2, <2>1, <2>4, <2>8, <3>1 DEF Mapped
    <3>2. CASE ~\E t \in Token : Live(t) /\ refreshToken[t].familyId = g
      <4>1. \A t \in Token : Live(t)' => refreshToken'[t].familyId # g
        BY <1>2, <2>2, <2>3, <2>8, <3>2
      <4> QED
        BY <3>2, <4>1 DEF Mapped
    <3> QED
      BY <3>1, <3>2
  <2>9. CASE req[r].op = "refresh"
    <3>1. Current'[f] = c
      BY <2>1, <2>2, <2>3, <2>9 DEF Mapped
    <3>2. Current'[c] = Current[c]
      <4>1. \A t \in Token : Live(t)' => refreshToken'[t].familyId # c
        BY <1>2, <2>1, <2>2, <2>3, <2>4, <2>9
      <4> QED
        BY <2>1, <2>4, <4>1 DEF Mapped
    <3>3. Current' = [Current EXCEPT ![f] = c]
      BY <2>1, <2>8, <3>1, <3>2 DEF Mapped
    <3>4. Family!Rotate(f, c)
      BY <2>1, <2>6, <2>7, <3>3 DEF Family!Rotate
    <3> QED
      BY <2>1, <3>4 DEF Family!Next
  <2>10. CASE req[r].op # "refresh"
    <3>1. Current'[c] = c
      BY <2>1, <2>2, <2>3, <2>10 DEF Mapped
    <3>2. Current'[f] = None
      <4>1. \A t \in Token : Live(t)' => refreshToken'[t].familyId # f
        BY <1>2, <2>1, <2>2, <2>3, <2>5, <2>10
      <4> QED
        BY <2>1, <4>1 DEF Mapped
    <3>3. Current' = [Current EXCEPT ![f] = None, ![c] = c]
      BY <2>1, <2>8, <3>1, <3>2 DEF Mapped
    <3>4. Family!Switch(f, c)
      BY <2>1, <2>6, <2>7, <3>3 DEF Family!Switch
    <3> QED
      BY <2>1, <3>4 DEF Family!Next
  <2> QED
    BY <2>9, <2>10
<1> QED
  BY <1>3, <1>4, <1>5

LEMMA FamilyStep == IndInv /\ IndInv' /\ [Next]_vars => [Family!Next]_(Family!vars)
<1> SUFFICES ASSUME IndInv, IndInv', [Next]_vars PROVE [Family!Next]_(Family!vars)
  OBVIOUS
<1>0. Mapped /\ Mapped' /\ RowsTyped
  BY MappedAlways DEF IndInv
<1>1. CASE refreshToken' = refreshToken
  BY <1>1 DEF Family!vars, Current, LiveIn, Live, Issued
<1>2. ASSUME NEW r \in Req, LoginIssue(r) PROVE Family!Next
  <2> PICK c \in Token : Fresh(c) /\ refreshToken' = [refreshToken EXCEPT ![c] = NewRow(r, c)]
    BY <1>2 DEF LoginIssue
  <2>1. /\ refreshToken'[c].state = "live" /\ refreshToken'[c].familyId = c
        /\ \A u \in Token : u # c => refreshToken'[u] = refreshToken[u]
        /\ ~Issued(c)
    BY <1>0, <1>2 DEF RowsTyped, LoginIssue, NewRow, Fresh, Issued
  <2> QED
    BY <1>0, <2>1, OpenStep
<1>3. ASSUME NEW r \in Req, Commit(r) PROVE Family!Next
  BY <1>0, <1>3, CommitStep
<1>4. ASSUME NEW t \in Token, Cleanup(t) PROVE Family!Next
  <2>1. \A u \in Token : /\ refreshToken'[u].familyId = refreshToken[u].familyId
                         /\ Issued(u)' <=> Issued(u)
                         /\ Live(u)' => Live(u)
    BY <1>0, <1>4 DEF Cleanup, RowsTyped, Issued, Live
  <2> QED
    BY <1>0, <2>1, RevokeStep
<1>5. ASSUME NEW r \in Req, Erase(r) PROVE Family!Next
  <2>1. ASSUME NEW u \in Token
        PROVE  /\ refreshToken'[u].familyId = refreshToken[u].familyId
               /\ Issued(u)' <=> Issued(u)
               /\ Live(u)' => Live(u)
    <3> PICK old : old = refreshToken[u]
      OBVIOUS
    <3>1. old \in [state: RowState, parentJti: Token \cup {None},
                   familyId: Token, sessionId: Session \cup {None}]
      BY <1>0 DEF RowsTyped
    <3>2. refreshToken'[u] = IF Exists(u) THEN [old EXCEPT !.state = "deleted"] ELSE old
      BY <1>5 DEF Erase
    <3> QED
      BY <3>1, <3>2 DEF Issued, Live, Exists
  <2> QED
    BY <1>0, <2>1, RevokeStep
<1> QED
  BY <1>1, <1>2, <1>3, <1>4, <1>5, RowsChange

\* Rotation implements TokenFamily: for any number of tokens, sessions and
\* concurrent requests, every family is a chain of which at most one token can
\* be used, a refresh replaces that token by a new one, and whatever else
\* happens can only close the chain.
THEOREM RotationImplementsFamily == Spec => FamilyChain
<1>1. Init => Family!Init
  <2> SUFFICES ASSUME Init PROVE Family!Init
    OBVIOUS
  <2>1. \A t \in Token : ~Issued(t) /\ ~Live(t)
    BY DEF Init, Issued, Live
  <2>2. \A f \in Token : LiveIn(f) = {}
    BY <2>1 DEF LiveIn
  <2> QED
    BY <2>1, <2>2 DEF Family!Init, Current
<1> QED
  BY <1>1, FamilyStep, Invariance, PTL DEF Spec, FamilyChain, Family!Spec
=============================================================================
