----------------------------- MODULE EmailTokens -----------------------------
(***************************************************************************)
(* The links arc-id sends by e-mail: verification, magic link, password    *)
(* reset and invitation.  EmailTokenService.issue marks the older tokens   *)
(* of the same purpose and stores a new one; consume reads an unconsumed   *)
(* token and then marks it by id.  What differs is the caller: some run    *)
(* both in the transaction of a flow, some statement by statement.         *)
(*                                                                         *)
(* One account owns the verification, magic and reset links; invitations   *)
(* are sent to Invitee, all of them to one tenant, whose seats the plan    *)
(* limits.  A token's scope is what issue() filters on: the purpose, or    *)
(* the invitee.  Rows written by an open transaction are in req[r], are    *)
(* locked, and are invisible to the others.                                *)
(***************************************************************************)
EXTENDS Naturals, FiniteSets

CONSTANTS
  Token,      \* tokens that may be issued (the bound on issuance)
  Invitee,    \* identities that may be invited to the tenant
  Req,        \* requests the server handles at the same time
  None,       \* SQL NULL
  MemberCap,  \* members of the caller's plan (PLAN_CAPS)
  Together    \* the sets of scopes that one behaviour works on (a bound)

Purpose == {"VERIFY_EMAIL", "MAGIC_LINK", "RESET_PASSWORD"}
Scope == Purpose \cup Invitee

ASSUME EmailTokensAssumption ==
  /\ MemberCap \in Nat \ {0}
  /\ Invitee \cap Purpose = {}
  /\ None \notin Token \cup Scope
  /\ Together \subseteq SUBSET Scope
  /\ IsFiniteSet(Invitee) /\ IsFiniteSet(Req) /\ Req # {}

VARIABLES
  scopes,      \* the scopes of this behaviour, never changed
  token,       \* committed EmailToken rows; "expired" is unconsumed and past expiresAt
  account,     \* status of the account, "none" before it registers
  seat,        \* status of the TenantMembership of each invitee
  req,         \* requests in progress, with their uncommitted writes
  used,        \* history: how often a token has had its effect
  raced,       \* history: tokens that two requests have held at once
  overlapped,  \* history: scopes of which two issues have overlapped
  settled,     \* history: tokens superseded, or used by an answered request
  died,        \* history: tokens whose request died before its effect
  removed      \* history: invitees removed while nobody was accepting

vars == <<scopes, token, account, seat, req, used, raced, overlapped, settled, died, removed>>

Pc == {"idle", "create", "seat", "scan", "supersede", "insert", "mark",
       "effect", "member", "activate", "commit"}

\* One request: what it has read (scope, token, seen, scan) and what its open
\* transaction has written (marks, inserts, writesSeat, registers).
Request ==
  [pc: Pc, scope: Scope \cup {None}, token: Token \cup {None},
   seen: {"none", "PENDING", "INACTIVE"}, scan: SUBSET Token,
   marks: SUBSET Token, inserts: Token \cup {None}, writesSeat: BOOLEAN,
   registers: BOOLEAN]

Idle == [pc |-> "idle", scope |-> None, token |-> None, seen |-> "none", scan |-> {},
         marks |-> {}, inserts |-> None, writesSeat |-> FALSE, registers |-> FALSE]

TypeOK ==
  /\ scopes \in Together
  /\ token \in [Token -> [state: {"free", "live", "expired", "consumed"}, scope: Scope \cup {None}]]
  /\ \A t \in Token : token[t].state = "free" <=> token[t].scope = None
  /\ account \in {"none", "PENDING", "ACTIVE", "SUSPENDED"}
  /\ seat \in [Invitee -> {"none", "PENDING", "ACTIVE", "INACTIVE"}]
  /\ req \in [Req -> Request]
  /\ used \in [Token -> Nat]
  /\ raced \subseteq Token /\ settled \subseteq Token /\ died \subseteq Token
  /\ overlapped \subseteq Scope
  /\ removed \subseteq Invitee

Init ==
  /\ scopes \in Together
  /\ token = [t \in Token |-> [state |-> "free", scope |-> None]]
  /\ account = "none"
  /\ seat = [i \in Invitee |-> "none"]
  /\ req = [r \in Req |-> Idle]
  /\ used = [t \in Token |-> 0]
  /\ raced = {} /\ overlapped = {} /\ settled = {} /\ died = {} /\ removed = {}

-----------------------------------------------------------------------------
\* Rows, locks, and how a request ends.

rows == <<scopes, token, account, seat>>
history == <<used, raced, overlapped, settled, died, removed>>

Put(r, x) == req' = [req EXCEPT ![r] = x]
Goto(r, p) == Put(r, [req[r] EXCEPT !.pc = p])
Finish(r) == Put(r, Idle)

Unconsumed(t) == token[t].state \in {"live", "expired"}
OlderIn(s) == {t \in Token : Unconsumed(t) /\ token[t].scope = s}

\* No other transaction holds the token rows S, the seat of i, the account.
TokensFree(r, S) == \A q \in Req \ {r} : req[q].marks \cap S = {}
SeatFree(r, i) == \A q \in Req \ {r} : ~(req[q].writesSeat /\ req[q].scope = i)
AccountFree(r) == \A q \in Req \ {r} : ~req[q].registers

\* A token value nobody has: neither stored nor about to be inserted.
Fresh(t) == token[t].state = "free" /\ \A q \in Req : req[q].inserts # t

\* Only the magic-link request issues outside a transaction, and only the
\* acceptance of an invitation consumes outside one.
Issuing(r) == req[r].pc \in {"create", "seat", "scan", "supersede", "insert"}
              \/ (req[r].pc = "commit" /\ req[r].inserts # None)
InTransaction(r) ==
  /\ req[r].pc # "idle"
  /\ ~(req[r].scope = "MAGIC_LINK" /\ Issuing(r))
  /\ ~(req[r].scope \in Invitee /\ ~Issuing(r))

-----------------------------------------------------------------------------
\* The callers of issue().

\* existsByEmail, the password rules and the domain policy come first ...
RegisterCheck(r) ==
  /\ req[r].pc = "idle" /\ "VERIFY_EMAIL" \in scopes
  /\ account = "none"
  /\ Put(r, [Idle EXCEPT !.pc = "create", !.scope = "VERIFY_EMAIL"])
  /\ UNCHANGED <<rows, history>>

\* ... then the insert, which waits for another one of the same address and
\* fails on the unique key if that one was committed.
RegisterCreate(r) ==
  /\ req[r].pc = "create"
  /\ AccountFree(r)
  /\ IF account = "none" THEN Put(r, [req[r] EXCEPT !.pc = "scan", !.registers = TRUE])
                         ELSE Finish(r)
  /\ UNCHANGED <<rows, history>>

Register(r) == RegisterCheck(r) \/ RegisterCreate(r)

MagicLinkRequest(r) ==
  /\ req[r].pc = "idle" /\ "MAGIC_LINK" \in scopes
  /\ account # "none"
  /\ Put(r, [Idle EXCEPT !.pc = "scan", !.scope = "MAGIC_LINK"])
  /\ UNCHANGED <<rows, history>>

PasswordResetRequest(r) ==
  /\ req[r].pc = "idle" /\ "RESET_PASSWORD" \in scopes
  /\ account # "none"
  /\ Put(r, [Idle EXCEPT !.pc = "scan", !.scope = "RESET_PASSWORD"])
  /\ UNCHANGED <<rows, history>>

\* The seats the plan counts; one is the inviting administrator's.
Taken == 1 + Cardinality({i \in Invitee : seat[i] \in {"ACTIVE", "PENDING"}})

\* Mutant: pending invitations are not counted.
AddMemberCountsActive(r, i) ==
  /\ req[r].pc = "idle" /\ i \in scopes
  /\ seat[i] # "ACTIVE"
  /\ seat[i] # "PENDING" => 1 + Cardinality({j \in Invitee : seat[j] = "ACTIVE"}) < MemberCap
  /\ Put(r, [Idle EXCEPT !.pc = "seat", !.scope = i, !.seen = seat[i]])
  /\ UNCHANGED <<rows, history>>

\* addMemberFlow by a caller with member:add; MembershipService.add reads the
\* membership, and counts the seats unless it is pending already.
AddMember(r, i) ==
  /\ req[r].pc = "idle" /\ i \in scopes
  /\ seat[i] # "ACTIVE"
  /\ seat[i] # "PENDING" => Taken < MemberCap
  /\ Put(r, [Idle EXCEPT !.pc = "seat", !.scope = i, !.seen = seat[i]])
  /\ UNCHANGED <<rows, history>>

\* A pending row gets the new role by id; otherwise a row is created, which
\* fails on [tenantId, identityId] when there is one, INACTIVE or new.
TakeSeat(r) ==
  /\ req[r].pc = "seat"
  /\ SeatFree(r, req[r].scope)
  /\ IF req[r].seen = "PENDING" \/ seat[req[r].scope] = "none"
       THEN Put(r, [req[r] EXCEPT !.pc = "scan", !.writesSeat = TRUE])
       ELSE Finish(r)
  /\ UNCHANGED <<rows, history>>

MembersPost(r) == TakeSeat(r) \/ \E i \in Invitee : AddMember(r, i)

-----------------------------------------------------------------------------
\* EmailTokenService.issue: the UPDATE takes its snapshot, waits for the rows
\* it met, and marks those that are still unconsumed; then the INSERT.

ScanOlder(r) ==
  /\ req[r].pc = "scan"
  /\ Put(r, [req[r] EXCEPT !.pc = "supersede", !.scan = OlderIn(req[r].scope)])
  /\ overlapped' = overlapped \cup
       {s \in {req[r].scope} : \E q \in Req \ {r} :
          req[q].scope = s /\ Issuing(q) /\ req[q].pc \notin {"create", "seat", "scan"}}
  /\ UNCHANGED <<rows, used, raced, settled, died, removed>>

\* Mutant: issue() leaves the older tokens alone.
SupersedeNothing(r) ==
  /\ req[r].pc = "supersede"
  /\ Goto(r, "insert")
  /\ UNCHANGED <<rows, history>>

Supersede(r) ==
  LET older == {t \in req[r].scan : Unconsumed(t)} IN
  /\ req[r].pc = "supersede"
  /\ TokensFree(r, req[r].scan)
  /\ IF InTransaction(r)
       THEN /\ Put(r, [req[r] EXCEPT !.pc = "insert", !.scan = {}, !.marks = older])
            /\ UNCHANGED <<token, settled>>
       ELSE /\ Put(r, [req[r] EXCEPT !.pc = "insert", !.scan = {}])
            /\ token' = [t \in Token |-> IF t \in older
                           THEN [token[t] EXCEPT !.state = "consumed"] ELSE token[t]]
            /\ settled' = settled \cup older
  /\ UNCHANGED <<scopes, account, seat, used, raced, overlapped, died, removed>>

Insert(r) ==
  /\ req[r].pc = "insert"
  /\ \E t \in Token :
       /\ Fresh(t)
       /\ IF InTransaction(r)
            THEN /\ Put(r, [req[r] EXCEPT !.pc = "commit", !.inserts = t])
                 /\ UNCHANGED token
            ELSE /\ Finish(r)
                 /\ token' = [token EXCEPT ![t] = [state |-> "live", scope |-> req[r].scope]]
  /\ UNCHANGED <<scopes, account, seat, history>>

-----------------------------------------------------------------------------
\* EmailTokenService.consume.

FindToken(r, t) ==
  /\ req[r].pc = "idle"
  /\ token[t].state = "live"
  /\ Put(r, [Idle EXCEPT !.pc = "mark", !.scope = token[t].scope, !.token = t])
  /\ raced' = raced \cup {x \in {t} : \E q \in Req \ {r} : req[q].token = x}
  /\ UNCHANGED <<rows, used, overlapped, settled, died, removed>>

\* Mutant: consume() only reads.
MarkNothing(r) ==
  /\ req[r].pc = "mark"
  /\ Goto(r, IF InTransaction(r) THEN "effect" ELSE "member")
  /\ UNCHANGED <<rows, history>>

\* Mutant: consume() runs on the pool and not on the transaction.
MarkAtOnce(r) ==
  /\ req[r].pc = "mark"
  /\ TokensFree(r, {req[r].token})
  /\ Goto(r, IF InTransaction(r) THEN "effect" ELSE "member")
  /\ token' = [token EXCEPT ![req[r].token].state = "consumed"]
  /\ UNCHANGED <<scopes, account, seat, history>>

\* The update by id waits for the row and does not look at consumed again.
Mark(r) ==
  /\ req[r].pc = "mark"
  /\ TokensFree(r, {req[r].token})
  /\ IF InTransaction(r)
       THEN /\ Put(r, [req[r] EXCEPT !.pc = "effect", !.marks = {req[r].token}])
            /\ UNCHANGED token
       ELSE /\ Goto(r, "member")
            /\ token' = [token EXCEPT ![req[r].token].state = "consumed"]
  /\ UNCHANGED <<scopes, account, seat, history>>

\* What the flows do with the token they have consumed.
EmailVerify(r) ==
  /\ req[r].pc = "effect" /\ req[r].scope = "VERIFY_EMAIL"
  /\ Goto(r, "commit")
  /\ UNCHANGED <<rows, history>>

MagicLink(r) ==
  /\ req[r].pc = "effect" /\ req[r].scope = "MAGIC_LINK"
  /\ account # "SUSPENDED"
  /\ Goto(r, "commit")
  /\ UNCHANGED <<rows, history>>

PasswordResetConfirm(r) ==
  /\ req[r].pc = "effect" /\ req[r].scope = "RESET_PASSWORD"
  /\ Goto(r, "commit")
  /\ UNCHANGED <<rows, history>>

PasswordReset(r) == PasswordResetRequest(r) \/ PasswordResetConfirm(r)

\* Mutant: the acceptance takes the membership whatever its status.
FindMembershipAny(r) ==
  /\ req[r].pc = "member"
  /\ Goto(r, "activate")
  /\ UNCHANGED <<rows, history>>

\* POST /invites/accept: without a pending membership it answers 200 or 404.
FindMembership(r) ==
  /\ req[r].pc = "member"
  /\ IF seat[req[r].scope] = "PENDING"
       THEN Goto(r, "activate") /\ UNCHANGED settled
       ELSE Finish(r) /\ settled' = settled \cup {req[r].token}
  /\ UNCHANGED <<rows, used, raced, overlapped, died, removed>>

Activate(r) ==
  /\ req[r].pc = "activate"
  /\ SeatFree(r, req[r].scope)
  /\ seat' = [seat EXCEPT ![req[r].scope] = "ACTIVE"]
  /\ used' = [used EXCEPT ![req[r].token] = @ + 1]
  /\ settled' = settled \cup {req[r].token}
  /\ Finish(r)
  /\ UNCHANGED <<scopes, token, account, raced, overlapped, died, removed>>

-----------------------------------------------------------------------------
\* Ends of transactions, faults, and what happens meanwhile.

Commit(r) ==
  LET q == req[r] IN
  /\ q.pc = "commit"
  /\ token' = [t \in Token |->
       IF t \in q.marks \cup {q.inserts}
         THEN [state |-> IF t \in q.marks THEN "consumed" ELSE "live", scope |-> q.scope]
         ELSE token[t]]
  /\ account' = IF q.registers THEN "PENDING"
                ELSE IF q.scope = "VERIFY_EMAIL" /\ q.token # None THEN "ACTIVE" ELSE account
  /\ seat' = IF q.writesSeat /\ q.seen # "PENDING"
               THEN [seat EXCEPT ![q.scope] = "PENDING"] ELSE seat
  /\ used' = [t \in Token |-> IF t = q.token THEN used[t] + 1 ELSE used[t]]
  /\ settled' = settled \cup q.marks
  /\ Finish(r)
  /\ UNCHANGED <<scopes, raced, overlapped, died, removed>>

\* The transaction is refused (a suspended account, a password that breaks the
\* rules, no local account), fails or times out; or the process dies.  What an
\* acceptance has consumed by then stays consumed.
Abort(r) ==
  /\ req[r].pc # "idle"
  /\ Finish(r)
  /\ died' = died \cup {t \in {req[r].token} : req[r].pc \in {"member", "activate"}}
  /\ UNCHANGED <<rows, used, raced, overlapped, settled, removed>>

Expire(t) ==
  /\ token[t].state = "live"
  /\ token' = [token EXCEPT ![t].state = "expired"]
  /\ UNCHANGED <<scopes, account, seat, req, history>>

\* removeMemberFlow by a caller with member:remove.
RemoveMember(i) ==
  /\ seat[i] = "ACTIVE"
  /\ \A q \in Req : ~(req[q].writesSeat /\ req[q].scope = i)
  /\ seat' = [seat EXCEPT ![i] = "INACTIVE"]

MembersDelete(i) ==
  /\ RemoveMember(i)
  /\ removed' = removed \cup
       {j \in {i} : \A q \in Req : ~(req[q].pc = "activate" /\ req[q].scope = j)}
  /\ UNCHANGED <<scopes, token, account, req, used, raced, overlapped, settled, died>>

\* PATCH /admin/identities/:id/status.
SetStatus(s) ==
  /\ account \notin {"none", s}
  /\ account' = s
  /\ UNCHANGED <<scopes, token, seat, req, history>>

Next ==
  \/ \E r \in Req :
       \/ Register(r) \/ MagicLinkRequest(r) \/ PasswordReset(r)
       \/ MembersPost(r) \/ ScanOlder(r) \/ Supersede(r) \/ Insert(r)
       \/ Mark(r) \/ EmailVerify(r) \/ MagicLink(r)
       \/ FindMembership(r) \/ Activate(r) \/ Commit(r) \/ Abort(r)
  \/ \E r \in Req, t \in Token : FindToken(r, t)
  \/ \E t \in Token : Expire(t)
  \/ \E i \in Invitee : MembersDelete(i)
  \/ \E s \in {"ACTIVE", "SUSPENDED"} : SetStatus(s)

Spec == Init /\ [][Next]_vars

-----------------------------------------------------------------------------
\* A link has its effect more than once only if two requests held it at the
\* same time: consume() reads and then marks by id, and once a use has been
\* answered no later request gets the token again, failures included.
UsedAgainOnlyIfRaced == \A t \in Token : used[t] <= 1 \/ t \in raced

\* No link is spent for nothing: a consumed token was superseded, or its
\* request was answered, or is an acceptance that has consumed it and is
\* still running, or died between consuming it and activating the member
\* (POST /invites/accept has no transaction; every other flow rolls back).
ConsumptionJustified ==
  \A t \in Token : token[t].state = "consumed" =>
    \/ t \in settled \/ t \in died
    \/ \E r \in Req : req[r].token = t /\ req[r].pc \in {"member", "activate"}

\* issue() keeps the latest link only: two usable links of one purpose exist
\* only when two issues of it overlapped.  Invitations never do: the row of
\* the membership serialises them.
OneLiveLink ==
  /\ \A t, u \in Token : /\ Unconsumed(t) /\ Unconsumed(u)
                         /\ token[t].scope = token[u].scope
                         => t = u \/ token[t].scope \in overlapped
  /\ overlapped \cap Invitee = {}

\* A member removed while no acceptance was under way stays out: old and new
\* invitations and retried acceptances included.
RemovalFinal == \A i \in removed : seat[i] = "INACTIVE"

\* Invitations that are counted before the others commit pass the plan's cap
\* by at most one seat per request that runs beside them, ever.
SeatsBounded == Taken <= MemberCap + Cardinality(Req) - 1
=============================================================================
