-------------------------- MODULE EmailTokensProofs --------------------------
(***************************************************************************)
(* Machine-checked proofs about EmailTokens, for any number of tokens,     *)
(* invitees, concurrent requests and seats of the plan.                    *)
(***************************************************************************)
EXTENDS EmailTokens, FiniteSetTheorems, TLAPS

-----------------------------------------------------------------------------
\* The inductive invariant, first the part about seats: what a request knows
\* of the membership it writes or is about to activate ...

SeatFits(x) ==
  /\ x.pc # "idle" => x.scope \in Scope
  /\ x.pc \in {"seat", "member", "activate"} => x.scope \in Invitee
  /\ x.pc \in {"mark", "effect", "member", "activate"} => x.token \in Token
  /\ x.pc \in {"create", "effect"} => x.scope \notin Invitee
  /\ (x.pc \in {"scan", "supersede", "insert"} /\ x.scope \in Invitee) => x.writesSeat
  /\ x.writesSeat => /\ x.pc \in {"scan", "supersede", "insert", "commit"}
                     /\ x.scope \in Invitee
                     /\ x.seen = "PENDING" \/ seat[x.scope] = "none"

SeatApart(x, y) == (x.writesSeat /\ y.writesSeat) => x.scope # y.scope

\* ... and the seats that are taken or that a request in progress may still
\* take, which are what the plan's cap really bounds.
Adds(x) ==
  \/ x.pc = "activate"
  \/ x.seen # "PENDING" /\ (x.pc = "seat" \/ x.writesSeat)

Claimed ==
  {i \in Invitee : \/ seat[i] \in {"ACTIVE", "PENDING"}
                   \/ \E r \in Req : Adds(req[r]) /\ req[r].scope = i}

StaysOut ==
  \A i \in removed : /\ seat[i] = "INACTIVE"
                     /\ \A r \in Req : ~(req[r].pc = "activate" /\ req[r].scope = i)

SeatInv ==
  /\ TypeOK
  /\ \A r \in Req : SeatFits(req[r])
  /\ \A r, q \in Req : r # q => SeatApart(req[r], req[q])
  /\ StaysOut
  /\ 1 + Cardinality(Claimed) <= MemberCap + Cardinality(Req) - 1

\* The part about links.  A request that has taken the snapshot of the older
\* links, and has not published its own, has all of them in hand, unless
\* another one of the same scope is that far too.
Publishing(x) == x.pc \in {"supersede", "insert"} \/ (x.pc = "commit" /\ x.inserts # None)

Stored(t) == token[t].state # "free"

LinkFits(x) ==
  /\ x.pc \notin {"mark", "effect", "member", "activate", "commit"} => x.token = None
  /\ x.inserts # None => /\ x.pc = "commit" /\ x.token = None /\ ~Stored(x.inserts)
                         /\ x.scope \in Invitee => x.writesSeat
  /\ (x.pc \in {"effect", "commit"} /\ x.token # None) => x.marks = {x.token}
  /\ (\/ x.pc \notin {"insert", "effect", "commit"}
      \/ x.pc = "insert" /\ x.scope = "MAGIC_LINK") => x.marks = {}
  /\ \A t \in x.scan \cup x.marks : Stored(t)
  /\ x.token # None => Stored(x.token)
  /\ x.pc \in {"member", "activate"} => token[x.token].state = "consumed"
  /\ (Publishing(x) /\ x.scope \notin overlapped) =>
       OlderIn(x.scope) \subseteq IF x.pc = "supersede" THEN x.scan ELSE x.marks

\* Two requests insert different tokens, share a token only if it is raced (R),
\* and publish in the same scope only if issues of it have overlapped (O).
LinkApart(x, y, R, O) ==
  /\ x.inserts # None => x.inserts # y.inserts
  /\ (x.token # None /\ x.token = y.token) => x.token \in R
  /\ (Publishing(x) /\ Publishing(y) /\ x.scope = y.scope) => x.scope \in O

\* A token that two requests have never held at once has had its effect at most
\* once, and is out of reach from then on.
UsedOnce ==
  \A t \in Token \ raced :
    /\ used[t] <= 1
    /\ used[t] = 1 => /\ token[t].state = "consumed"
                      /\ \A r \in Req : req[r].token # t

LinkInv ==
  /\ \A r \in Req : LinkFits(req[r])
  /\ \A r, q \in Req : r # q => LinkApart(req[r], req[q], raced, overlapped)
  /\ UsedOnce /\ ConsumptionJustified /\ OneLiveLink

IndInv == SeatInv /\ LinkInv

-----------------------------------------------------------------------------
\* A slot that has answered satisfies every condition on requests.
LEMMA IdleFits ==
  /\ Idle \in Request /\ SeatFits(Idle) /\ ~Adds(Idle) /\ ~Publishing(Idle)
  /\ LinkFits(Idle) /\ LinkFits(Idle)'
  /\ Idle.pc = "idle" /\ ~Idle.writesSeat /\ Idle.token = None /\ Idle.inserts = None
  BY DEF Idle, Request, Pc, SeatFits, Adds, Publishing, LinkFits

\* Putting x in the slot of r, unfolded once.
LEMMA PutReq ==
  ASSUME req \in [Req -> Request], NEW r \in Req, NEW x \in Request, Put(r, x)
  PROVE  /\ req' \in [Req -> Request] /\ req'[r] = x
         /\ \A q \in Req : q # r => req'[q] = req[q]
  BY DEF Put

\* The seats that count are finitely many.
LEMMA ClaimedFinite == IsFiniteSet(Claimed) /\ Cardinality(Claimed) \in Nat
<1>1. Claimed \subseteq Invitee
  BY DEF Claimed
<1> QED
  BY <1>1, FS_Subset, FS_CardinalityType, EmailTokensAssumption

\* A step that changes no seat, and claims none that was not claimed unless it
\* has counted the seats.
LEMMA SeatStep ==
  ASSUME SeatInv, TypeOK', NEW r \in Req, NEW x \in Request, Put(r, x),
         seat' = seat, removed' = removed, SeatFits(x),
         x.writesSeat => SeatFree(r, x.scope) \/ (req[r].writesSeat /\ req[r].scope = x.scope),
         x.pc = "activate" => x.scope \notin removed,
         ((Adds(x) /\ x.scope \in Invitee) => x.scope \in Claimed) \/ Taken < MemberCap
  PROVE  SeatInv'
<1>0. /\ TypeOK /\ (\A q \in Req : SeatFits(req[q])) /\ StaysOut
      /\ \A p, q \in Req : p # q => SeatApart(req[p], req[q])
  BY DEF SeatInv
<1>1. /\ req'[r] = x /\ \A q \in Req : q # r => req'[q] = req[q]
  BY <1>0, PutReq DEF TypeOK
<1>2. \A q \in Req : SeatFits(req[q])'
  <2>1. SeatFits(req[r])'
    BY <1>1 DEF SeatFits
  <2>2. ASSUME NEW q \in Req, q # r PROVE SeatFits(req[q])'
    BY <1>0, <1>1, <2>2 DEF SeatFits
  <2> QED
    BY <2>1, <2>2
<1>3. \A p, q \in Req : p # q => SeatApart(req[p], req[q])'
  <2>1. \A q \in Req : q # r => SeatApart(x, req[q]) /\ SeatApart(req[q], x)
    BY <1>0 DEF SeatApart, SeatFree
  <2>2. ASSUME NEW p \in Req, NEW q \in Req, p # q PROVE SeatApart(req'[p], req'[q])
    BY <1>0, <1>1, <2>1, <2>2
  <2> QED
    BY <2>2 DEF SeatApart
<1>4. StaysOut'
  BY <1>0, <1>1 DEF StaysOut
<1>5. 1 + Cardinality(Claimed') <= MemberCap + Cardinality(Req) - 1
  <2>0. /\ Cardinality(Req) \in Nat /\ MemberCap \in Nat
        /\ 1 + Cardinality(Claimed) <= MemberCap + Cardinality(Req) - 1
    BY EmailTokensAssumption, FS_CardinalityType DEF SeatInv
  <2>1. CASE (Adds(x) /\ x.scope \in Invitee) => x.scope \in Claimed
    <3>1. Claimed' \subseteq Claimed
      BY <1>1, <2>1 DEF Claimed, Adds
    <3>2. Cardinality(Claimed') <= Cardinality(Claimed) /\ Cardinality(Claimed') \in Nat
      BY <3>1, ClaimedFinite, FS_Subset, FS_CardinalityType
    <3> QED
      BY <2>0, <3>2, ClaimedFinite
  <2>2. CASE Taken < MemberCap
    <3> DEFINE T == {i \in Invitee : seat[i] \in {"ACTIVE", "PENDING"}}
               S == {req'[q].scope : q \in Req}
    <3>1. Claimed' \subseteq T \cup S
      BY DEF Claimed
    <3>2. IsFiniteSet(T) /\ Cardinality(T) \in Nat /\ 1 + Cardinality(T) < MemberCap
      BY <2>2, FS_Subset, FS_CardinalityType, EmailTokensAssumption DEF Taken
    <3>3. IsFiniteSet(S) /\ Cardinality(S) <= Cardinality(Req) /\ Cardinality(S) \in Nat
      <4>1. [q \in Req |-> req'[q].scope] \in Surjection(Req, S)
        BY DEF Surjection
      <4> HIDE DEF S
      <4> QED
        BY <4>1, FS_Surjection, FS_CardinalityType, EmailTokensAssumption
    <3>4. IsFiniteSet(T \cup S) /\ Cardinality(T \cup S) <= Cardinality(T) + Cardinality(S)
      <4> HIDE DEF T, S
      <4>1. IsFiniteSet(T \cap S) /\ Cardinality(T \cap S) \in Nat
        BY <3>2, FS_Subset, FS_CardinalityType
      <4>2. /\ IsFiniteSet(T \cup S)
            /\ Cardinality(T \cup S) = Cardinality(T) + Cardinality(S) - Cardinality(T \cap S)
        BY <3>2, <3>3, FS_Union
      <4> QED
        BY <3>2, <3>3, <4>1, <4>2
    <3>5. /\ Cardinality(Claimed') <= Cardinality(T \cup S) /\ Cardinality(Claimed') \in Nat
          /\ Cardinality(T \cup S) \in Nat
      BY <3>1, <3>4, FS_Subset, FS_CardinalityType
    <3> HIDE DEF T, S
    <3> QED
      BY <2>0, <3>2, <3>3, <3>4, <3>5
  <2> QED
    BY <2>1, <2>2
<1> QED
  BY <1>2, <1>3, <1>4, <1>5 DEF SeatInv

\* A step of request r that consumes the tokens C and publishes n, if any.
LEMMA LinkStep ==
  ASSUME SeatInv, LinkInv, NEW r \in Req, NEW x \in Request, Put(r, x),
         NEW C \in SUBSET Token, NEW n \in Token \cup {None},
         \A t \in C : Stored(t) /\ token'[t].state = "consumed",
         \A t \in Token : t \notin C \cup {n} => token'[t] = token[t],
         n # None => /\ ~Stored(n) /\ Publishing(req[r]) /\ ~Publishing(x)
                     /\ token'[n].state = "live" /\ token'[n].scope = req[r].scope
                     /\ req[r].scope \notin overlapped => OlderIn(req[r].scope) \subseteq C
                     /\ \A q \in Req \ {r} : req[q].inserts # n,
         raced \subseteq raced', overlapped \subseteq overlapped',
         overlapped' \cap Invitee = {},
         settled \subseteq settled', died \subseteq died',
         \A t \in C : t \in settled' \/ (x.token = t /\ x.pc \in {"member", "activate"}),
         req[r].pc \in {"member", "activate"} =>
           \/ x.pc \in {"member", "activate"} /\ x.token = req[r].token
           \/ req[r].token \in settled' \cup died',
         \A t \in Token : \/ used'[t] = used[t]
                          \/ /\ used'[t] = used[t] + 1 /\ t = req[r].token
                             /\ x.token = None /\ token'[t].state = "consumed",
         x.token # None => x.token = req[r].token \/ token[x.token].state # "consumed",
         LinkFits(x)',
         \A q \in Req \ {r} : /\ LinkApart(x, req[q], raced', overlapped')
                              /\ LinkApart(req[q], x, raced', overlapped')
  PROVE  LinkInv'
<1>0. /\ \A q \in Req : LinkFits(req[q]) /\ req[q] \in Request
      /\ \A p, q \in Req : p # q => LinkApart(req[p], req[q], raced, overlapped)
      /\ UsedOnce /\ ConsumptionJustified /\ OneLiveLink
      /\ req \in [Req -> Request] /\ used \in [Token -> Nat]
  BY DEF SeatInv, LinkInv, TypeOK
<1>1. req'[r] = x /\ \A q \in Req : q # r => req'[q] = req[q]
  BY <1>0, PutReq
<1>2. /\ \A t \in Token : Stored(t)' <=> (Stored(t) \/ t = n)
      /\ \A t \in Token : token[t].state = "consumed" => token'[t].state = "consumed"
      /\ \A t \in Token : Unconsumed(t)' => t = n \/ (Unconsumed(t) /\ token'[t] = token[t])
      /\ \A t \in Token : Unconsumed(t) /\ t \notin C => token'[t] = token[t]
      /\ n # None => n \notin C
  BY EmailTokensAssumption DEF Stored, Unconsumed
<1>3. \A q \in Req : LinkFits(req[q])'
  <2>1. LinkFits(req[r])'
    BY <1>1 DEF LinkFits, Stored, Publishing, OlderIn, Unconsumed
  <2>2. ASSUME NEW q \in Req, q # r PROVE LinkFits(req[q])'
    <3> PICK y \in Request : y = req[q]
      BY <1>0
    <3>1. LinkFits(y) /\ req'[q] = y /\ LinkApart(req[r], y, raced, overlapped)
      BY <1>0, <1>1, <2>2
    <3>2. y.inserts # n \/ n = None
      BY <2>2
    <3>3. /\ y.scan \cup y.marks \subseteq Token /\ y.token \in Token \cup {None}
          /\ y.inserts \in Token \cup {None}
      BY DEF Request
    <3>4. ASSUME Publishing(y), y.scope \notin overlapped'
          PROVE  OlderIn(y.scope)' \subseteq OlderIn(y.scope)
      <4>1. n = None \/ req[r].scope # y.scope
        BY <3>1, <3>4 DEF LinkApart
      <4>2. ASSUME NEW t \in Token, Unconsumed(t)', token'[t].scope = y.scope
            PROVE  Unconsumed(t) /\ token[t].scope = y.scope
        BY <1>2, <4>1, <4>2, EmailTokensAssumption
      <4> QED
        BY <4>2 DEF OlderIn
    <3>5. y.token # None => Stored(y.token)'
      BY <1>2, <3>1, <3>3 DEF LinkFits
    <3>6. \A t \in y.scan \cup y.marks : Stored(t)'
      BY <1>2, <3>1, <3>3 DEF LinkFits
    <3>7. y.pc \in {"member", "activate"} => token'[y.token].state = "consumed"
      <4>1. y.pc \in {"member", "activate"} => y.token \in Token
        BY <1>0 DEF SeatInv, SeatFits
      <4> QED
        BY <1>2, <3>1, <4>1 DEF LinkFits
    <3>8. y.inserts # None => ~Stored(y.inserts)'
      BY <1>2, <3>1, <3>2, <3>3, EmailTokensAssumption DEF LinkFits
    <3>9. LinkFits(y)'
      <4>1. (Publishing(y) /\ y.scope \notin overlapped') =>
              OlderIn(y.scope)' \subseteq IF y.pc = "supersede" THEN y.scan ELSE y.marks
        BY <3>1, <3>4 DEF LinkFits
      <4> QED
        BY <3>1, <3>5, <3>6, <3>7, <3>8, <4>1 DEF LinkFits, Publishing
    <3> QED
      BY <3>1, <3>9 DEF LinkFits, Stored, Publishing, OlderIn, Unconsumed
  <2> QED
    BY <2>1, <2>2
<1>4. \A p, q \in Req : p # q => LinkApart(req[p], req[q], raced, overlapped)'
  <2>1. ASSUME NEW p \in Req, NEW q \in Req, p # q
        PROVE  LinkApart(req'[p], req'[q], raced', overlapped')
    <3>1. CASE p # r /\ q # r
      BY <1>0, <1>1, <2>1, <3>1 DEF LinkApart
    <3>2. CASE p = r \/ q = r
      BY <1>1, <2>1, <3>2
    <3> QED
      BY <3>1, <3>2
  <2> QED
    BY <2>1 DEF LinkApart, Publishing
<1>5. UsedOnce'
  <2> SUFFICES ASSUME NEW t \in Token, t \notin raced'
               PROVE  /\ used'[t] <= 1
                      /\ used'[t] = 1 => /\ token'[t].state = "consumed"
                                         /\ \A q \in Req : req'[q].token # t
    BY DEF UsedOnce
  <2>1. /\ used[t] \in Nat /\ used[t] <= 1 /\ t # None
        /\ used[t] = 1 => /\ token[t].state = "consumed"
                          /\ \A q \in Req : req[q].token # t
    BY <1>0, EmailTokensAssumption DEF UsedOnce
  <2>2. CASE used'[t] = used[t]
    BY <1>1, <1>2, <2>1, <2>2
  <2>3. CASE /\ used'[t] = used[t] + 1 /\ t = req[r].token
             /\ x.token = None /\ token'[t].state = "consumed"
    <3>1. used[t] = 0
      BY <2>1, <2>3
    <3>2. \A q \in Req : q # r => req[q].token # t
      BY <1>0, <2>1, <2>3 DEF LinkApart
    <3> QED
      BY <1>1, <2>1, <2>3, <3>1, <3>2
  <2> QED
    BY <2>2, <2>3
<1>6. ConsumptionJustified'
  <2> SUFFICES ASSUME NEW t \in Token, token'[t].state = "consumed"
               PROVE  \/ t \in settled' \/ t \in died'
                      \/ \E q \in Req : req'[q].token = t /\ req'[q].pc \in {"member", "activate"}
    BY DEF ConsumptionJustified
  <2>1. CASE t \in C
    BY <1>1, <2>1
  <2>2. CASE t \notin C
    <3>1. token[t].state = "consumed"
      BY <1>2, <2>2, EmailTokensAssumption
    <3> QED
      BY <1>0, <1>1, <3>1 DEF ConsumptionJustified
  <2> QED
    BY <2>1, <2>2
<1>7. OneLiveLink'
  <2>1. ASSUME NEW t \in Token, NEW u \in Token, Unconsumed(t)', Unconsumed(u)',
               token'[t].scope = token'[u].scope, t # u, t # n
        PROVE  token'[t].scope \in overlapped'
    <3>1. Unconsumed(t) /\ token'[t] = token[t] /\ t \notin C
      BY <1>2, <2>1 DEF Unconsumed
    <3>2. CASE u = n
      <4>1. n # None /\ token[t].scope = req[r].scope
        BY <2>1, <3>1, <3>2, EmailTokensAssumption
      <4> QED
        BY <3>1, <4>1 DEF OlderIn
    <3>3. CASE u # n
      BY <1>0, <1>2, <2>1, <3>1, <3>3 DEF OneLiveLink
    <3> QED
      BY <3>2, <3>3
  <2>2. ASSUME NEW t \in Token, NEW u \in Token, Unconsumed(t)', Unconsumed(u)',
               token'[t].scope = token'[u].scope, t # u
        PROVE  token'[t].scope \in overlapped'
    BY <2>1, <2>2
  <2> QED
    BY <2>2 DEF OneLiveLink
<1> QED
  BY <1>3, <1>4, <1>5, <1>6, <1>7 DEF LinkInv

\* The same, the whole step in one predicate.
Moves(r, x, C, n) ==
  /\ x \in Request /\ Put(r, x) /\ C \subseteq Token /\ n \in Token \cup {None}
  /\ \A t \in C : Stored(t) /\ token'[t].state = "consumed"
  /\ \A t \in Token : t \notin C \cup {n} => token'[t] = token[t]
  /\ n # None => /\ ~Stored(n) /\ Publishing(req[r]) /\ ~Publishing(x)
                 /\ token'[n].state = "live" /\ token'[n].scope = req[r].scope
                 /\ req[r].scope \notin overlapped => OlderIn(req[r].scope) \subseteq C
                 /\ \A q \in Req \ {r} : req[q].inserts # n
  /\ raced' = raced /\ overlapped' = overlapped
  /\ settled \subseteq settled' /\ died \subseteq died'
  /\ \A t \in C : t \in settled' \/ (x.token = t /\ x.pc \in {"member", "activate"})
  /\ req[r].pc \in {"member", "activate"} =>
       \/ x.pc \in {"member", "activate"} /\ x.token = req[r].token
       \/ req[r].token \in settled' \cup died'
  /\ \A t \in Token : \/ used'[t] = used[t]
                      \/ /\ used'[t] = used[t] + 1 /\ t = req[r].token
                         /\ x.token = None /\ token'[t].state = "consumed"
  /\ x.token \in {req[r].token, None}

LEMMA LinkMove ==
  ASSUME IndInv, NEW r \in Req, NEW x, NEW C, NEW n, Moves(r, x, C, n), LinkFits(x)',
         \A q \in Req \ {r} : /\ LinkApart(x, req[q], raced, overlapped)
                              /\ LinkApart(req[q], x, raced, overlapped)
  PROVE  LinkInv'
<1>1. SeatInv /\ LinkInv /\ overlapped \cap Invitee = {}
  BY DEF IndInv, LinkInv, OneLiveLink
<1> QED
  BY <1>1, LinkStep DEF Moves

\* A step that only puts x in the slot of request r.
LEMMA QuietStep ==
  ASSUME IndInv, NEW r \in Req, NEW x \in Request, Put(r, x), UNCHANGED <<rows, history>>,
         SeatFits(x), LinkFits(x),
         x.writesSeat => SeatFree(r, x.scope) \/ (req[r].writesSeat /\ req[r].scope = x.scope),
         x.pc = "activate" => x.scope \notin removed,
         ((Adds(x) /\ x.scope \in Invitee) => x.scope \in Claimed) \/ Taken < MemberCap,
         req[r].pc \in {"member", "activate"} =>
           x.pc \in {"member", "activate"} /\ x.token = req[r].token,
         x.token # None => x.token = req[r].token,
         \A q \in Req \ {r} : /\ LinkApart(x, req[q], raced, overlapped)
                              /\ LinkApart(req[q], x, raced, overlapped)
  PROVE  IndInv'
<1>1. TypeOK'
  BY PutReq DEF IndInv, SeatInv, TypeOK, rows, history
<1>2. SeatInv'
  BY <1>1, SeatStep DEF IndInv, rows, history
<1>3. LinkFits(x)'
  BY DEF LinkFits, Stored, OlderIn, Unconsumed, rows, history
<1>4. overlapped \cap Invitee = {}
  BY DEF IndInv, LinkInv, OneLiveLink
<1>5. LinkInv'
  <2>1. \A t \in Token : t \notin {} \cup {None} => token'[t] = token[t]
    BY DEF rows
  <2>2. \A q \in Req \ {r} : /\ LinkApart(x, req[q], raced', overlapped')
                             /\ LinkApart(req[q], x, raced', overlapped')
    BY DEF history
  <2> QED
    BY <1>3, <1>4, <2>1, <2>2, LinkStep DEF IndInv, rows, history
<1> QED
  BY <1>2, <1>5 DEF IndInv

\* When a request that ends, or goes on with the same token and nothing more
\* published, keeps away from the others.
LEMMA ApartKept ==
  ASSUME IndInv, NEW r \in Req, NEW x,
         x.inserts \in {req[r].inserts, None}, x.token \in {req[r].token, None},
         Publishing(x) => Publishing(req[r]) /\ x.scope = req[r].scope
  PROVE  \A q \in Req \ {r} : /\ LinkApart(x, req[q], raced, overlapped)
                              /\ LinkApart(req[q], x, raced, overlapped)
<1> SUFFICES ASSUME NEW q \in Req, q # r
             PROVE  /\ LinkApart(x, req[q], raced, overlapped)
                    /\ LinkApart(req[q], x, raced, overlapped)
  OBVIOUS
<1>1. /\ LinkApart(req[r], req[q], raced, overlapped)
      /\ LinkApart(req[q], req[r], raced, overlapped)
  BY DEF IndInv, LinkInv
<1> QED
  BY <1>1 DEF LinkApart

\* What is known of every request.
LEMMA Fits ==
  ASSUME IndInv, NEW r \in Req
  PROVE  /\ req[r] \in Request /\ SeatFits(req[r]) /\ LinkFits(req[r])
         /\ req \in [Req -> Request]
  BY DEF IndInv, SeatInv, LinkInv, TypeOK

\* What a flow runs in a transaction, by the step it has reached.
LEMMA TransactionFacts ==
  ASSUME IndInv, NEW r \in Req
  PROVE  /\ req[r].pc \in {"supersede", "insert"} =>
              (InTransaction(r) <=> req[r].scope # "MAGIC_LINK")
         /\ req[r].pc = "mark" => (InTransaction(r) <=> req[r].scope \notin Invitee)
  BY EmailTokensAssumption DEF InTransaction, Issuing, Purpose

-----------------------------------------------------------------------------
\* The callers of issue().

LEMMA RequestSteps ==
  ASSUME IndInv, NEW r \in Req,
         Register(r) \/ MagicLinkRequest(r) \/ PasswordResetRequest(r)
  PROVE  IndInv'
<1>0. req[r] \in Request /\ SeatFits(req[r]) /\ LinkFits(req[r])
  BY Fits
<1>1. ASSUME NEW p \in {"create", "scan"}, NEW s \in Purpose, NEW x,
             x = [Idle EXCEPT !.pc = p, !.scope = s], Put(r, x),
             req[r].pc = "idle", UNCHANGED <<rows, history>>
      PROVE  IndInv'
  <2>1. /\ x \in Request /\ x.pc = p /\ x.scope = s /\ x.token = None /\ x.inserts = None
        /\ ~x.writesSeat /\ x.scan = {} /\ x.marks = {} /\ s \notin Invitee /\ s \in Scope
    BY <1>1, EmailTokensAssumption DEF Idle, Request, Pc, Scope
  <2>2. SeatFits(x) /\ LinkFits(x) /\ ~Adds(x) /\ ~Publishing(x)
    BY <2>1 DEF SeatFits, LinkFits, Adds, Publishing
  <2>3. \A q \in Req \ {r} : /\ LinkApart(x, req[q], raced, overlapped)
                             /\ LinkApart(req[q], x, raced, overlapped)
    BY <2>1, <2>2, ApartKept
  <2> QED
    BY <1>1, <2>1, <2>2, <2>3, QuietStep
<1>2. ASSUME NEW x \in Request, Put(r, x), UNCHANGED <<rows, history>>,
             req[r].pc = "create", x = [req[r] EXCEPT !.pc = "scan", !.registers = TRUE]
      PROVE  IndInv'
  <2>1. /\ x.pc = "scan" /\ x.scope = req[r].scope
        /\ x.token = req[r].token /\ x.inserts = req[r].inserts /\ x.seen = req[r].seen
        /\ x.writesSeat = req[r].writesSeat /\ x.scan = req[r].scan /\ x.marks = req[r].marks
    BY <1>0, <1>2 DEF Request
  <2>2. SeatFits(x) /\ LinkFits(x) /\ ~Adds(x) /\ ~Publishing(x)
    BY <1>0, <1>2, <2>1 DEF SeatFits, LinkFits, Adds, Publishing
  <2>3. \A q \in Req \ {r} : /\ LinkApart(x, req[q], raced, overlapped)
                             /\ LinkApart(req[q], x, raced, overlapped)
    BY <2>1, <2>2, ApartKept
  <2> QED
    BY <1>0, <1>2, <2>1, <2>2, <2>3, QuietStep DEF SeatFits
<1>3. ASSUME Finish(r), UNCHANGED <<rows, history>>, req[r].pc \notin {"member", "activate"}
      PROVE  IndInv'
  <2>1. \A q \in Req \ {r} : /\ LinkApart(Idle, req[q], raced, overlapped)
                             /\ LinkApart(req[q], Idle, raced, overlapped)
    BY IdleFits, ApartKept
  <2> QED
    BY <1>3, <2>1, IdleFits, QuietStep DEF Finish
<1>4. RegisterCheck(r) => IndInv'
  BY <1>1 DEF RegisterCheck, Purpose
<1>5. RegisterCreate(r) => IndInv'
  <2>1. [req[r] EXCEPT !.pc = "scan", !.registers = TRUE] \in Request
    BY <1>0 DEF Request, Pc
  <2> QED
    BY <1>2, <1>3, <2>1 DEF RegisterCreate
<1>6. MagicLinkRequest(r) => IndInv'
  BY <1>1 DEF MagicLinkRequest, Purpose
<1>7. PasswordResetRequest(r) => IndInv'
  BY <1>1 DEF PasswordResetRequest, Purpose
<1> QED
  BY <1>4, <1>5, <1>6, <1>7 DEF Register

LEMMA MembersPostStep ==
  ASSUME IndInv, NEW r \in Req, MembersPost(r)
  PROVE  IndInv'
<1>0. req[r] \in Request /\ SeatFits(req[r]) /\ LinkFits(req[r])
  BY Fits
<1>1. ASSUME NEW i \in Invitee, AddMember(r, i), NEW x,
             x = [Idle EXCEPT !.pc = "seat", !.scope = i, !.seen = seat[i]]
      PROVE  IndInv'
  <2>1. /\ x.pc = "seat" /\ x.scope = i /\ x.seen = seat[i] /\ x.token = None /\ x.inserts = None
        /\ ~x.writesSeat /\ x.scan = {} /\ x.marks = {} /\ i \in Scope
    BY <1>1 DEF Idle, Scope
  <2>2. x \in Request
    <3>1. seat[i] \in {"none", "PENDING", "INACTIVE"}
      BY <1>1 DEF AddMember, IndInv, SeatInv, TypeOK
    <3> QED
      BY <1>1, <3>1 DEF Idle, Request, Pc, Scope
  <2>3. SeatFits(x) /\ LinkFits(x) /\ ~Publishing(x)
    BY <2>1 DEF SeatFits, LinkFits, Publishing
  <2>4. \A q \in Req \ {r} : /\ LinkApart(x, req[q], raced, overlapped)
                             /\ LinkApart(req[q], x, raced, overlapped)
    BY <2>1, <2>3, ApartKept
  <2>5. Adds(x) => Taken < MemberCap
    BY <1>1, <2>1 DEF AddMember, Adds
  <2>6. /\ req[r].pc = "idle" /\ Put(r, x) /\ UNCHANGED <<rows, history>>
    BY <1>1 DEF AddMember
  <2> QED
    BY <2>1, <2>2, <2>3, <2>4, <2>5, <2>6, QuietStep
<1>2. ASSUME TakeSeat(r), NEW x, x = [req[r] EXCEPT !.pc = "scan", !.writesSeat = TRUE],
             req[r].seen = "PENDING" \/ seat[req[r].scope] = "none"
      PROVE  IndInv'
  <2>1. /\ req[r].pc = "seat" /\ x \in Request /\ x.pc = "scan" /\ x.scope = req[r].scope
        /\ x.token = req[r].token /\ x.inserts = req[r].inserts /\ x.seen = req[r].seen
        /\ x.writesSeat /\ x.scan = req[r].scan /\ x.marks = req[r].marks
    BY <1>0, <1>2 DEF TakeSeat, Request, Pc
  <2>2. SeatFits(x) /\ LinkFits(x) /\ ~Publishing(x)
    BY <1>0, <1>2, <2>1 DEF SeatFits, LinkFits, Publishing
  <2>3. \A q \in Req \ {r} : /\ LinkApart(x, req[q], raced, overlapped)
                             /\ LinkApart(req[q], x, raced, overlapped)
    BY <2>1, <2>2, ApartKept
  <2>4. Adds(x) => x.scope \in Claimed
    BY <1>0, <2>1 DEF Adds, Claimed, SeatFits
  <2>5. Put(r, x) /\ UNCHANGED <<rows, history>> /\ SeatFree(r, x.scope)
    BY <1>2, <2>1 DEF TakeSeat
  <2> QED
    BY <2>1, <2>2, <2>3, <2>4, <2>5, QuietStep
<1>3. ASSUME TakeSeat(r), Finish(r)
      PROVE  IndInv'
  <2>1. \A q \in Req \ {r} : /\ LinkApart(Idle, req[q], raced, overlapped)
                             /\ LinkApart(req[q], Idle, raced, overlapped)
    BY IdleFits, ApartKept
  <2> QED
    BY <1>3, <2>1, IdleFits, QuietStep DEF Finish, TakeSeat
<1>4. CASE \E i \in Invitee : AddMember(r, i)
  BY <1>1, <1>4
<1>5. CASE TakeSeat(r)
  <2>1. \/ Finish(r)
        \/ req[r].seen = "PENDING" \/ seat[req[r].scope] = "none"
    BY <1>5 DEF TakeSeat
  <2> QED
    BY <1>2, <1>3, <1>5, <2>1
<1> QED
  BY <1>4, <1>5 DEF MembersPost

-----------------------------------------------------------------------------
\* EmailTokenService.issue.

LEMMA ScanOlderStep ==
  ASSUME IndInv, NEW r \in Req, ScanOlder(r)
  PROVE  IndInv'
<1>0. /\ req[r] \in Request /\ SeatFits(req[r]) /\ LinkFits(req[r]) /\ req[r].pc = "scan"
      /\ token' = token /\ seat' = seat /\ removed' = removed /\ overlapped \subseteq overlapped'
      /\ TypeOK /\ OlderIn(req[r].scope) \subseteq Token
  BY Fits DEF ScanOlder, IndInv, SeatInv, rows, OlderIn
<1>1. ASSUME NEW x, x = [req[r] EXCEPT !.pc = "supersede", !.scan = OlderIn(req[r].scope)]
      PROVE  IndInv'
  <2>1. /\ x \in Request /\ x.pc = "supersede" /\ x.scope = req[r].scope
        /\ x.token = req[r].token /\ x.inserts = req[r].inserts /\ x.seen = req[r].seen
        /\ x.writesSeat = req[r].writesSeat /\ x.scan = OlderIn(x.scope) /\ x.marks = req[r].marks
    BY <1>0, <1>1 DEF Request, Pc
  <2>2. Put(r, x)
    BY <1>1 DEF ScanOlder
  <2>3. overlapped' \cap Invitee = {}
    <3>1. ASSUME NEW q \in Req, q # r, req[q].scope = req[r].scope, req[r].scope \in Invitee,
                 Issuing(q), req[q].pc \notin {"create", "seat", "scan"}
          PROVE  FALSE
      <4>1. req[r].writesSeat /\ req[q].writesSeat
        BY <1>0, <3>1, Fits DEF Issuing, SeatFits, LinkFits
      <4> QED
        BY <3>1, <4>1 DEF IndInv, SeatInv, SeatApart
    <3>2. overlapped \cap Invitee = {}
      BY DEF IndInv, LinkInv, OneLiveLink
    <3> QED
      BY <3>1, <3>2 DEF ScanOlder
  <2>4. TypeOK'
    BY <1>0, <2>1, <2>2, PutReq DEF TypeOK, ScanOlder, rows, SeatFits
  <2>5. SeatFits(x) /\ (Adds(x) => req[r].writesSeat /\ req[r].seen # "PENDING")
    BY <1>0, <2>1 DEF SeatFits, Adds
  <2>6. SeatInv'
    <3>1. (Adds(x) /\ x.scope \in Invitee) => x.scope \in Claimed
      BY <2>1, <2>5 DEF Claimed, Adds
    <3> QED
      BY <1>0, <2>1, <2>2, <2>4, <2>5, <3>1, SeatStep DEF IndInv
  <2>7. LinkFits(x)'
    <3>1. /\ \A t \in Token : token'[t] = token[t]
          /\ OlderIn(x.scope)' = OlderIn(x.scope)
      BY <1>0 DEF OlderIn, Unconsumed
    <3>2. \A t \in OlderIn(x.scope) : Stored(t)
      BY DEF OlderIn, Unconsumed, Stored
    <3>3. \A t \in x.scan \cup x.marks : Stored(t)'
      BY <1>0, <2>1, <3>2 DEF LinkFits, Stored
    <3> QED
      BY <1>0, <2>1, <3>1, <3>3 DEF LinkFits, Publishing
  <2>8. \A q \in Req \ {r} : /\ LinkApart(x, req[q], raced', overlapped')
                             /\ LinkApart(req[q], x, raced', overlapped')
    <3>1. ASSUME NEW q \in Req, q # r, Publishing(req[q]), x.scope = req[q].scope
          PROVE  x.scope \in overlapped'
      BY <2>1, <3>1 DEF ScanOlder, Publishing, Issuing
    <3>2. x.token = None /\ x.inserts = None
      BY <1>0, <2>1 DEF LinkFits
    <3> QED
      BY <3>1, <3>2 DEF LinkApart
  <2>9. LinkInv'
    <3>1. /\ raced' = raced /\ settled' = settled /\ died' = died /\ used' = used
          /\ req[r].pc \notin {"member", "activate"} /\ x.token = None
      BY <1>0, <2>1 DEF ScanOlder, LinkFits
    <3>2. \A t \in Token : t \notin {} \cup {None} => token'[t] = token[t]
      BY <1>0
    <3> QED
      BY <1>0, <2>1, <2>2, <2>3, <2>7, <2>8, <3>1, <3>2, LinkStep DEF IndInv
  <2> QED
    BY <2>6, <2>9 DEF IndInv
<1> QED
  BY <1>1

LEMMA SupersedeStep ==
  ASSUME IndInv, NEW r \in Req, Supersede(r)
  PROVE  IndInv'
<1> DEFINE older == {t \in req[r].scan : Unconsumed(t)}
<1>0. /\ req[r] \in Request /\ SeatFits(req[r]) /\ LinkFits(req[r]) /\ req[r].pc = "supersede"
      /\ TypeOK /\ older \subseteq Token /\ older \subseteq req[r].scan
      /\ \A t \in older : Stored(t)
      /\ req[r].scope \notin overlapped => OlderIn(req[r].scope) \subseteq older
      /\ req[r].marks = {} /\ req[r].token = None /\ req[r].inserts = None
  BY Fits DEF Supersede, IndInv, SeatInv, Request, LinkFits, Publishing, OlderIn
<1>1. ASSUME InTransaction(r), NEW x,
             x = [req[r] EXCEPT !.pc = "insert", !.scan = {}, !.marks = older]
      PROVE  IndInv'
  <2>1. /\ x \in Request /\ x.pc = "insert" /\ x.scope = req[r].scope
        /\ x.token = req[r].token /\ x.inserts = req[r].inserts /\ x.seen = req[r].seen
        /\ x.writesSeat = req[r].writesSeat /\ x.scan = {} /\ x.marks = older
    <3> HIDE DEF older
    <3> QED
      BY <1>0, <1>1 DEF Request, Pc
  <2>2. Put(r, x) /\ UNCHANGED <<rows, history>> /\ req[r].scope # "MAGIC_LINK"
    BY <1>0, <1>1, TransactionFacts DEF Supersede, rows, history
  <2> HIDE DEF older
  <2>3. SeatFits(x) /\ (Adds(x) => Adds(req[r]))
    BY <1>0, <2>1 DEF SeatFits, Adds
  <2>4. LinkFits(x) /\ (Publishing(x) => Publishing(req[r]))
    BY <1>0, <2>1, <2>2 DEF LinkFits, Publishing
  <2>5. (Adds(x) /\ x.scope \in Invitee) => x.scope \in Claimed
    BY <2>1, <2>3 DEF Claimed
  <2>6. \A q \in Req \ {r} : /\ LinkApart(x, req[q], raced, overlapped)
                             /\ LinkApart(req[q], x, raced, overlapped)
    BY <2>1, <2>4, ApartKept
  <2> QED
    BY <1>0, <2>1, <2>2, <2>3, <2>4, <2>5, <2>6, QuietStep
<1>2. ASSUME ~InTransaction(r), NEW x, x = [req[r] EXCEPT !.pc = "insert", !.scan = {}]
      PROVE  IndInv'
  <2>1. /\ x \in Request /\ x.pc = "insert" /\ x.scope = req[r].scope
        /\ x.token = req[r].token /\ x.inserts = req[r].inserts /\ x.seen = req[r].seen
        /\ x.writesSeat = req[r].writesSeat /\ x.scan = {} /\ x.marks = {}
    BY <1>0, <1>2 DEF Request, Pc
  <2>2. /\ Put(r, x) /\ settled' = settled \cup older
        /\ token' = [t \in Token |-> IF t \in older
                       THEN [token[t] EXCEPT !.state = "consumed"] ELSE token[t]]
        /\ UNCHANGED <<scopes, account, seat, used, raced, overlapped, died, removed>>
    BY <1>2 DEF Supersede
  <2> HIDE DEF older
  <2>3. /\ \A t \in older : token'[t].state = "consumed" /\ token'[t].scope = token[t].scope
        /\ \A t \in Token : t \notin older \cup {None} => token'[t] = token[t]
    BY <1>0, <2>2 DEF TypeOK
  <2>4. TypeOK'
    <3>1. token' \in [Token -> [state: {"free", "live", "expired", "consumed"},
                               scope: Scope \cup {None}]]
      BY <1>0, <2>2 DEF TypeOK
    <3>2. \A t \in Token : token'[t].state = "free" <=> token'[t].scope = None
      BY <1>0, <2>2, <2>3 DEF TypeOK, Stored
    <3> QED
      BY <1>0, <2>1, <2>2, <3>1, <3>2, PutReq DEF TypeOK
  <2>5. SeatFits(x) /\ (Adds(x) => Adds(req[r]))
    BY <1>0, <2>1 DEF SeatFits, Adds
  <2>6. SeatInv'
    <3>1. (Adds(x) /\ x.scope \in Invitee) => x.scope \in Claimed
      BY <2>1, <2>5 DEF Claimed
    <3> QED
      BY <1>0, <2>1, <2>2, <2>4, <2>5, <3>1, SeatStep DEF IndInv
  <2>7. LinkFits(x)'
    <3>1. x.scope \notin overlapped' => OlderIn(x.scope)' = {}
      <4>1. ASSUME NEW t \in Token, Unconsumed(t)' PROVE t \notin older /\ token'[t] = token[t]
        BY <2>3, <4>1, EmailTokensAssumption DEF Unconsumed
      <4> QED
        BY <1>0, <2>1, <2>2, <4>1 DEF OlderIn, Unconsumed
    <3> QED
      BY <1>0, <2>1, <3>1 DEF LinkFits, Publishing
  <2>8. Publishing(x) => Publishing(req[r])
    BY <1>0 DEF Publishing
  <2>9. \A q \in Req \ {r} : /\ LinkApart(x, req[q], raced', overlapped')
                             /\ LinkApart(req[q], x, raced', overlapped')
    BY <2>1, <2>2, <2>8, ApartKept
  <2>10. overlapped' \cap Invitee = {}
    BY <2>2 DEF IndInv, LinkInv, OneLiveLink
  <2>11. LinkInv'
    BY <1>0, <2>1, <2>2, <2>3, <2>7, <2>9, <2>10, LinkStep DEF IndInv
  <2> QED
    BY <2>6, <2>11 DEF IndInv
<1> QED
  BY <1>1, <1>2

LEMMA InsertStep ==
  ASSUME IndInv, NEW r \in Req, Insert(r)
  PROVE  IndInv'
<1>0. /\ req[r] \in Request /\ SeatFits(req[r]) /\ LinkFits(req[r]) /\ req[r].pc = "insert"
      /\ TypeOK /\ req[r].token = None /\ req[r].scope \in Scope
  BY Fits DEF Insert, IndInv, SeatInv, LinkFits, SeatFits
<1>1. PICK t \in Token :
        /\ Fresh(t)
        /\ IF InTransaction(r)
             THEN /\ Put(r, [req[r] EXCEPT !.pc = "commit", !.inserts = t])
                  /\ UNCHANGED token
             ELSE /\ Finish(r)
                  /\ token' = [token EXCEPT ![t] = [state |-> "live", scope |-> req[r].scope]]
  BY DEF Insert
<1>2. /\ ~Stored(t) /\ t # None /\ \A q \in Req : req[q].inserts # t
      /\ UNCHANGED <<scopes, account, seat, history>>
  BY <1>1, EmailTokensAssumption DEF Fresh, Stored, Insert
<1>3. ASSUME InTransaction(r), NEW x, x = [req[r] EXCEPT !.pc = "commit", !.inserts = t]
      PROVE  IndInv'
  <2>1. /\ x \in Request /\ x.pc = "commit" /\ x.scope = req[r].scope
        /\ x.token = req[r].token /\ x.inserts = t /\ x.seen = req[r].seen
        /\ x.writesSeat = req[r].writesSeat /\ x.scan = req[r].scan /\ x.marks = req[r].marks
    BY <1>0, <1>3 DEF Request, Pc
  <2>2. Put(r, x) /\ UNCHANGED <<rows, history>>
    BY <1>1, <1>2, <1>3 DEF rows, history
  <2>3. SeatFits(x) /\ (Adds(x) => Adds(req[r]))
    BY <1>0, <2>1 DEF SeatFits, Adds
  <2>4. LinkFits(x) /\ Publishing(req[r])
    BY <1>0, <1>2, <2>1 DEF LinkFits, Publishing, SeatFits
  <2>5. (Adds(x) /\ x.scope \in Invitee) => x.scope \in Claimed
    BY <2>1, <2>3 DEF Claimed
  <2>6. \A q \in Req \ {r} : /\ LinkApart(x, req[q], raced, overlapped)
                             /\ LinkApart(req[q], x, raced, overlapped)
    <3> SUFFICES ASSUME NEW q \in Req, q # r
                 PROVE  /\ LinkApart(x, req[q], raced, overlapped)
                        /\ LinkApart(req[q], x, raced, overlapped)
      OBVIOUS
    <3>1. /\ LinkApart(req[r], req[q], raced, overlapped)
          /\ LinkApart(req[q], req[r], raced, overlapped)
      BY DEF IndInv, LinkInv
    <3> QED
      BY <1>2, <2>1, <2>4, <3>1 DEF LinkApart
  <2> QED
    BY <1>0, <2>1, <2>2, <2>3, <2>4, <2>5, <2>6, QuietStep
<1>4. ASSUME ~InTransaction(r)
      PROVE  IndInv'
  <2>1. /\ Put(r, Idle) /\ req[r].scope = "MAGIC_LINK" /\ Publishing(req[r])
        /\ token' = [token EXCEPT ![t] = [state |-> "live", scope |-> req[r].scope]]
    BY <1>0, <1>1, <1>4, TransactionFacts DEF Finish, Publishing
  <2>2. /\ token'[t].state = "live" /\ token'[t].scope = req[r].scope
        /\ \A u \in Token : u \notin {} \cup {t} => token'[u] = token[u]
    BY <1>0, <2>1 DEF TypeOK
  <2>3. TypeOK'
    <3>1. token' \in [Token -> [state: {"free", "live", "expired", "consumed"},
                               scope: Scope \cup {None}]]
      BY <1>0, <2>1 DEF TypeOK
    <3>2. \A u \in Token : token'[u].state = "free" <=> token'[u].scope = None
      BY <1>0, <2>2, EmailTokensAssumption DEF TypeOK
    <3> QED
      BY <1>0, <1>2, <2>1, <3>1, <3>2, IdleFits, PutReq DEF TypeOK, history
  <2>4. SeatInv'
    BY <1>2, <2>1, <2>3, IdleFits, SeatStep DEF IndInv, history
  <2>5. req[r].scope \notin overlapped => OlderIn(req[r].scope) \subseteq {}
    BY <1>0, <2>1 DEF LinkFits
  <2>6. \A q \in Req \ {r} : /\ LinkApart(Idle, req[q], raced, overlapped)
                             /\ LinkApart(req[q], Idle, raced, overlapped)
    BY IdleFits, ApartKept
  <2>8. LinkInv'
    <3>1. Moves(r, Idle, {}, t)
      BY <1>0, <1>2, <2>1, <2>2, <2>5, IdleFits DEF Moves, history
    <3>2. LinkFits(Idle)'
      BY IdleFits
    <3> QED
      BY <2>6, <3>1, <3>2, LinkMove
  <2> QED
    BY <2>4, <2>8 DEF IndInv
<1> QED
  BY <1>3, <1>4

-----------------------------------------------------------------------------
\* EmailTokenService.consume and what the flows do with the token.

LEMMA FindTokenStep ==
  ASSUME IndInv, NEW r \in Req, NEW t \in Token, FindToken(r, t)
  PROVE  IndInv'
<1>0. /\ TypeOK /\ token[t].state = "live" /\ req[r].pc = "idle" /\ t # None
      /\ token[t].scope \in Scope /\ t \notin {u \in Token : ~Stored(u)}
  BY EmailTokensAssumption DEF FindToken, IndInv, SeatInv, TypeOK, Stored
<1>1. ASSUME NEW x, x = [Idle EXCEPT !.pc = "mark", !.scope = token[t].scope, !.token = t]
      PROVE  IndInv'
  <2>1. /\ x \in Request /\ x.pc = "mark" /\ x.scope = token[t].scope /\ x.token = t
        /\ x.inserts = None /\ ~x.writesSeat /\ x.scan = {} /\ x.marks = {}
    BY <1>0, <1>1 DEF Idle, Request, Pc
  <2>2. /\ Put(r, x) /\ token' = token /\ raced \subseteq raced'
        /\ raced' = raced \cup {u \in {t} : \E q \in Req \ {r} : req[q].token = u}
        /\ UNCHANGED <<scopes, account, seat, used, overlapped, settled, died, removed>>
    BY <1>1 DEF FindToken, rows
  <2>3. SeatFits(x) /\ ~Adds(x) /\ ~Publishing(x)
    BY <1>0, <2>1 DEF SeatFits, Adds, Publishing
  <2>4. TypeOK'
    BY <1>0, <2>1, <2>2, PutReq DEF TypeOK
  <2>5. SeatInv'
    BY <2>1, <2>2, <2>3, <2>4, SeatStep DEF IndInv
  <2>6. LinkFits(x)'
    BY <1>0, <2>1, <2>2, <2>3 DEF LinkFits, Publishing, Stored
  <2>7. \A q \in Req \ {r} : /\ LinkApart(x, req[q], raced', overlapped')
                             /\ LinkApart(req[q], x, raced', overlapped')
    <3> SUFFICES ASSUME NEW q \in Req, q # r
                 PROVE  /\ LinkApart(x, req[q], raced', overlapped')
                        /\ LinkApart(req[q], x, raced', overlapped')
      OBVIOUS
    <3>1. req[q].token = t => t \in raced'
      BY <2>2
    <3> QED
      BY <2>1, <2>3, <3>1 DEF LinkApart
  <2>8. overlapped' \cap Invitee = {}
    BY <2>2 DEF IndInv, LinkInv, OneLiveLink
  <2>9. LinkInv'
    <3>1. token[x.token].state # "consumed" /\ req[r].pc \notin {"member", "activate"}
      BY <1>0, <2>1
    <3>2. \A u \in Token : u \notin {} \cup {None} => token'[u] = token[u]
      BY <2>2
    <3>3. /\ Put(r, x) /\ raced \subseteq raced' /\ overlapped' = overlapped
          /\ settled' = settled /\ died' = died /\ used' = used
      BY <2>2
    <3>4. x \in Request /\ x.token = t
      BY <2>1
    <3> QED
      BY <2>6, <2>7, <2>8, <3>1, <3>2, <3>3, <3>4, LinkStep DEF IndInv
  <2> QED
    BY <2>5, <2>9 DEF IndInv
<1> QED
  BY <1>1

LEMMA MarkStep ==
  ASSUME IndInv, NEW r \in Req, Mark(r)
  PROVE  IndInv'
<1>0. /\ req[r] \in Request /\ SeatFits(req[r]) /\ LinkFits(req[r]) /\ req[r].pc = "mark"
      /\ TypeOK /\ req[r].token \in Token /\ req[r].token # None /\ req[r].marks = {}
      /\ Stored(req[r].token) /\ ~req[r].writesSeat /\ req[r].inserts = None
  BY Fits, EmailTokensAssumption DEF Mark, IndInv, SeatInv, LinkFits, SeatFits
<1>1. ASSUME InTransaction(r), NEW x,
             x = [req[r] EXCEPT !.pc = "effect", !.marks = {req[r].token}]
      PROVE  IndInv'
  <2>1. /\ x \in Request /\ x.pc = "effect" /\ x.scope = req[r].scope
        /\ x.token = req[r].token /\ x.inserts = req[r].inserts /\ x.seen = req[r].seen
        /\ x.writesSeat = req[r].writesSeat /\ x.scan = req[r].scan /\ x.marks = {x.token}
    BY <1>0, <1>1 DEF Request, Pc
  <2>2. Put(r, x) /\ UNCHANGED <<rows, history>> /\ req[r].scope \notin Invitee
    BY <1>0, <1>1, TransactionFacts DEF Mark, rows, history
  <2>3. SeatFits(x) /\ ~Adds(x) /\ LinkFits(x) /\ ~Publishing(x)
    BY <1>0, <2>1, <2>2 DEF SeatFits, Adds, LinkFits, Publishing
  <2>4. \A q \in Req \ {r} : /\ LinkApart(x, req[q], raced, overlapped)
                             /\ LinkApart(req[q], x, raced, overlapped)
    BY <2>1, <2>3, ApartKept
  <2> QED
    BY <1>0, <2>1, <2>2, <2>3, <2>4, QuietStep
<1>2. ASSUME ~InTransaction(r), NEW x, x = [req[r] EXCEPT !.pc = "member"]
      PROVE  IndInv'
  <2>1. /\ x \in Request /\ x.pc = "member" /\ x.scope = req[r].scope
        /\ x.token = req[r].token /\ x.inserts = req[r].inserts /\ x.seen = req[r].seen
        /\ x.writesSeat = req[r].writesSeat /\ x.scan = req[r].scan /\ x.marks = {}
    BY <1>0, <1>2 DEF Request, Pc
  <2>2. /\ Put(r, x) /\ req[r].scope \in Invitee
        /\ token' = [token EXCEPT ![req[r].token].state = "consumed"]
        /\ UNCHANGED <<scopes, account, seat, history>>
    BY <1>0, <1>2, TransactionFacts DEF Mark, Goto
  <2>3. /\ token'[req[r].token].state = "consumed"
        /\ token'[req[r].token].scope = token[req[r].token].scope
        /\ \A t \in Token : t # req[r].token => token'[t] = token[t]
    BY <1>0, <2>2 DEF TypeOK
  <2>4. TypeOK'
    <3>1. token' \in [Token -> [state: {"free", "live", "expired", "consumed"},
                               scope: Scope \cup {None}]]
      BY <1>0, <2>2 DEF TypeOK
    <3>2. \A t \in Token : token'[t].state = "free" <=> token'[t].scope = None
      BY <1>0, <2>3 DEF TypeOK, Stored
    <3> QED
      BY <1>0, <2>1, <2>2, <3>1, <3>2, PutReq DEF TypeOK, history
  <2>5. SeatFits(x) /\ ~Adds(x) /\ ~Publishing(x)
    BY <1>0, <2>1, <2>2 DEF SeatFits, Adds, Publishing
  <2>6. SeatInv'
    BY <1>0, <2>1, <2>2, <2>4, <2>5, SeatStep DEF IndInv, history
  <2>7. LinkFits(x)'
    <3>1. \A t \in Token : Stored(t) => Stored(t)'
      BY <2>3 DEF Stored
    <3>2. req[r].scan \subseteq Token
      BY <1>0 DEF Request
    <3> QED
      BY <1>0, <2>1, <2>3, <2>5, <3>1, <3>2 DEF LinkFits, Publishing
  <2>8. Moves(r, x, {req[r].token}, None)
    BY <1>0, <2>1, <2>2, <2>3 DEF Moves, history
  <2>9. \A q \in Req \ {r} : /\ LinkApart(x, req[q], raced, overlapped)
                             /\ LinkApart(req[q], x, raced, overlapped)
    BY <2>1, <2>5, ApartKept
  <2>10. LinkInv'
    BY <2>7, <2>8, <2>9, LinkMove
  <2> QED
    BY <2>6, <2>10 DEF IndInv
<1> QED
  BY <1>1, <1>2

LEMMA EffectStep ==
  ASSUME IndInv, NEW r \in Req, EmailVerify(r) \/ MagicLink(r) \/ PasswordResetConfirm(r)
  PROVE  IndInv'
<1>0. /\ req[r] \in Request /\ SeatFits(req[r]) /\ LinkFits(req[r]) /\ req[r].pc = "effect"
      /\ Goto(r, "commit") /\ UNCHANGED <<rows, history>>
  BY Fits DEF EmailVerify, MagicLink, PasswordResetConfirm
<1>1. ASSUME NEW x, x = [req[r] EXCEPT !.pc = "commit"]
      PROVE  IndInv'
  <2>1. /\ x \in Request /\ x.pc = "commit" /\ x.scope = req[r].scope
        /\ x.token = req[r].token /\ x.inserts = req[r].inserts /\ x.seen = req[r].seen
        /\ x.writesSeat = req[r].writesSeat /\ x.scan = req[r].scan /\ x.marks = req[r].marks
    BY <1>0, <1>1 DEF Request, Pc
  <2>2. SeatFits(x) /\ ~Adds(x) /\ LinkFits(x) /\ ~Publishing(x)
    BY <1>0, <2>1 DEF SeatFits, Adds, LinkFits, Publishing
  <2>3. \A q \in Req \ {r} : /\ LinkApart(x, req[q], raced, overlapped)
                             /\ LinkApart(req[q], x, raced, overlapped)
    BY <2>1, <2>2, ApartKept
  <2>4. Put(r, x)
    BY <1>0, <1>1 DEF Goto
  <2> QED
    BY <1>0, <2>1, <2>2, <2>3, <2>4, QuietStep
<1> QED
  BY <1>1

-----------------------------------------------------------------------------
\* The ends of requests.

\* A request that changes the seat it has claimed, and ends.
LEMMA SeatChange ==
  ASSUME IndInv, TypeOK', NEW r \in Req, Put(r, Idle), removed' = removed,
         Adds(req[r]), NEW i \in Invitee, req[r].scope = i, i \notin removed, SeatFree(r, i),
         \A j \in Invitee : j # i => seat'[j] = seat[j]
  PROVE  SeatInv'
<1>0. /\ TypeOK /\ (\A q \in Req : SeatFits(req[q])) /\ StaysOut
      /\ \A p, q \in Req : p # q => SeatApart(req[p], req[q])
      /\ 1 + Cardinality(Claimed) <= MemberCap + Cardinality(Req) - 1
  BY DEF IndInv, SeatInv
<1>1. /\ req'[r] = Idle /\ \A q \in Req : q # r => req'[q] = req[q]
      /\ ~Idle.writesSeat /\ Idle.pc = "idle" /\ ~Adds(Idle)
  BY <1>0, IdleFits, PutReq DEF TypeOK
<1>2. \A q \in Req : SeatFits(req[q])'
  <2>1. SeatFits(req[r])'
    BY <1>1 DEF SeatFits
  <2>2. ASSUME NEW q \in Req, q # r PROVE SeatFits(req[q])'
    BY <1>0, <1>1, <2>2 DEF SeatFits, SeatFree
  <2> QED
    BY <2>1, <2>2
<1>3. \A p, q \in Req : p # q => SeatApart(req[p], req[q])'
  BY <1>0, <1>1 DEF SeatApart
<1>4. StaysOut'
  <2> SUFFICES ASSUME NEW j \in removed
               PROVE  /\ seat'[j] = "INACTIVE"
                      /\ \A q \in Req : ~(req'[q].pc = "activate" /\ req'[q].scope = j)
    BY DEF StaysOut
  <2>1. j \in Invitee /\ j # i /\ seat[j] = "INACTIVE"
    BY <1>0 DEF TypeOK, StaysOut
  <2> QED
    BY <1>0, <1>1, <2>1 DEF StaysOut
<1>5. Claimed' \subseteq Claimed
  <2> SUFFICES ASSUME NEW j \in Invitee, j # i,
                      \/ seat'[j] \in {"ACTIVE", "PENDING"}
                      \/ \E q \in Req : Adds(req'[q]) /\ req'[q].scope = j
               PROVE  j \in Claimed
    BY DEF Claimed, Adds
  <2> QED
    BY <1>1 DEF Claimed
<1>6. Cardinality(Claimed') <= Cardinality(Claimed) /\ Cardinality(Claimed') \in Nat
  BY <1>5, ClaimedFinite, FS_Subset, FS_CardinalityType
<1>7. 1 + Cardinality(Claimed') <= MemberCap + Cardinality(Req) - 1
  <2>1. Cardinality(Req) \in Nat /\ MemberCap \in Nat
    BY EmailTokensAssumption, FS_CardinalityType
  <2> QED
    BY <1>0, <1>6, <2>1, ClaimedFinite
<1> QED
  BY <1>2, <1>3, <1>4, <1>7 DEF SeatInv

\* A request that ends and leaves the seats alone.
LEMMA SeatFinish ==
  ASSUME IndInv, TypeOK', NEW r \in Req, Put(r, Idle), seat' = seat, removed' = removed
  PROVE  SeatInv'
  BY IdleFits, SeatStep DEF IndInv

LEMMA FindMembershipStep ==
  ASSUME IndInv, NEW r \in Req, FindMembership(r)
  PROVE  IndInv'
<1>0. /\ req[r] \in Request /\ SeatFits(req[r]) /\ LinkFits(req[r]) /\ req[r].pc = "member"
      /\ TypeOK /\ StaysOut /\ req[r].token \in Token /\ req[r].scope \in Invitee
  BY Fits DEF FindMembership, IndInv, SeatInv, SeatFits
<1>1. ASSUME seat[req[r].scope] = "PENDING", NEW x, x = [req[r] EXCEPT !.pc = "activate"]
      PROVE  IndInv'
  <2>1. /\ x \in Request /\ x.pc = "activate" /\ x.scope = req[r].scope
        /\ x.token = req[r].token /\ x.inserts = req[r].inserts /\ x.seen = req[r].seen
        /\ x.writesSeat = req[r].writesSeat /\ x.scan = req[r].scan /\ x.marks = req[r].marks
    BY <1>0, <1>1 DEF Request, Pc
  <2>2. Put(r, x) /\ UNCHANGED <<rows, history>>
    BY <1>1 DEF FindMembership, Goto, rows, history
  <2>3. SeatFits(x) /\ LinkFits(x) /\ ~Publishing(x) /\ ~x.writesSeat
    BY <1>0, <2>1 DEF SeatFits, LinkFits, Publishing
  <2>4. x.scope \in Claimed /\ x.scope \notin removed
    BY <1>0, <1>1, <2>1 DEF Claimed, StaysOut
  <2>5. \A q \in Req \ {r} : /\ LinkApart(x, req[q], raced, overlapped)
                             /\ LinkApart(req[q], x, raced, overlapped)
    BY <2>1, <2>3, ApartKept
  <2> QED
    BY <1>0, <2>1, <2>2, <2>3, <2>4, <2>5, QuietStep
<1>2. ASSUME seat[req[r].scope] # "PENDING"
      PROVE  IndInv'
  <2>1. /\ Put(r, Idle) /\ settled' = settled \cup {req[r].token}
        /\ UNCHANGED <<rows, used, raced, overlapped, died, removed>>
    BY <1>2 DEF FindMembership, Finish
  <2>2. TypeOK'
    BY <1>0, <2>1, IdleFits, PutReq DEF TypeOK, rows
  <2>3. Moves(r, Idle, {}, None) /\ LinkFits(Idle)'
    BY <1>0, <2>1, IdleFits DEF Moves, rows
  <2>4. \A q \in Req \ {r} : /\ LinkApart(Idle, req[q], raced, overlapped)
                             /\ LinkApart(req[q], Idle, raced, overlapped)
    BY IdleFits, ApartKept
  <2>5. SeatInv' /\ LinkInv'
    BY <2>1, <2>2, <2>3, <2>4, SeatFinish, LinkMove DEF rows
  <2> QED
    BY <2>5 DEF IndInv
<1> QED
  BY <1>1, <1>2

LEMMA ActivateStep ==
  ASSUME IndInv, NEW r \in Req, Activate(r)
  PROVE  IndInv'
<1>0. /\ req[r] \in Request /\ SeatFits(req[r]) /\ LinkFits(req[r]) /\ req[r].pc = "activate"
      /\ TypeOK /\ StaysOut /\ req[r].token \in Token /\ req[r].scope \in Invitee
      /\ token[req[r].token].state = "consumed"
  BY Fits DEF Activate, IndInv, SeatInv, SeatFits, LinkFits
<1>1. /\ Put(r, Idle) /\ seat' = [seat EXCEPT ![req[r].scope] = "ACTIVE"]
      /\ used' = [used EXCEPT ![req[r].token] = @ + 1]
      /\ settled' = settled \cup {req[r].token} /\ SeatFree(r, req[r].scope)
      /\ UNCHANGED <<scopes, token, account, raced, overlapped, died, removed>>
  BY DEF Activate, Finish
<1>2. TypeOK'
  <2>1. used' \in [Token -> Nat] /\ settled' \subseteq Token
    BY <1>0, <1>1 DEF TypeOK
  <2> QED
    BY <1>0, <1>1, <2>1, IdleFits, PutReq DEF TypeOK
<1>3. SeatInv'
  <2>1. Adds(req[r]) /\ req[r].scope \notin removed
    BY <1>0 DEF Adds, StaysOut
  <2>2. \A j \in Invitee : j # req[r].scope => seat'[j] = seat[j]
    BY <1>0, <1>1 DEF TypeOK
  <2> QED
    BY <1>0, <1>1, <1>2, <2>1, <2>2, SeatChange
<1>4. Moves(r, Idle, {}, None) /\ LinkFits(Idle)'
  <2>1. \A t \in Token : \/ used'[t] = used[t]
                         \/ used'[t] = used[t] + 1 /\ t = req[r].token
    <3>1. used'[req[r].token] = used[req[r].token] + 1
      BY <1>0, <1>1 DEF TypeOK
    <3>2. \A t \in Token : t # req[r].token => used'[t] = used[t]
      BY <1>0, <1>1 DEF TypeOK
    <3>3. ASSUME NEW t \in Token
          PROVE  \/ used'[t] = used[t]
                 \/ used'[t] = used[t] + 1 /\ t = req[r].token
      <4>1. CASE t = req[r].token
        BY <3>1, <4>1
      <4>2. CASE t # req[r].token
        BY <3>2, <4>2
      <4> QED
        BY <4>1, <4>2
    <3> QED
      BY <3>3
  <2> QED
    BY <1>0, <1>1, <2>1, IdleFits DEF Moves
<1>5. \A q \in Req \ {r} : /\ LinkApart(Idle, req[q], raced, overlapped)
                           /\ LinkApart(req[q], Idle, raced, overlapped)
  BY IdleFits, ApartKept
<1>6. LinkInv'
  BY <1>4, <1>5, LinkMove
<1> QED
  BY <1>3, <1>6 DEF IndInv

LEMMA AbortStep ==
  ASSUME IndInv, NEW r \in Req, Abort(r)
  PROVE  IndInv'
<1>0. req[r] \in Request /\ SeatFits(req[r]) /\ TypeOK
  BY Fits DEF IndInv, SeatInv
<1>1. /\ Put(r, Idle)
      /\ died' = died \cup {t \in {req[r].token} : req[r].pc \in {"member", "activate"}}
      /\ UNCHANGED <<rows, used, raced, overlapped, settled, removed>>
  BY DEF Abort, Finish
<1>2. died \subseteq died' /\ (req[r].pc \in {"member", "activate"} => req[r].token \in died')
  BY <1>1
<1>3. TypeOK'
  <2>1. died' \subseteq Token
    BY <1>0, <1>1 DEF TypeOK, SeatFits
  <2> QED
    BY <1>0, <1>1, <2>1, IdleFits, PutReq DEF TypeOK, rows
<1>4. Moves(r, Idle, {}, None) /\ LinkFits(Idle)'
  BY <1>0, <1>1, <1>2, IdleFits DEF Moves, rows
<1>5. \A q \in Req \ {r} : /\ LinkApart(Idle, req[q], raced, overlapped)
                           /\ LinkApart(req[q], Idle, raced, overlapped)
  BY IdleFits, ApartKept
<1>6. SeatInv' /\ LinkInv'
  BY <1>1, <1>3, <1>4, <1>5, SeatFinish, LinkMove DEF rows
<1> QED
  BY <1>6 DEF IndInv

LEMMA CommitStep ==
  ASSUME IndInv, NEW r \in Req, Commit(r)
  PROVE  IndInv'
<1> PICK x : x = req[r]
  OBVIOUS
<1>0. /\ x \in Request /\ SeatFits(x) /\ LinkFits(x) /\ x.pc = "commit" /\ x = req[r]
      /\ TypeOK /\ StaysOut /\ x.scope \in Scope /\ x.scope # None
      /\ x.marks \subseteq Token /\ x.inserts \in Token \cup {None} /\ None \notin Token
  BY Fits, EmailTokensAssumption DEF Commit, IndInv, SeatInv, SeatFits, Request
<1>1. /\ Put(r, Idle) /\ settled' = settled \cup x.marks
      /\ token' = [t \in Token |->
           IF t \in x.marks \cup {x.inserts}
             THEN [state |-> IF t \in x.marks THEN "consumed" ELSE "live", scope |-> x.scope]
             ELSE token[t]]
      /\ account' = IF x.registers THEN "PENDING"
                    ELSE IF x.scope = "VERIFY_EMAIL" /\ x.token # None THEN "ACTIVE" ELSE account
      /\ seat' = IF x.writesSeat /\ x.seen # "PENDING"
                   THEN [seat EXCEPT ![x.scope] = "PENDING"] ELSE seat
      /\ used' = [t \in Token |-> IF t = x.token THEN used[t] + 1 ELSE used[t]]
      /\ UNCHANGED <<scopes, raced, overlapped, died, removed>>
  BY <1>0 DEF Commit, Finish
<1>2. /\ \A t \in x.marks : Stored(t) /\ token'[t].state = "consumed"
      /\ \A t \in Token : t \notin x.marks \cup {x.inserts} => token'[t] = token[t]
      /\ x.inserts # None => /\ x.inserts \notin x.marks /\ ~Stored(x.inserts)
                             /\ token'[x.inserts].state = "live"
                             /\ token'[x.inserts].scope = x.scope
  BY <1>0, <1>1 DEF LinkFits
<1>3. TypeOK'
  <2>1. token' \in [Token -> [state: {"free", "live", "expired", "consumed"},
                             scope: Scope \cup {None}]]
    BY <1>0, <1>1 DEF TypeOK
  <2>2. \A t \in Token : token'[t].state = "free" <=> token'[t].scope = None
    BY <1>0, <1>1 DEF TypeOK
  <2>3. used' \in [Token -> Nat]
    BY <1>0, <1>1 DEF TypeOK
  <2>4. seat' \in [Invitee -> {"none", "PENDING", "ACTIVE", "INACTIVE"}]
    BY <1>0, <1>1 DEF TypeOK
  <2> QED
    BY <1>0, <1>1, <2>1, <2>2, <2>3, <2>4, IdleFits, PutReq DEF TypeOK
<1>4. SeatInv'
  <2>1. CASE x.writesSeat /\ x.seen # "PENDING"
    <3>1. x.scope \in Invitee /\ seat[x.scope] = "none"
      BY <1>0, <2>1 DEF SeatFits
    <3>2. x.scope \notin removed /\ Adds(x)
      BY <1>0, <2>1, <3>1 DEF StaysOut, Adds
    <3>3. SeatFree(r, x.scope)
      BY <1>0, <2>1 DEF SeatFree, SeatApart, IndInv, SeatInv
    <3>4. \A j \in Invitee : j # x.scope => seat'[j] = seat[j]
      BY <1>0, <1>1 DEF TypeOK
    <3> QED
      BY <1>0, <1>1, <1>3, <3>1, <3>2, <3>3, <3>4, SeatChange
  <2>2. CASE ~(x.writesSeat /\ x.seen # "PENDING")
    BY <1>1, <1>3, <2>2, SeatFinish
  <2> QED
    BY <2>1, <2>2
<1>5. Moves(r, Idle, x.marks, x.inserts) /\ LinkFits(Idle)'
  <2>1. \A t \in Token : \/ used'[t] = used[t]
                         \/ /\ used'[t] = used[t] + 1 /\ t = x.token
                            /\ token'[t].state = "consumed"
    <3> SUFFICES ASSUME NEW t \in Token
                 PROVE  IF t = x.token
                          THEN used'[t] = used[t] + 1 /\ token'[t].state = "consumed"
                          ELSE used'[t] = used[t]
      OBVIOUS
    <3>1. t = x.token => token'[t].state = "consumed"
      BY <1>0, <1>2 DEF LinkFits
    <3> QED
      BY <1>0, <1>1, <3>1
  <2>2. x.inserts # None =>
          /\ Publishing(x) /\ x.scope \notin overlapped => OlderIn(x.scope) \subseteq x.marks
          /\ \A q \in Req \ {r} : req[q].inserts # x.inserts
    <3>1. ASSUME x.inserts # None, NEW q \in Req, q # r
          PROVE  req[q].inserts # x.inserts
      BY <1>0, <3>1 DEF IndInv, LinkInv, LinkApart
    <3>2. (x.inserts # None /\ x.scope \notin overlapped) => OlderIn(x.scope) \subseteq x.marks
      BY <1>0 DEF LinkFits, Publishing
    <3> QED
      BY <3>1, <3>2
  <2>3. x.inserts # None => Publishing(x)
    BY <1>0 DEF Publishing
  <2>4. /\ settled \subseteq settled' /\ died' = died /\ raced' = raced
        /\ overlapped' = overlapped /\ \A t \in x.marks : t \in settled'
    BY <1>1
  <2> QED
    BY <1>0, <1>1, <1>2, <2>1, <2>2, <2>3, <2>4, IdleFits DEF Moves
<1>6. \A q \in Req \ {r} : /\ LinkApart(Idle, req[q], raced, overlapped)
                           /\ LinkApart(req[q], Idle, raced, overlapped)
  BY IdleFits, ApartKept
<1>7. LinkInv'
  BY <1>5, <1>6, LinkMove
<1> QED
  BY <1>4, <1>7 DEF IndInv

-----------------------------------------------------------------------------
\* What happens meanwhile.

LEMMA ExpireStep ==
  ASSUME IndInv, NEW t \in Token, Expire(t)
  PROVE  IndInv'
<1>0. /\ TypeOK /\ token[t].state = "live"
      /\ token' = [token EXCEPT ![t].state = "expired"]
      /\ UNCHANGED <<scopes, account, seat, req, used, raced, overlapped, settled, died, removed>>
  BY DEF Expire, IndInv, SeatInv, history
<1>1. /\ token'[t].state = "expired" /\ token'[t].scope = token[t].scope
      /\ \A u \in Token : u # t => token'[u] = token[u]
  BY <1>0 DEF TypeOK
<1>2. /\ \A u \in Token : /\ Stored(u)' <=> Stored(u)
                          /\ Unconsumed(u)' <=> Unconsumed(u)
                          /\ token'[u].scope = token[u].scope
                          /\ token'[u].state = "consumed" <=> token[u].state = "consumed"
  <2> SUFFICES ASSUME NEW u \in Token
               PROVE  /\ Stored(u)' <=> Stored(u)
                      /\ Unconsumed(u)' <=> Unconsumed(u)
                      /\ token'[u].scope = token[u].scope
                      /\ token'[u].state = "consumed" <=> token[u].state = "consumed"
    OBVIOUS
  <2> QED
    BY <1>0, <1>1 DEF Stored, Unconsumed
<1>3. TypeOK'
  <2>1. token' \in [Token -> [state: {"free", "live", "expired", "consumed"},
                             scope: Scope \cup {None}]]
    BY <1>0 DEF TypeOK
  <2>2. \A u \in Token : token'[u].state = "free" <=> token'[u].scope = None
    BY <1>0, <1>2 DEF TypeOK, Stored
  <2> QED
    BY <1>0, <2>1, <2>2 DEF TypeOK
<1>4. SeatInv'
  BY <1>0, <1>3 DEF IndInv, SeatInv, SeatFits, SeatApart, StaysOut, Claimed, Adds
<1>5. LinkInv'
  <2>0. /\ \A r \in Req : LinkFits(req[r]) /\ req[r] \in Request /\ SeatFits(req[r])
        /\ \A r, q \in Req : r # q => LinkApart(req[r], req[q], raced, overlapped)
        /\ UsedOnce /\ ConsumptionJustified /\ OneLiveLink
    BY <1>0 DEF IndInv, SeatInv, LinkInv, TypeOK
  <2>1. ASSUME NEW r \in Req PROVE LinkFits(req[r])'
    <3> PICK x \in Request : x = req[r]
      BY <2>0
    <3>1. LinkFits(x) /\ SeatFits(x) /\ req'[r] = x
      BY <1>0, <2>0
    <3>2. /\ x.scan \cup x.marks \subseteq Token /\ x.token \in Token \cup {None}
          /\ x.inserts \in Token \cup {None}
      BY DEF Request
    <3>3. OlderIn(x.scope)' = OlderIn(x.scope)
      BY <1>2 DEF OlderIn
    <3>4. x.pc \in {"member", "activate"} => token'[x.token].state = "consumed"
      BY <1>2, <3>1, <3>2 DEF LinkFits, SeatFits
    <3>5. /\ \A u \in x.scan \cup x.marks : Stored(u)'
          /\ x.token # None => Stored(x.token)'
          /\ x.inserts # None => ~Stored(x.inserts)'
      BY <1>2, <3>1, <3>2 DEF LinkFits
    <3>6. LinkFits(x)'
      BY <1>0, <3>1, <3>3, <3>4, <3>5 DEF LinkFits, Publishing
    <3> QED
      BY <3>1, <3>6 DEF LinkFits, Stored, Publishing, OlderIn, Unconsumed
  <2>2. \A r, q \in Req : r # q => LinkApart(req[r], req[q], raced, overlapped)'
    BY <1>0, <2>0 DEF LinkApart, Publishing
  <2>3. UsedOnce' /\ ConsumptionJustified'
    BY <1>0, <1>2, <2>0 DEF UsedOnce, ConsumptionJustified
  <2>4. OneLiveLink'
    BY <1>0, <1>2, <2>0 DEF OneLiveLink
  <2> QED
    BY <2>1, <2>2, <2>3, <2>4 DEF LinkInv
<1> QED
  BY <1>4, <1>5 DEF IndInv

\* A step that leaves the links and the requests alone.
LEMMA LinksAlone ==
  ASSUME LinkInv, UNCHANGED <<token, req, used, raced, overlapped, settled, died>>
  PROVE  LinkInv'
<1>1. /\ \A r \in Req : LinkFits(req[r])'
      /\ \A r, q \in Req : r # q => LinkApart(req[r], req[q], raced, overlapped)'
  BY DEF LinkInv, LinkFits, LinkApart, Publishing, Stored, OlderIn, Unconsumed
<1>2. UsedOnce' /\ ConsumptionJustified' /\ OneLiveLink'
  BY DEF LinkInv, UsedOnce, ConsumptionJustified, OneLiveLink, Unconsumed
<1> QED
  BY <1>1, <1>2 DEF LinkInv

LEMMA MembersDeleteStep ==
  ASSUME IndInv, NEW i \in Invitee, MembersDelete(i)
  PROVE  IndInv'
<1>0. /\ TypeOK /\ StaysOut /\ (\A q \in Req : SeatFits(req[q]))
      /\ \A p, q \in Req : p # q => SeatApart(req[p], req[q])
      /\ 1 + Cardinality(Claimed) <= MemberCap + Cardinality(Req) - 1
  BY DEF IndInv, SeatInv
<1>1. /\ seat[i] = "ACTIVE" /\ seat' = [seat EXCEPT ![i] = "INACTIVE"]
      /\ \A q \in Req : ~(req[q].writesSeat /\ req[q].scope = i)
      /\ removed' = removed \cup
           {j \in {i} : \A q \in Req : ~(req[q].pc = "activate" /\ req[q].scope = j)}
      /\ UNCHANGED <<scopes, token, account, req, used, raced, overlapped, settled, died>>
  BY DEF MembersDelete, RemoveMember
<1>2. seat'[i] = "INACTIVE" /\ \A j \in Invitee : j # i => seat'[j] = seat[j]
  BY <1>0, <1>1 DEF TypeOK
<1>3. TypeOK'
  BY <1>0, <1>1 DEF TypeOK
<1>4. \A q \in Req : SeatFits(req[q])'
  BY <1>0, <1>1, <1>2 DEF SeatFits
<1>5. \A p, q \in Req : p # q => SeatApart(req[p], req[q])'
  BY <1>0, <1>1 DEF SeatApart
<1>6. StaysOut'
  BY <1>0, <1>1, <1>2 DEF StaysOut, TypeOK
<1>7. Claimed' \subseteq Claimed
  BY <1>1, <1>2 DEF Claimed, Adds
<1>8. Cardinality(Claimed') <= Cardinality(Claimed) /\ Cardinality(Claimed') \in Nat
  BY <1>7, ClaimedFinite, FS_Subset, FS_CardinalityType
<1>9. 1 + Cardinality(Claimed') <= MemberCap + Cardinality(Req) - 1
  <2>1. Cardinality(Req) \in Nat /\ MemberCap \in Nat
    BY EmailTokensAssumption, FS_CardinalityType
  <2> QED
    BY <1>0, <1>8, <2>1, ClaimedFinite
<1>10. SeatInv' /\ LinkInv'
  BY <1>1, <1>3, <1>4, <1>5, <1>6, <1>9, LinksAlone DEF IndInv, SeatInv
<1> QED
  BY <1>10 DEF IndInv

LEMMA SetStatusStep ==
  ASSUME IndInv, NEW s \in {"ACTIVE", "SUSPENDED"}, SetStatus(s)
  PROVE  IndInv'
<1>1. /\ account' = s
      /\ UNCHANGED <<scopes, token, seat, req, used, raced, overlapped, settled, died, removed>>
  BY DEF SetStatus, history
<1>2. TypeOK'
  BY <1>1 DEF IndInv, SeatInv, TypeOK
<1>3. SeatInv'
  BY <1>1, <1>2 DEF IndInv, SeatInv, SeatFits, SeatApart, StaysOut, Claimed, Adds
<1>4. LinkInv'
  BY <1>1, LinksAlone DEF IndInv
<1> QED
  BY <1>3, <1>4 DEF IndInv

LEMMA StutterStep ==
  ASSUME IndInv, UNCHANGED vars
  PROVE  IndInv'
<1>1. UNCHANGED <<scopes, token, account, seat, req, used, raced, overlapped, settled, died, removed>>
  BY DEF vars
<1>2. TypeOK'
  BY <1>1 DEF IndInv, SeatInv, TypeOK
<1>3. SeatInv'
  BY <1>1, <1>2 DEF IndInv, SeatInv, SeatFits, SeatApart, StaysOut, Claimed, Adds
<1>4. LinkInv'
  BY <1>1, LinksAlone DEF IndInv
<1> QED
  BY <1>3, <1>4 DEF IndInv

-----------------------------------------------------------------------------
\* The invariant, and what it gives.

LEMMA InitInv == Init => IndInv
<1> SUFFICES ASSUME Init PROVE IndInv
  OBVIOUS
<1>1. \A r \in Req : req[r] = Idle
  BY DEF Init
<1>2. TypeOK
  BY IdleFits, EmailTokensAssumption DEF Init, TypeOK
<1>3. /\ \A r \in Req : SeatFits(req[r]) /\ LinkFits(req[r])
      /\ \A r, q \in Req : /\ SeatApart(req[r], req[q])
                          /\ LinkApart(req[r], req[q], raced, overlapped)
  BY <1>1, IdleFits DEF SeatApart, LinkApart
<1>4. 1 + Cardinality(Claimed) <= MemberCap + Cardinality(Req) - 1
  <2>1. Claimed = {}
    BY <1>1, IdleFits DEF Init, Claimed
  <2>2. Cardinality(Claimed) = 0
    BY <2>1, FS_EmptySet
  <2>3. Cardinality(Req) \in Nat /\ Cardinality(Req) # 0
    BY EmailTokensAssumption, FS_CardinalityType, FS_EmptySet
  <2> QED
    BY <2>2, <2>3, EmailTokensAssumption
<1>5. StaysOut
  BY DEF Init, StaysOut
<1>6. UsedOnce /\ ConsumptionJustified /\ OneLiveLink
  BY DEF Init, UsedOnce, ConsumptionJustified, OneLiveLink, Unconsumed
<1> QED
  BY <1>2, <1>3, <1>4, <1>5, <1>6 DEF IndInv, SeatInv, LinkInv

LEMMA NextInv == IndInv /\ [Next]_vars => IndInv'
<1> SUFFICES ASSUME IndInv, [Next]_vars PROVE IndInv'
  OBVIOUS
<1>1. ASSUME NEW r \in Req,
             \/ Register(r) \/ MagicLinkRequest(r) \/ PasswordReset(r)
             \/ MembersPost(r) \/ ScanOlder(r) \/ Supersede(r) \/ Insert(r)
             \/ Mark(r) \/ EmailVerify(r) \/ MagicLink(r)
             \/ FindMembership(r) \/ Activate(r) \/ Commit(r) \/ Abort(r)
      PROVE  IndInv'
  <2>1. CASE Register(r) \/ MagicLinkRequest(r) \/ PasswordReset(r)
    BY <2>1, RequestSteps, EffectStep DEF PasswordReset
  <2>2. CASE MembersPost(r) \/ ScanOlder(r) \/ Supersede(r) \/ Insert(r)
    BY <2>2, MembersPostStep, ScanOlderStep, SupersedeStep, InsertStep
  <2>3. CASE Mark(r) \/ EmailVerify(r) \/ MagicLink(r)
    BY <2>3, MarkStep, EffectStep
  <2>4. CASE FindMembership(r) \/ Activate(r) \/ Commit(r) \/ Abort(r)
    BY <2>4, FindMembershipStep, ActivateStep, CommitStep, AbortStep
  <2> QED
    BY <1>1, <2>1, <2>2, <2>3, <2>4
<1>2. ASSUME NEW r \in Req, NEW t \in Token, FindToken(r, t) PROVE IndInv'
  BY <1>2, FindTokenStep
<1>3. ASSUME NEW t \in Token, Expire(t) PROVE IndInv'
  BY <1>3, ExpireStep
<1>4. ASSUME NEW i \in Invitee, MembersDelete(i) PROVE IndInv'
  BY <1>4, MembersDeleteStep
<1>5. ASSUME NEW s \in {"ACTIVE", "SUSPENDED"}, SetStatus(s) PROVE IndInv'
  BY <1>5, SetStatusStep
<1>6. CASE UNCHANGED vars
  BY <1>6, StutterStep
<1> QED
  BY <1>1, <1>2, <1>3, <1>4, <1>5, <1>6 DEF Next

LEMMA Invariance == Spec => []IndInv
  BY InitInv, NextInv, PTL DEF Spec

\* Every token row, membership and request in progress keeps its shape; a token
\* value is free exactly when no row has a purpose for it.
THEOREM TypeCorrect == Spec => []TypeOK
<1>1. IndInv => TypeOK
  BY DEF IndInv, SeatInv
<1> QED
  BY Invariance, <1>1, PTL

\* EmailTokenService.consume reads and then marks by id: a link has its effect a
\* second time only if two requests held it at the same time.
THEOREM SecondUseIsARace == Spec => []UsedAgainOnlyIfRaced
<1>1. IndInv => UsedAgainOnlyIfRaced
  BY DEF IndInv, LinkInv, UsedOnce, UsedAgainOnlyIfRaced
<1> QED
  BY Invariance, <1>1, PTL

\* No link is spent for nothing, but for an acceptance of an invitation that dies
\* between its two statements.
THEOREM ConsumptionIsJustified == Spec => []ConsumptionJustified
<1>1. IndInv => ConsumptionJustified
  BY DEF IndInv, LinkInv
<1> QED
  BY Invariance, <1>1, PTL

\* EmailTokenService.issue leaves one usable link of a purpose unless two issues
\* of it overlapped, and those of one invitation never do.
THEOREM LatestLinkOnly == Spec => []OneLiveLink
<1>1. IndInv => OneLiveLink
  BY DEF IndInv, LinkInv
<1> QED
  BY Invariance, <1>1, PTL

\* A member removed while no acceptance was under way stays out.
THEOREM RemovalIsFinal == Spec => []RemovalFinal
<1>1. IndInv => RemovalFinal
  BY DEF IndInv, SeatInv, StaysOut, RemovalFinal
<1> QED
  BY Invariance, <1>1, PTL

\* The plan's cap on members is passed by at most one seat for every request that
\* runs beside another.
THEOREM SeatsAreBounded == Spec => []SeatsBounded
<1>1. IndInv => SeatsBounded
  <2> SUFFICES ASSUME IndInv PROVE SeatsBounded
    OBVIOUS
  <2> DEFINE T == {i \in Invitee : seat[i] \in {"ACTIVE", "PENDING"}}
  <2>1. T \subseteq Claimed
    BY DEF Claimed
  <2>2. Cardinality(T) <= Cardinality(Claimed) /\ Cardinality(T) \in Nat
    BY <2>1, ClaimedFinite, FS_Subset, FS_CardinalityType
  <2>3. Cardinality(Req) \in Nat /\ MemberCap \in Nat
    BY EmailTokensAssumption, FS_CardinalityType
  <2>4. 1 + Cardinality(Claimed) <= MemberCap + Cardinality(Req) - 1
    BY DEF IndInv, SeatInv
  <2>5. Taken = 1 + Cardinality(T)
    BY DEF Taken
  <2> HIDE DEF T
  <2> QED
    BY <2>2, <2>3, <2>4, <2>5, ClaimedFinite DEF SeatsBounded
<1> QED
  BY Invariance, <1>1, PTL
=============================================================================
