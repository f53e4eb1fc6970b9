------------------------ MODULE CredentialStatusProofs ------------------------
(***************************************************************************)
(* Machine-checked proofs about CredentialStatus, for any number of        *)
(* credentials, offers, lists, list sizes, verification sessions and       *)
(* concurrent requests.                                                    *)
(***************************************************************************)
EXTENDS CredentialStatus, FiniteSetTheorems, TLAPS

-----------------------------------------------------------------------------
\* The inductive invariant.

\* The request x locks the list row it points to, until it ends.
Locks(x) == x.taken \/ x.encodes

\* The request x revokes x.vc.
Revokes(x) == x.pc \in {"upsert", "entries", "encode"} \/ (x.pc = "commit" /\ ~x.taken)

\* What the phase of a request says about what its transaction has written.
Phase(x) ==
  /\ x.pc = "idle" => x = Idle
  /\ x.taken => x.pc \in {"create", "accept", "commit"}
  /\ x.pc \in {"create", "accept"} => x.taken
  /\ x.upserted <=> Revokes(x) /\ x.pc # "upsert"
  /\ x.encodes <=> Revokes(x) /\ x.pc = "commit"
  /\ x.consumes => x.taken /\ x.pc = "commit"
  /\ x.consumes \/ x.pc = "accept" => x.offer \in Offer
  /\ x.created => x.pc = "cas" \/ x.taken
  /\ x.pc = "cas" \/ x.taken => x.list \in List /\ x.seen < MaxSize
  /\ x.pc \in {"find", "cas", "create"} => x.vc = None
  /\ x.session # None <=> x.pc \in {"verify", "consume"}
  /\ x.dead => x.pc \in {"verify", "consume"}

\* The list a request works on: its own new one, which is not committed, or a
\* committed one; and while the increment is uncommitted, the count stays.
OnList(x) ==
  /\ x.list # None => x.created \/ list[x.list].exists
  /\ x.created => ~list[x.list].exists /\ x.seen = 0
  /\ x.taken => list[x.list].issuedCount = x.seen

\* The credential a request inserts is not committed; the one it revokes or
\* presents is.
OnVc(x) ==
  /\ x.taken /\ x.pc # "create" => x.vc \in Credential /\ ~vc[x.vc].issued
  /\ Revokes(x) => x.vc \in Credential /\ vc[x.vc].issued /\ x.list = vc[x.vc].listId
  /\ x.pc \in {"verify", "consume"} => x.vc \in Credential /\ vc[x.vc].issued

\* What a revocation is about to write: its own bit, bits of finished
\* revocations, and all of those unless another revocation has overlapped.
OnBits(x) ==
  x.pc = "encode" \/ x.encodes =>
    /\ vc[x.vc].index \in x.bits
    /\ \A i \in x.bits \ {vc[x.vc].index} :
         \E c \in revoked : vc[c].listId = x.list /\ vc[c].index = i
    /\ x.list \notin raced =>
         \A c \in revoked : vc[c].listId = x.list => vc[c].index \in x.bits

\* A presentation that overlaps no other one is the first of its session.
OnSession(x) ==
  /\ x.session \in VerifySession \ shared => accepted[x.session] = 0
  /\ x.dead => x.vc \in revoked

Fits(x) == Phase(x) /\ OnList(x) /\ OnVc(x) /\ OnBits(x) /\ OnSession(x)

\* Two requests hold no row together, insert different credentials, create
\* different lists, and leave a trace where their overlap can do harm.
Apart(x, y) ==
  /\ Locks(x) /\ Locks(y) => x.list # y.list
  /\ x.created /\ y.created => x.list # y.list
  /\ x.taken /\ x.vc # None => x.vc # y.vc
  /\ x.upserted /\ y.upserted /\ x.list = y.list => x.list \in raced
  /\ x.session # None /\ x.session = y.session => x.session \in shared

Requests ==
  /\ \A r \in Req : Fits(req[r])
  /\ \A q, r \in Req : q # r => Apart(req[q], req[r])

\* The credentials of list l.
On(l) == {c \in Credential : vc[c].issued /\ vc[c].listId = l}

\* The slots of a list are handed out from 0 on.
Slots ==
  /\ \A l \in List : ~list[l].exists => list[l] = NoList
  /\ \A c \in Credential : vc[c].issued =>
       /\ vc[c].listId \in List /\ list[vc[c].listId].exists
       /\ vc[c].index < list[vc[c].listId].issuedCount
  /\ \A l \in List : IsFiniteSet(On(l)) /\ Cardinality(On(l)) = list[l].issuedCount

\* Entries are those of the finished revocations.
Entries ==
  /\ \A c \in revoked : vc[c].issued /\ <<vc[c].listId, vc[c].index>> \in entry
  /\ \A e \in entry : \E c \in revoked : vc[c].listId = e[1] /\ vc[c].index = e[2]

Sessions ==
  /\ \A v \in VerifySession : accepted[v] > 0 => verifySession[v] = "CONSUMED"
  /\ \A v \in VerifySession \ shared : accepted[v] <= 1
  /\ \A c \in fooled : vc[c].issued

IndInv ==
  /\ TypeOK /\ Requests /\ Slots /\ SlotUnique
  /\ Entries /\ NoFalseRevocation /\ RevocationKept /\ Sessions

-----------------------------------------------------------------------------
\* Lemmas about the invariant.

\* A request that has ended fits any state and is in nobody's way.
LEMMA IdleFits ==
  /\ Idle \in Request /\ Fits(Idle)
  /\ \A q \in Req : Fits(req[q]) => Apart(Idle, req[q]) /\ Apart(req[q], Idle)
<1>1. Idle \in Request
  BY CredentialAssumption DEF Idle, Request
<1>2. Fits(Idle)
  BY CredentialAssumption
     DEF Fits, Idle, Phase, Revokes, OnList, OnVc, OnBits, OnSession, List
<1>3. ASSUME NEW q \in Req PROVE Apart(Idle, req[q]) /\ Apart(req[q], Idle)
  BY CredentialAssumption DEF Apart, Idle, Locks
<1> QED
  BY <1>1, <1>2, <1>3

\* A step that changes one request, and at most adds to raced and shared, keeps
\* the invariant if the request fits the rows and stays apart from the others.
LEMMA PutStep ==
  ASSUME NEW r \in Req, NEW x \in Request, IndInv, req' = [req EXCEPT ![r] = x],
         UNCHANGED <<list, entry, vc, offer, revoked, issuer, verifySession, accepted, fooled>>,
         raced \subseteq raced', raced' \subseteq List,
         shared \subseteq shared', shared' \subseteq VerifySession,
         Fits(x)',
         \A q \in Req \ {r} : \A y : y = req[q] => Apart(x, y)' /\ Apart(y, x)'
  PROVE  IndInv'
<1>1. /\ req'[r] = x
      /\ \A q \in Req : q # r => req'[q] = req[q]
  BY DEF IndInv, TypeOK
<1>2. TypeOK'
  BY DEF IndInv, TypeOK, issuer
<1>3. Requests'
  <2>1. ASSUME NEW q \in Req PROVE Fits(req[q])'
    <3>1. CASE q = r
      BY <1>1, <3>1
    <3>2. CASE q # r
      <4>1. PICK y : y = req[q]
        OBVIOUS
      <4>2. y = req'[q] /\ Fits(y)
        BY <1>1, <3>2, <4>1 DEF IndInv, Requests
      <4>3. Phase(y)' /\ OnList(y)' /\ OnVc(y)'
        BY <4>2 DEF Fits, Phase, OnList, OnVc
      <4>4. OnBits(y)'
        BY <4>2 DEF Fits, OnBits
      <4>5. OnSession(y)'
        BY <4>2 DEF Fits, OnSession
      <4> QED
        BY <4>2, <4>3, <4>4, <4>5 DEF Fits
    <3> QED
      BY <3>1, <3>2
  <2>2. ASSUME NEW p \in Req, NEW q \in Req, p # q PROVE Apart(req[p], req[q])'
    <3>1. PICK y : y = req[p]
      OBVIOUS
    <3>2. PICK z : z = req[q]
      OBVIOUS
    <3>3. CASE p = r
      BY <1>1, <2>2, <3>2, <3>3
    <3>4. CASE q = r
      BY <1>1, <2>2, <3>1, <3>4
    <3>5. CASE p # r /\ q # r
      <4>1. Apart(y, z)
        BY <2>2, <3>1, <3>2 DEF IndInv, Requests
      <4>2. Apart(y, z)'
        BY <4>1 DEF Apart
      <4> QED
        BY <1>1, <3>1, <3>2, <3>5, <4>2
    <3> QED
      BY <3>3, <3>4, <3>5
  <2> QED
    BY <2>1, <2>2 DEF Requests
<1>4. Slots'
  <2>1. \A l \in List : On(l)' = On(l)
    BY DEF On
  <2> QED
    BY <2>1 DEF IndInv, Slots
<1>5. SlotUnique' /\ Entries' /\ NoFalseRevocation'
  BY DEF IndInv, SlotUnique, Entries, NoFalseRevocation
<1>6. RevocationKept'
  BY DEF IndInv, RevocationKept, Bit
<1>7. Sessions'
  BY DEF IndInv, Sessions
<1> QED
  BY <1>2, <1>3, <1>4, <1>5, <1>6, <1>7 DEF IndInv

\* The usual case: no row changes.
LEMMA PutSame ==
  ASSUME NEW r \in Req, NEW x \in Request, IndInv, Put(r, x), UNCHANGED rows, Fits(x),
         \A q \in Req \ {r} : Apart(x, req[q]) /\ Apart(req[q], x)
  PROVE  IndInv'
<1>1. Fits(x)'
  <2>1. Phase(x)' /\ OnList(x)' /\ OnVc(x)'
    BY DEF rows, Fits, Phase, OnList, OnVc
  <2>2. OnBits(x)'
    BY DEF rows, Fits, OnBits
  <2>3. OnSession(x)'
    BY DEF rows, presentation, Fits, OnSession
  <2> QED
    BY <2>1, <2>2, <2>3 DEF Fits
<1>2. ASSUME NEW q \in Req \ {r}, NEW y, y = req[q] PROVE Apart(x, y)' /\ Apart(y, x)'
  BY <1>2 DEF Apart, rows, presentation
<1>3. raced' = raced /\ raced' \subseteq List /\ shared' = shared /\ shared' \subseteq VerifySession
  BY DEF rows, presentation, IndInv, TypeOK
<1>4. UNCHANGED <<list, entry, vc, offer, revoked, issuer, verifySession, accepted, fooled>>
  BY DEF rows, presentation
<1> QED
  BY <1>1, <1>2, <1>3, <1>4, PutStep DEF Put

\* A step that changes neither requests nor anything the properties look at.
LEMMA FrameStep ==
  ASSUME IndInv, TypeOK', Sessions',
         UNCHANGED <<list, entry, vc, req, revoked, raced, accepted, shared>>
  PROVE  IndInv'
<1>1. Requests'
  <2>1. ASSUME NEW q \in Req PROVE Fits(req[q])'
    BY DEF IndInv, Requests, Fits, Phase, OnList, OnVc, OnBits, OnSession
  <2>2. ASSUME NEW p \in Req, NEW q \in Req, p # q PROVE Apart(req[p], req[q])'
    BY <2>2 DEF IndInv, Requests, Apart, Locks
  <2> QED
    BY <2>1, <2>2 DEF Requests
<1>2. Slots'
  <2>1. \A l \in List : On(l)' = On(l)
    BY DEF On
  <2> QED
    BY <2>1 DEF IndInv, Slots
<1>3. SlotUnique' /\ Entries' /\ NoFalseRevocation' /\ RevocationKept'
  BY DEF IndInv, SlotUnique, Entries, NoFalseRevocation, RevocationKept, Bit
<1> QED
  BY <1>1, <1>2, <1>3 DEF IndInv

\* The requests fit before anything is issued.
LEMMA InitInv == Init => IndInv
<1> SUFFICES ASSUME Init PROVE IndInv
  OBVIOUS
<1>1. TypeOK
  BY CredentialAssumption, IdleFits DEF Init, TypeOK, NoList, NoVc, List, Index
<1>2. Requests
  BY IdleFits DEF Init, Requests
<1>3. Slots
  <2>1. \A l \in List : On(l) = {} /\ list[l].issuedCount = 0
    BY DEF Init, On, NoVc, NoList
  <2>2. \A l \in List : list[l] = NoList
    BY DEF Init
  <2>3. \A c \in Credential : ~vc[c].issued
    BY DEF Init, NoVc
  <2> QED
    BY <2>1, <2>2, <2>3, FS_EmptySet DEF Slots
<1>4. SlotUnique /\ Entries /\ NoFalseRevocation /\ RevocationKept /\ Sessions
  BY DEF Init, SlotUnique, Entries, NoFalseRevocation, RevocationKept, Sessions, NoVc, NoList
<1> QED
  BY <1>1, <1>2, <1>3, <1>4 DEF IndInv

-----------------------------------------------------------------------------
\* Steps that write to the requests alone.

\* The facts of IndInv about one request and the others, as the steps use them.
LEMMA Read ==
  ASSUME IndInv, NEW r \in Req
  PROVE  /\ req[r] \in Request /\ Fits(req[r])
         /\ \A q \in Req \ {r} : /\ req[q] \in Request /\ Fits(req[q])
                                 /\ Apart(req[r], req[q]) /\ Apart(req[q], req[r])
BY DEF IndInv, TypeOK, Requests

\* A request starts with nothing written: issuance by itself or from an offer.
LEMMA StartStep ==
  ASSUME IndInv, NEW r \in Req, IssueStart(r) \/ \E o \in Offer : AcceptStart(r, o)
  PROVE  IndInv'
<1> DEFINE Started(x) ==
      /\ Put(r, x) /\ x.pc = "find" /\ x.vc = None /\ x.list = None
      /\ ~x.created /\ ~x.taken /\ ~x.consumes /\ ~x.upserted /\ ~x.encodes
      /\ x.session = None /\ ~x.dead
<1>1. ASSUME IssueStart(r) PROVE \E x \in Request : Started(x)
  <2>1. [Idle EXCEPT !.pc = "find"] \in Request /\ Started([Idle EXCEPT !.pc = "find"])
    BY <1>1, IdleFits DEF IssueStart, Idle, Request
  <2> QED
    BY <2>1
<1>2. ASSUME NEW o \in Offer, AcceptStart(r, o)
      PROVE  \E x \in Request : Started(x)
  <2>1. /\ [Idle EXCEPT !.pc = "find", !.offer = o] \in Request
        /\ Started([Idle EXCEPT !.pc = "find", !.offer = o])
    BY <1>2, IdleFits DEF AcceptStart, Idle, Request
  <2> QED
    BY <2>1
<1>3. PICK x \in Request : Started(x)
  BY <1>1, <1>2
<1>4. Fits(x)
  BY <1>3, CredentialAssumption
     DEF Fits, Phase, Revokes, OnList, OnVc, OnBits, OnSession, List
<1>5. \A q \in Req \ {r} : Apart(x, req[q]) /\ Apart(req[q], x)
  BY <1>3 DEF Apart, Locks
<1>6. UNCHANGED rows
  BY DEF IssueStart, AcceptStart
<1> QED
  BY <1>3, <1>4, <1>5, <1>6, PutSame

\* An error or a crash ends a request, and what it had written is gone.
LEMMA FinishStep ==
  ASSUME IndInv, NEW r \in Req, Finish(r), UNCHANGED rows
  PROVE  IndInv'
BY IdleFits, PutSame, Read DEF Finish

\* FindList: a visible list with room, or a new one nobody else is creating.
LEMMA FindListStep ==
  ASSUME IndInv, NEW r \in Req, FindList(r)
  PROVE  IndInv'
<1> DEFINE y == req[r]
<1>1. y \in Request /\ Fits(y) /\ y.pc = "find"
  BY Read DEF FindList
<1>2. 0 \in 0..MaxSize
  BY CredentialAssumption
<1>3. ~y.created /\ ~y.taken /\ ~y.upserted /\ ~y.encodes /\ y.vc = None /\ y.session = None
      /\ ~y.consumes
  BY <1>1 DEF Fits, Phase, Revokes
<1>4. ~y.dead
  BY <1>1, <1>3, CredentialAssumption DEF Fits, OnSession, IndInv, TypeOK
<1>5. CASE \E l \in List : /\ l \in Visible(r) /\ list[l].issuedCount < MaxSize
                           /\ Put(r, [y EXCEPT !.pc = "cas", !.list = l, !.seen = list[l].issuedCount])
                           /\ UNCHANGED rows
  <2>1. PICK l \in List : /\ l \in Visible(r) /\ list[l].issuedCount < MaxSize
                          /\ Put(r, [y EXCEPT !.pc = "cas", !.list = l, !.seen = list[l].issuedCount])
                          /\ UNCHANGED rows
    BY <1>5
  <2>2. list[l].issuedCount \in 0..MaxSize /\ list[l].exists
    BY <1>3, <2>1 DEF IndInv, TypeOK, Visible
  <2> DEFINE x == [y EXCEPT !.pc = "cas", !.list = l, !.seen = list[l].issuedCount]
  <2>3. /\ x \in Request /\ x.pc = "cas" /\ x.vc = None /\ x.list = l /\ x.seen = list[l].issuedCount
        /\ ~x.created /\ ~x.taken /\ ~x.consumes /\ ~x.upserted /\ ~x.encodes
        /\ x.session = None /\ ~x.dead
    BY <1>1, <1>3, <1>4, <2>2 DEF Request
  <2>4. Put(r, x) /\ UNCHANGED rows
    BY <2>1
  <2> HIDE DEF x, y
  <2>5. Fits(x)
    BY <2>1, <2>2, <2>3, CredentialAssumption
       DEF Fits, Phase, Revokes, OnList, OnVc, OnBits, OnSession
  <2>6. \A q \in Req \ {r} : Apart(x, req[q]) /\ Apart(req[q], x)
    BY <2>3 DEF Apart, Locks
  <2> QED
    BY <2>3, <2>4, <2>5, <2>6, PutSame
<1>6. CASE \E l \in NextList :
             /\ Put(r, [y EXCEPT !.pc = "cas", !.list = l, !.seen = 0, !.created = TRUE])
             /\ UNCHANGED rows
  <2>1. PICK l \in NextList :
             /\ Put(r, [y EXCEPT !.pc = "cas", !.list = l, !.seen = 0, !.created = TRUE])
             /\ UNCHANGED rows
    BY <1>6
  <2>2. l \in List /\ ~Used(l)
    BY CredentialAssumption DEF NextList, List
  <2> DEFINE x == [y EXCEPT !.pc = "cas", !.list = l, !.seen = 0, !.created = TRUE]
  <2>3. /\ x \in Request /\ x.pc = "cas" /\ x.vc = None /\ x.list = l /\ x.seen = 0
        /\ x.created /\ ~x.taken /\ ~x.consumes /\ ~x.upserted /\ ~x.encodes
        /\ x.session = None /\ ~x.dead
    BY <1>1, <1>2, <1>3, <1>4, <2>2 DEF Request
  <2>4. Put(r, x) /\ UNCHANGED rows
    BY <2>1
  <2> HIDE DEF x, y
  <2>5. Fits(x)
    BY <2>2, <2>3, CredentialAssumption
       DEF Fits, Phase, Revokes, OnList, OnVc, OnBits, OnSession, Used
  <2>6. \A q \in Req \ {r} : Apart(x, req[q]) /\ Apart(req[q], x)
    BY <2>2, <2>3 DEF Apart, Locks, Used
  <2> QED
    BY <2>3, <2>4, <2>5, <2>6, PutSame
<1> QED
  BY <1>5, <1>6 DEF FindList, Visible

\* TakeIndex: the count that was read is still there and the row is free, or
\* the search starts over.  A new list has no other writer, so its creator
\* never starts over.
LEMMA TakeIndexStep ==
  ASSUME IndInv, NEW r \in Req, TakeIndex(r)
  PROVE  IndInv'
<1> DEFINE y == req[r]
<1>1. y \in Request /\ Fits(y) /\ y.pc = "cas"
  BY Read DEF TakeIndex
<1>2. /\ y.list \in List /\ y.seen < MaxSize /\ y.vc = None /\ y.session = None
      /\ ~y.taken /\ ~y.upserted /\ ~y.encodes /\ ~y.consumes
  BY <1>1 DEF Fits, Phase, Revokes
<1>3. ~y.dead
  BY <1>1, <1>2, CredentialAssumption DEF Fits, OnSession, IndInv, TypeOK
<1>4. /\ y.created \/ list[y.list].exists
      /\ y.created => ~list[y.list].exists /\ y.seen = 0
  BY <1>1, <1>2, CredentialAssumption DEF Fits, OnList, List
<1>5. CASE /\ list[y.list].issuedCount = y.seen
           /\ Put(r, [y EXCEPT !.pc = "create", !.taken = TRUE])
  <2> DEFINE x == [y EXCEPT !.pc = "create", !.taken = TRUE]
  <2>1. /\ x \in Request /\ x.pc = "create" /\ x.vc = None /\ x.list = y.list /\ x.seen = y.seen
        /\ x.created = y.created /\ x.taken /\ ~x.consumes /\ ~x.upserted /\ ~x.encodes
        /\ x.session = None /\ ~x.dead
    BY <1>1, <1>2, <1>3 DEF Request
  <2>2. Put(r, x) /\ UNCHANGED rows
    BY <1>5 DEF TakeIndex
  <2>3. \A q \in Req \ {r} : /\ ~(req[q].list = y.list /\ Locks(req[q]))
                             /\ Apart(y, req[q]) /\ Apart(req[q], y)
    BY Read DEF TakeIndex, ListFree, Locks
  <2> HIDE DEF x, y
  <2>4. Fits(x)
    BY <1>2, <1>4, <1>5, <2>1, CredentialAssumption
       DEF Fits, Phase, Revokes, OnList, OnVc, OnBits, OnSession
  <2>5. \A q \in Req \ {r} : Apart(x, req[q]) /\ Apart(req[q], x)
    BY <2>1, <2>3 DEF Apart, Locks
  <2> QED
    BY <2>1, <2>2, <2>4, <2>5, PutSame
<1>6. CASE /\ list[y.list].issuedCount # y.seen
           /\ Put(r, [y EXCEPT !.pc = "find"])
  <2>1. ~y.created
    BY <1>2, <1>4, <1>6 DEF IndInv, Slots, NoList
  <2> DEFINE x == [y EXCEPT !.pc = "find"]
  <2>2. /\ x \in Request /\ x.pc = "find" /\ x.vc = None /\ x.list = y.list
        /\ ~x.created /\ ~x.taken /\ ~x.consumes /\ ~x.upserted /\ ~x.encodes
        /\ x.session = None /\ ~x.dead
    BY <1>1, <1>2, <1>3, <2>1 DEF Request
  <2>3. Put(r, x) /\ UNCHANGED rows
    BY <1>6 DEF TakeIndex
  <2> HIDE DEF x, y
  <2>4. Fits(x)
    BY <1>4, <2>1, <2>2, CredentialAssumption
       DEF Fits, Phase, Revokes, OnList, OnVc, OnBits, OnSession
  <2>5. \A q \in Req \ {r} : Apart(x, req[q]) /\ Apart(req[q], x)
    BY <2>2 DEF Apart, Locks
  <2> QED
    BY <2>2, <2>3, <2>4, <2>5, PutSame
<1> QED
  BY <1>5, <1>6 DEF TakeIndex

\* CreateVc: a credential nobody has, or the end without a signing key.
LEMMA CreateVcStep ==
  ASSUME IndInv, NEW r \in Req, CreateVc(r)
  PROVE  IndInv'
<1> DEFINE y == req[r]
<1>1. y \in Request /\ Fits(y) /\ y.pc = "create"
  BY Read DEF CreateVc
<1>2. CASE Finish(r)
  BY <1>2, FinishStep DEF CreateVc
<1>3. ASSUME NEW c \in Credential, ~vc[c].issued, \A q \in Req : req[q].vc # c,
             Put(r, [y EXCEPT !.vc = c, !.pc = IF y.offer = None THEN "commit" ELSE "accept"])
      PROVE  IndInv'
  <2>1. /\ y.taken /\ y.list \in List /\ y.seen < MaxSize /\ y.session = None
        /\ ~y.upserted /\ ~y.encodes /\ ~y.consumes /\ y.vc = None
    BY <1>1 DEF Fits, Phase, Revokes
  <2>2. ~y.dead /\ OnList(y)
    BY <1>1, <2>1, CredentialAssumption DEF Fits, OnSession, IndInv, TypeOK
  <2> DEFINE x == [y EXCEPT !.vc = c, !.pc = IF y.offer = None THEN "commit" ELSE "accept"]
  <2>3. /\ x \in Request /\ x.pc \in {"commit", "accept"} /\ x.vc = c /\ x.list = y.list
        /\ x.seen = y.seen /\ x.offer = y.offer /\ (x.pc = "accept" => y.offer # None)
    BY <1>1 DEF Request
  <2>4. /\ x.created = y.created /\ x.taken /\ ~x.consumes /\ ~x.upserted /\ ~x.encodes
        /\ x.session = None /\ ~x.dead
    BY <1>1, <2>1, <2>2 DEF Request
  <2>5. Put(r, x) /\ UNCHANGED rows
    BY <1>3 DEF CreateVc
  <2>6. \A q \in Req \ {r} : Apart(y, req[q]) /\ Apart(req[q], y) /\ req[q].vc # c
    BY <1>3, Read
  <2>7. y.offer \in Offer \cup {None}
    BY <1>1 DEF Request
  <2> HIDE DEF x, y
  <2>8. Phase(x) /\ OnList(x) /\ OnVc(x)
    BY <1>3, <2>1, <2>2, <2>3, <2>4, <2>7, CredentialAssumption
       DEF Phase, Revokes, OnList, OnVc
  <2>9. OnBits(x) /\ OnSession(x)
    BY <2>3, <2>4, CredentialAssumption DEF OnBits, OnSession
  <2>10. \A q \in Req \ {r} : Apart(x, req[q]) /\ Apart(req[q], x)
    BY <2>1, <2>3, <2>4, <2>6 DEF Apart, Locks
  <2> QED
    BY <2>3, <2>5, <2>8, <2>9, <2>10, PutSame DEF Fits
<1> QED
  BY <1>2, <1>3 DEF CreateVc

\* AcceptOffer: the credential is inserted already, the offer row is locked.
LEMMA AcceptOfferStep ==
  ASSUME IndInv, NEW r \in Req, AcceptOffer(r)
  PROVE  IndInv'
<1> DEFINE y == req[r]
<1>1. y \in Request /\ Fits(y) /\ y.pc = "accept"
  BY Read DEF AcceptOffer
<1>2. /\ y.taken /\ y.list \in List /\ y.seen < MaxSize /\ y.session = None
      /\ ~y.upserted /\ ~y.encodes /\ y.offer \in Offer
  BY <1>1 DEF Fits, Phase, Revokes
<1>3. ~y.dead /\ OnList(y) /\ y.vc \in Credential /\ ~vc[y.vc].issued
  BY <1>1, <1>2, CredentialAssumption DEF Fits, OnSession, OnVc, IndInv, TypeOK, Entries
<1> DEFINE x == [y EXCEPT !.pc = "commit", !.consumes = TRUE]
<1>4. /\ x \in Request /\ x.pc = "commit" /\ x.vc = y.vc /\ x.list = y.list
      /\ x.seen = y.seen /\ x.offer = y.offer
      /\ x.created = y.created /\ x.taken /\ x.consumes /\ ~x.upserted /\ ~x.encodes
      /\ x.session = None /\ ~x.dead
  BY <1>1, <1>2, <1>3 DEF Request
<1>5. Put(r, x) /\ UNCHANGED rows
  BY DEF AcceptOffer
<1>6. \A q \in Req \ {r} : Apart(y, req[q]) /\ Apart(req[q], y)
  BY Read
<1> HIDE DEF x, y
<1>7. Phase(x) /\ OnList(x) /\ OnVc(x)
  BY <1>2, <1>3, <1>4 DEF Phase, Revokes, OnList, OnVc
<1>8. OnBits(x) /\ OnSession(x)
  BY <1>4, CredentialAssumption DEF OnBits, OnSession
<1>9. \A q \in Req \ {r} : Apart(x, req[q]) /\ Apart(req[q], x)
  BY <1>2, <1>4, <1>6 DEF Apart, Locks
<1> QED
  BY <1>4, <1>5, <1>7, <1>8, <1>9, PutSame DEF Fits

\* RevokeStart: of an issued credential, which no open request is inserting.
LEMMA RevokeStartStep ==
  ASSUME IndInv, NEW r \in Req, NEW c \in Credential, RevokeStart(r, c)
  PROVE  IndInv'
<1>1. vc[c].issued /\ vc[c].listId \in List /\ list[vc[c].listId].exists
  BY DEF RevokeStart, IndInv, Slots
<1> DEFINE x == [Idle EXCEPT !.pc = "upsert", !.vc = c, !.list = vc[c].listId]
<1>2. /\ x \in Request /\ x.pc = "upsert" /\ x.vc = c /\ x.list = vc[c].listId
      /\ ~x.created /\ ~x.taken /\ ~x.consumes /\ ~x.upserted /\ ~x.encodes
      /\ x.session = None /\ ~x.dead
  BY <1>1, IdleFits DEF Idle, Request
<1>3. Put(r, x) /\ UNCHANGED rows
  BY DEF RevokeStart
<1> HIDE DEF x
<1>4. Phase(x) /\ OnList(x) /\ OnVc(x)
  BY <1>1, <1>2 DEF Phase, Revokes, OnList, OnVc
<1>5. OnBits(x) /\ OnSession(x)
  BY <1>2, CredentialAssumption DEF OnBits, OnSession
<1>6. ASSUME NEW q \in Req \ {r} PROVE Apart(x, req[q]) /\ Apart(req[q], x)
  <2>1. req[q].taken /\ req[q].vc # None => req[q].vc # c
    BY <1>1, Read DEF Fits, OnVc, Phase
  <2> QED
    BY <1>2, <2>1 DEF Apart, Locks
<1> QED
  BY <1>2, <1>3, <1>4, <1>5, <1>6, PutSame DEF Fits

\* UpsertEntry: an overlap with another uncommitted revocation leaves its mark.
LEMMA UpsertEntryStep ==
  ASSUME IndInv, NEW r \in Req, UpsertEntry(r)
  PROVE  IndInv'
<1> DEFINE y == req[r]
<1>1. y \in Request /\ Fits(y) /\ y.pc = "upsert"
  BY Read DEF UpsertEntry
<1>2. ~y.created /\ ~y.taken /\ ~y.consumes /\ ~y.encodes /\ y.session = None /\ Revokes(y)
  BY <1>1 DEF Fits, Phase, Revokes
<1>3. /\ y.vc \in Credential /\ vc[y.vc].issued /\ y.list = vc[y.vc].listId /\ y.list \in List
      /\ OnList(y) /\ ~y.dead
  BY <1>1, <1>2, CredentialAssumption DEF Fits, OnVc, OnSession, IndInv, Slots, Revokes, Phase
<1>4. PICK x : x = [y EXCEPT !.pc = "entries", !.upserted = TRUE]
  OBVIOUS
<1>5. /\ x \in Request /\ x.pc = "entries" /\ x.vc = y.vc /\ x.list = y.list
      /\ ~x.created /\ ~x.taken /\ ~x.consumes /\ x.upserted /\ ~x.encodes
      /\ x.session = None /\ ~x.dead
  BY <1>1, <1>2, <1>3, <1>4 DEF Request
<1>6. /\ req' = [req EXCEPT ![r] = x]
      /\ raced \subseteq raced' /\ raced' \subseteq List /\ shared' = shared
      /\ shared' \subseteq VerifySession
      /\ \A q \in Req \ {r} : req[q].upserted /\ req[q].list = y.list => y.list \in raced'
      /\ UNCHANGED <<list, entry, vc, offer, revoked, issuer, verifySession, accepted, fooled>>
  BY <1>3, <1>4 DEF UpsertEntry, Put, IndInv, TypeOK, presentation
<1>7. ASSUME NEW q \in Req \ {r} PROVE Apart(y, req[q]) /\ Apart(req[q], y)
  BY Read
<1>8. ASSUME NEW q \in Req \ {r} PROVE req[q].taken /\ req[q].vc # None => req[q].vc # y.vc
  BY <1>7 DEF Apart
<1> HIDE DEF y
<1>9. Fits(x)'
  <2>1. Phase(x)' /\ OnList(x)' /\ OnVc(x)'
    BY <1>2, <1>3, <1>5, <1>6 DEF Phase, Revokes, OnList, OnVc
  <2>2. OnBits(x)' /\ OnSession(x)'
    BY <1>5, <1>6, CredentialAssumption DEF OnBits, OnSession
  <2> QED
    BY <2>1, <2>2 DEF Fits
<1>10. ASSUME NEW q \in Req \ {r}, NEW z, z = req[q] PROVE Apart(x, z)' /\ Apart(z, x)'
  BY <1>5, <1>6, <1>8, <1>10 DEF Apart, Locks
<1> QED
  BY <1>5, <1>6, <1>9, <1>10, PutStep

\* ReadEntries: the committed entries of the list are those of the finished
\* revocations, and the request adds its own.
LEMMA ReadEntriesStep ==
  ASSUME IndInv, NEW r \in Req, ReadEntries(r)
  PROVE  IndInv'
<1> DEFINE y == req[r]
           B == {i \in Index : <<y.list, i>> \in entry} \cup {vc[y.vc].index}
<1>1. y \in Request /\ Fits(y) /\ y.pc = "entries"
  BY Read DEF ReadEntries
<1>2. /\ ~y.created /\ ~y.taken /\ ~y.consumes /\ y.upserted /\ ~y.encodes /\ y.session = None
      /\ Revokes(y)
  BY <1>1 DEF Fits, Phase, Revokes
<1>3. /\ y.vc \in Credential /\ vc[y.vc].issued /\ y.list = vc[y.vc].listId /\ y.list \in List
      /\ OnList(y) /\ ~y.dead
  BY <1>1, <1>2, CredentialAssumption DEF Fits, OnVc, OnSession, IndInv, Slots, Revokes, Phase
<1>4. /\ B \subseteq Index /\ vc[y.vc].index \in B
      /\ \A i \in B \ {vc[y.vc].index} :
           \E c \in revoked : vc[c].listId = y.list /\ vc[c].index = i
      /\ \A c \in revoked : vc[c].listId = y.list => vc[c].index \in B
  <2>1. vc[y.vc].index \in Index /\ \A c \in revoked : vc[c].index \in Index
    BY <1>3 DEF IndInv, TypeOK
  <2> HIDE DEF y
  <2>2. \A i \in B \ {vc[y.vc].index} : \E c \in revoked : vc[c].listId = y.list /\ vc[c].index = i
    BY DEF IndInv, Entries
  <2>3. \A c \in revoked : vc[c].listId = y.list => vc[c].index \in B
    BY <2>1 DEF IndInv, Entries
  <2> QED
    BY <2>1, <2>2, <2>3
<1> DEFINE x == [y EXCEPT !.pc = "encode", !.bits = B]
<1>5. Put(r, x) /\ UNCHANGED rows
  BY DEF ReadEntries
<1> HIDE DEF B
<1>6. /\ x \in Request /\ x.pc = "encode" /\ x.vc = y.vc /\ x.list = y.list /\ x.bits = B
      /\ ~x.created /\ ~x.taken /\ ~x.consumes /\ x.upserted /\ ~x.encodes
      /\ x.session = None /\ ~x.dead
  BY <1>1, <1>2, <1>3, <1>4 DEF Request
<1>7. \A q \in Req \ {r} : Apart(y, req[q]) /\ Apart(req[q], y)
  BY Read
<1> HIDE DEF x, y
<1>8. Phase(x) /\ OnList(x) /\ OnVc(x)
  BY <1>2, <1>3, <1>6 DEF Phase, Revokes, OnList, OnVc
<1>9. OnBits(x) /\ OnSession(x)
  BY <1>4, <1>6, CredentialAssumption DEF OnBits, OnSession
<1>10. \A q \in Req \ {r} : Apart(x, req[q]) /\ Apart(req[q], x)
  BY <1>2, <1>6, <1>7 DEF Apart, Locks
<1> QED
  BY <1>5, <1>6, <1>8, <1>9, <1>10, PutSame DEF Fits

\* EncodeList: the update of the list row waits for whoever has written it.
LEMMA EncodeListStep ==
  ASSUME IndInv, NEW r \in Req, EncodeList(r)
  PROVE  IndInv'
<1> DEFINE y == req[r]
<1>1. y \in Request /\ Fits(y) /\ y.pc = "encode"
  BY Read DEF EncodeList
<1>2. /\ ~y.created /\ ~y.taken /\ ~y.consumes /\ y.upserted /\ ~y.encodes /\ y.session = None
      /\ Revokes(y)
  BY <1>1 DEF Fits, Phase, Revokes
<1>3. /\ y.vc \in Credential /\ vc[y.vc].issued /\ y.list = vc[y.vc].listId /\ y.list \in List
      /\ OnList(y) /\ ~y.dead
  BY <1>1, <1>2, CredentialAssumption DEF Fits, OnVc, OnSession, IndInv, Slots, Revokes, Phase
<1> DEFINE x == [y EXCEPT !.pc = "commit", !.encodes = TRUE]
<1>4. Put(r, x) /\ UNCHANGED rows
  BY DEF EncodeList
<1>5. /\ x \in Request /\ x.pc = "commit" /\ x.vc = y.vc /\ x.list = y.list /\ x.bits = y.bits
      /\ ~x.created /\ ~x.taken /\ ~x.consumes /\ x.upserted /\ x.encodes
      /\ x.session = None /\ ~x.dead
  BY <1>1, <1>2, <1>3 DEF Request
<1>6. \A q \in Req \ {r} : /\ ~(req[q].list = y.list /\ Locks(req[q]))
                           /\ Apart(y, req[q]) /\ Apart(req[q], y)
  BY Read DEF EncodeList, ListFree, Locks
<1>7. OnBits(x)
  BY <1>1, <1>5 DEF Fits, OnBits
<1> HIDE DEF x, y
<1>8. Phase(x) /\ OnList(x) /\ OnVc(x)
  BY <1>2, <1>3, <1>5 DEF Phase, Revokes, OnList, OnVc
<1>9. OnSession(x)
  BY <1>5, CredentialAssumption DEF OnSession
<1>10. \A q \in Req \ {r} : Apart(x, req[q]) /\ Apart(req[q], x)
  BY <1>2, <1>5, <1>6 DEF Apart, Locks
<1> QED
  BY <1>4, <1>5, <1>7, <1>8, <1>9, <1>10, PutSame DEF Fits

\* Present: a second presentation of the session leaves its mark.
LEMMA PresentStep ==
  ASSUME IndInv, NEW r \in Req, NEW v \in VerifySession, NEW c \in Credential, Present(r, v, c)
  PROVE  IndInv'
<1>1. vc[c].issued /\ accepted[v] = 0
  BY DEF Present, IndInv, Sessions, TypeOK
<1>0. PICK d \in BOOLEAN : d <=> c \in revoked
  <2>1. CASE c \in revoked
    BY <2>1
  <2>2. CASE c \notin revoked
    BY <2>2
  <2> QED
    BY <2>1, <2>2
<1>2. PICK x : x = [Idle EXCEPT !.pc = "verify", !.session = v, !.vc = c, !.dead = d]
  OBVIOUS
<1>3. /\ x \in Request /\ x.pc = "verify" /\ x.vc = c /\ x.list = None /\ x.session = v
      /\ ~x.created /\ ~x.taken /\ ~x.consumes /\ ~x.upserted /\ ~x.encodes
      /\ (x.dead <=> c \in revoked)
  BY <1>0, <1>2, IdleFits DEF Idle, Request
<1>4. /\ req' = [req EXCEPT ![r] = x]
      /\ shared \subseteq shared' /\ shared' \subseteq VerifySession /\ raced' = raced
      /\ raced' \subseteq List
      /\ \A q \in Req : req[q].session = v => v \in shared'
      /\ UNCHANGED <<list, entry, vc, offer, revoked, issuer, verifySession, accepted, fooled>>
  <2>1. [Idle EXCEPT !.pc = "verify", !.session = v, !.vc = c, !.dead = (c \in revoked)] = x
    BY <1>0, <1>2
  <2> QED
    BY <2>1 DEF Present, Put, IndInv, TypeOK
<1>5. Fits(x)'
  <2>1. Phase(x)' /\ OnList(x)' /\ OnVc(x)'
    BY <1>1, <1>3, <1>4, CredentialAssumption DEF Phase, Revokes, OnList, OnVc
  <2>2. OnBits(x)' /\ OnSession(x)'
    BY <1>1, <1>3, <1>4 DEF OnBits, OnSession
  <2> QED
    BY <2>1, <2>2 DEF Fits
<1>6. ASSUME NEW q \in Req \ {r}, NEW z, z = req[q] PROVE Apart(x, z)' /\ Apart(z, x)'
  <2>1. z.taken /\ z.vc # None => z.vc # c
    BY <1>1, <1>6, Read DEF Fits, OnVc, Phase
  <2> QED
    BY <1>3, <1>4, <1>6, <2>1 DEF Apart, Locks
<1> QED
  BY <1>3, <1>4, <1>5, <1>6, PutStep

\* VerifyCredential: the request ends, or goes on to mark the session.
LEMMA VerifyCredentialStep ==
  ASSUME IndInv, NEW r \in Req, VerifyCredential(r)
  PROVE  IndInv'
<1> DEFINE y == req[r]
<1>1. y \in Request /\ Fits(y) /\ y.pc = "verify"
  BY Read DEF VerifyCredential
<1>2. Finish(r) \/ Put(r, [y EXCEPT !.pc = "consume"])
  BY DEF VerifyCredential, Finish
<1>3. CASE Finish(r)
  BY <1>3, FinishStep DEF VerifyCredential
<1>4. CASE Put(r, [y EXCEPT !.pc = "consume"])
  <2>1. /\ ~y.created /\ ~y.taken /\ ~y.consumes /\ ~y.upserted /\ ~y.encodes /\ y.session # None
        /\ y.vc \in Credential /\ vc[y.vc].issued /\ OnList(y) /\ OnSession(y)
    BY <1>1 DEF Fits, Phase, Revokes, OnVc
  <2> DEFINE x == [y EXCEPT !.pc = "consume"]
  <2>3. Put(r, x) /\ UNCHANGED rows
    BY <1>4 DEF VerifyCredential
  <2>4. /\ x \in Request /\ x.pc = "consume" /\ x.vc = y.vc /\ x.list = y.list
        /\ x.session = y.session /\ x.dead = y.dead
        /\ ~x.created /\ ~x.taken /\ ~x.consumes /\ ~x.upserted /\ ~x.encodes
    BY <1>1, <2>1 DEF Request
  <2>5. \A q \in Req \ {r} : Apart(y, req[q]) /\ Apart(req[q], y)
    BY Read
  <2> HIDE DEF x, y
  <2>6. Phase(x) /\ OnList(x) /\ OnVc(x)
    BY <2>1, <2>4 DEF Phase, Revokes, OnList, OnVc
  <2>7. OnBits(x) /\ OnSession(x)
    BY <2>1, <2>4 DEF OnBits, OnSession
  <2>8. \A q \in Req \ {r} : Apart(x, req[q]) /\ Apart(req[q], x)
    BY <2>4, <2>5 DEF Apart, Locks
  <2> QED
    BY <2>3, <2>4, <2>6, <2>7, <2>8, PutSame DEF Fits
<1> QED
  BY <1>2, <1>3, <1>4

-----------------------------------------------------------------------------
\* Steps that write to the rows.

\* A request ends and the rows change: the others must still fit them.
LEMMA EndStep ==
  ASSUME IndInv, NEW r \in Req, Finish(r), raced' = raced, shared' = shared,
         \A q \in Req \ {r} : \A z : z = req[q] => Fits(z)'
  PROVE  Requests'
<1>1. /\ req'[r] = Idle /\ \A q \in Req : q # r => req'[q] = req[q]
  BY DEF Finish, Put, IndInv, TypeOK
<1>2. PICK x : x = Idle
  OBVIOUS
<1>3. Fits(x)'
  BY <1>2, CredentialAssumption
     DEF Fits, Idle, Phase, Revokes, OnList, OnVc, OnBits, OnSession, List
<1>4. ASSUME NEW q \in Req PROVE Fits(req[q])'
  <2>1. CASE q = r
    BY <1>1, <1>2, <1>3, <2>1
  <2>2. CASE q # r
    BY <1>1, <2>2
  <2> QED
    BY <2>1, <2>2
<1>5. ASSUME NEW p \in Req, NEW q \in Req, p # q PROVE Apart(req[p], req[q])'
  <2>1. PICK y : y = req'[p]
    OBVIOUS
  <2>2. PICK z : z = req'[q]
    OBVIOUS
  <2>3. Apart(y, z)
    <3>1. CASE p = r
      BY <1>1, <1>5, <2>1, <2>2, <3>1, IdleFits, Read
    <3>2. CASE q = r
      BY <1>1, <1>5, <2>1, <2>2, <3>2, IdleFits, Read
    <3>3. CASE p # r /\ q # r
      BY <1>1, <1>5, <2>1, <2>2, <3>3 DEF IndInv, Requests
    <3> QED
      BY <3>1, <3>2, <3>3
  <2>4. Apart(y, z)'
    BY <2>3 DEF Apart
  <2> QED
    BY <2>1, <2>2, <2>4
<1> QED
  BY <1>4, <1>5 DEF Requests

\* Commit of an issuance: the slot it takes is the next one of the list, and
\* whoever else is at work there has seen a count that is still to be checked.
LEMMA IssueCommitStep ==
  ASSUME IndInv, NEW r \in Req, Commit(r), req[r].taken
  PROVE  IndInv'
<1>1. PICK y : y = req[r]
  OBVIOUS
<1>2. y \in Request /\ Fits(y) /\ y.pc = "commit" /\ y.taken
  BY <1>1, Read DEF Commit
<1>3. /\ y.list \in List /\ y.seen \in 0..MaxSize /\ y.seen < MaxSize
      /\ y.vc \in Credential /\ ~vc[y.vc].issued
      /\ ~y.upserted /\ ~y.encodes /\ (y.consumes => y.offer \in Offer)
  BY <1>2 DEF Fits, Phase, Revokes, OnVc, Request
<1>4. /\ list[y.list].issuedCount = y.seen /\ (y.created \/ list[y.list].exists)
      /\ y.vc # None /\ y.list # None
  BY <1>2, <1>3, CredentialAssumption DEF Fits, OnList, List
<1>5. PICK w : w = [exists |-> TRUE, issuedCount |-> y.seen + 1,
                    encodedList |-> list[y.list].encodedList]
  OBVIOUS
<1>6. PICK n : n = [issued |-> TRUE, listId |-> y.list, index |-> y.seen, offer |-> y.offer]
  OBVIOUS
<1>7. /\ Written(r) = w /\ NewVc(r) = n
  BY <1>1, <1>2, <1>3, <1>4, <1>5, <1>6 DEF Written, NewVc
<1>8. /\ list' = [list EXCEPT ![y.list] = w] /\ vc' = [vc EXCEPT ![y.vc] = n]
      /\ offer' = IF y.consumes THEN [offer EXCEPT ![y.offer] = "ACCEPTED"] ELSE offer
      /\ UNCHANGED <<entry, revoked, raced, presentation>> /\ Finish(r)
  BY <1>1, <1>2, <1>3, <1>7 DEF Commit
<1>9. /\ w \in [exists: BOOLEAN, issuedCount: 0..MaxSize, encodedList: SUBSET Index]
      /\ n \in [issued: BOOLEAN, listId: List \cup {None}, index: Index, offer: Offer \cup {None}]
  <2>1. y.seen + 1 \in 0..MaxSize /\ y.seen \in Index
    BY <1>3, CredentialAssumption DEF Index
  <2>2. list[y.list].encodedList \subseteq Index /\ y.offer \in Offer \cup {None}
    BY <1>2, <1>3 DEF IndInv, TypeOK, Request
  <2> QED
    BY <1>3, <1>5, <1>6, <2>1, <2>2
<1>10. /\ list'[y.list] = w /\ \A l \in List : l # y.list => list'[l] = list[l]
       /\ vc'[y.vc] = n /\ \A c \in Credential : c # y.vc => vc'[c] = vc[c]
  BY <1>3, <1>8 DEF IndInv, TypeOK
<1>11. TypeOK'
  <2>1. list' \in [List -> [exists: BOOLEAN, issuedCount: 0..MaxSize, encodedList: SUBSET Index]]
        /\ vc' \in [Credential -> [issued: BOOLEAN, listId: List \cup {None}, index: Index,
                                   offer: Offer \cup {None}]]
    BY <1>3, <1>8, <1>9 DEF IndInv, TypeOK
  <2>2. offer' \in [Offer -> {"none", "PENDING", "ACCEPTED", "EXPIRED"}]
    BY <1>3, <1>8 DEF IndInv, TypeOK
  <2>3. req' \in [Req -> Request]
    BY <1>8, IdleFits DEF Finish, Put, IndInv, TypeOK
  <2> QED
    BY <1>8, <2>1, <2>2, <2>3 DEF IndInv, TypeOK, presentation, issuer
<1>12. ASSUME NEW c \in revoked \cup fooled PROVE c \in Credential /\ c # y.vc /\ vc'[c] = vc[c]
  BY <1>3, <1>10 DEF IndInv, Entries, Sessions, TypeOK
<1>13. Slots'
  <2>1. \A l \in List : ~list'[l].exists => list'[l] = NoList
    BY <1>5, <1>10 DEF IndInv, Slots
  <2>2. ASSUME NEW c \in Credential, vc'[c].issued
        PROVE  /\ vc'[c].listId \in List /\ list'[vc'[c].listId].exists
               /\ vc'[c].index < list'[vc'[c].listId].issuedCount
    <3>1. CASE c = y.vc
      BY <1>3, <1>5, <1>6, <1>10, <3>1
    <3>2. CASE c # y.vc
      <4>1. /\ vc[c].listId \in List /\ list[vc[c].listId].exists
            /\ vc[c].index < list[vc[c].listId].issuedCount
            /\ vc'[c] = vc[c] /\ vc[c].index \in Nat
        BY <1>10, <2>2, <3>2, CredentialAssumption DEF IndInv, Slots, TypeOK, Index
      <4> QED
        BY <1>3, <1>4, <1>5, <1>10, <4>1
    <3> QED
      BY <3>1, <3>2
  <2>3. ASSUME NEW l \in List
        PROVE  IsFiniteSet(On(l)') /\ Cardinality(On(l)') = list'[l].issuedCount
    <3>1. IsFiniteSet(On(l)) /\ Cardinality(On(l)) = list[l].issuedCount
      BY DEF IndInv, Slots
    <3>2. CASE l = y.list
      <4>1. On(l)' = On(l) \cup {y.vc} /\ y.vc \notin On(l)
        BY <1>3, <1>6, <1>10, <3>2 DEF On
      <4>2. /\ IsFiniteSet(On(l) \cup {y.vc})
            /\ Cardinality(On(l) \cup {y.vc}) = Cardinality(On(l)) + 1
        BY <3>1, <4>1, FS_AddElement
      <4>3. list'[l].issuedCount = list[l].issuedCount + 1
        BY <1>4, <1>5, <1>10, <3>2
      <4> QED
        BY <3>1, <4>1, <4>2, <4>3
    <3>3. CASE l # y.list
      <4>1. On(l)' = On(l)
        BY <1>3, <1>6, <1>10, <3>3 DEF On
      <4> QED
        BY <1>10, <3>1, <3>3, <4>1
    <3> QED
      BY <3>2, <3>3
  <2> QED
    BY <2>1, <2>2, <2>3 DEF Slots
<1>14. SlotUnique'
  <2>1. ASSUME NEW c \in Credential, c # y.vc, vc[c].issued, vc[c].listId = y.list
        PROVE  vc[c].index # y.seen
    BY <1>3, <1>4, <2>1, CredentialAssumption DEF IndInv, Slots, TypeOK, Index
  <2> QED
    BY <1>6, <1>10, <2>1 DEF IndInv, SlotUnique
<1>15. \A l \in List : list'[l].encodedList = list[l].encodedList
  BY <1>5, <1>10
<1>16. Entries' /\ NoFalseRevocation' /\ RevocationKept'
  <2>1. Entries'
    BY <1>8, <1>12 DEF IndInv, Entries
  <2>2. NoFalseRevocation'
    BY <1>8, <1>12, <1>15 DEF IndInv, NoFalseRevocation
  <2>3. ASSUME NEW c \in revoked PROVE vc[c].listId \in List
    BY <2>3 DEF IndInv, Entries, Slots, TypeOK
  <2>4. RevocationKept'
    BY <1>8, <1>12, <1>15, <2>3 DEF IndInv, RevocationKept, Bit
  <2> QED
    BY <2>1, <2>2, <2>4
<1>17. Sessions'
  BY <1>8, <1>12 DEF IndInv, Sessions, presentation
<1>18. ASSUME NEW q \in Req \ {r}, NEW z, z = req[q] PROVE Fits(z)'
  <2>1. z \in Request /\ Fits(z) /\ Apart(y, z) /\ Apart(z, y)
    BY <1>1, <1>18, Read
  <2>2. z.vc # y.vc /\ (z.vc \in Credential => vc'[z.vc] = vc[z.vc])
    BY <1>2, <1>4, <1>10, <2>1 DEF Apart
  <2>3. OnList(z)'
    <3>1. \A l \in List : list[l].exists => list'[l].exists
      BY <1>5, <1>10
    <3>2. ASSUME z.created PROVE z.list # y.list
      BY <1>3, <1>4, <2>1, <3>2 DEF Apart, Fits, OnList
    <3>3. ASSUME z.taken PROVE z.list # y.list
      BY <1>2, <2>1, <3>3 DEF Apart, Locks
    <3>4. z.list \in List \cup {None} /\ (z.created \/ z.taken => z.list \in List)
      BY <2>1 DEF Request, Fits, Phase
    <3> QED
      BY <1>10, <2>1, <3>1, <3>2, <3>3, <3>4 DEF Fits, OnList
  <2>4. OnVc(z)'
    BY <2>1, <2>2 DEF Fits, OnVc
  <2>5. OnBits(z)'
    <3>1. z.pc = "encode" \/ z.encodes => z.vc \in Credential
      BY <2>1 DEF Fits, Phase, Revokes, OnVc
    <3> QED
      BY <1>8, <1>12, <2>1, <2>2, <3>1 DEF Fits, OnBits
  <2>6. OnSession(z)'
    <3>1. z.dead => z.vc \in Credential
      BY <2>1 DEF Fits, Phase, OnVc
    <3> QED
      BY <1>8, <2>1, <2>2, <3>1 DEF Fits, OnSession, presentation
  <2>7. Phase(z)'
    BY <2>1 DEF Fits, Phase
  <2> QED
    BY <2>3, <2>4, <2>5, <2>6, <2>7 DEF Fits
<1>19. Requests'
  BY <1>8, <1>18, EndStep DEF presentation
<1> QED
  BY <1>11, <1>13, <1>14, <1>16, <1>17, <1>19 DEF IndInv

\* Commit of a revocation: the list is encoded from its own entry and from the
\* entries of the revocations that had finished when it read them.
LEMMA RevokeCommitStep ==
  ASSUME IndInv, NEW r \in Req, Commit(r), ~req[r].taken
  PROVE  IndInv'
<1>1. PICK y : y = req[r]
  OBVIOUS
<1>2. y \in Request /\ Fits(y) /\ y.pc = "commit" /\ ~y.taken /\ Revokes(y)
  BY <1>1, Read DEF Commit, Revokes
<1>3. /\ y.list \in List /\ y.vc \in Credential /\ vc[y.vc].issued /\ y.list = vc[y.vc].listId
      /\ y.upserted /\ y.encodes /\ ~y.consumes /\ ~y.created
  BY <1>2 DEF Fits, Phase, Revokes, OnVc, IndInv, Slots
<1>4. /\ list[y.list].exists /\ y.bits \subseteq Index /\ list[y.list].issuedCount \in 0..MaxSize
      /\ vc[y.vc].index \in Index
  BY <1>2, <1>3 DEF Request, IndInv, Slots, TypeOK
<1>5. PICK w : w = [exists |-> TRUE, issuedCount |-> list[y.list].issuedCount,
                    encodedList |-> y.bits]
  OBVIOUS
<1>6. Written(r) = w
  <2>1. list[y.list].issuedCount + (IF y.taken THEN 1 ELSE 0) = list[y.list].issuedCount
    BY <1>2, <1>4
  <2>2. (IF y.encodes THEN y.bits ELSE list[y.list].encodedList) = y.bits
    BY <1>3
  <2> QED
    BY <1>1, <1>5, <2>1, <2>2 DEF Written
<1>7. PICK e : e = <<y.list, vc[y.vc].index>>
  OBVIOUS
<1>8. /\ list' = [list EXCEPT ![y.list] = w] /\ entry' = entry \cup {e}
      /\ revoked' = revoked \cup {y.vc}
      /\ UNCHANGED <<vc, offer, raced, presentation>> /\ Finish(r)
  BY <1>1, <1>2, <1>3, <1>6, <1>7 DEF Commit
<1>9. /\ list'[y.list] = w /\ \A l \in List : l # y.list => list'[l] = list[l]
  BY <1>3, <1>8 DEF IndInv, TypeOK
<1>10. \A l \in List : list'[l].exists = list[l].exists /\ list'[l].issuedCount = list[l].issuedCount
  <2>1. list[y.list].exists = TRUE
    BY <1>3, <1>4 DEF IndInv, TypeOK
  <2>2. ASSUME NEW l \in List
        PROVE  list'[l].exists = list[l].exists /\ list'[l].issuedCount = list[l].issuedCount
    <3>1. CASE l = y.list
      <4>1. list'[l] = w /\ list[l].exists = TRUE
        BY <1>9, <2>1, <3>1
      <4>2. w.exists = TRUE /\ w.issuedCount = list[l].issuedCount
        BY <1>5, <3>1
      <4> QED
        BY <4>1, <4>2
    <3>2. CASE l # y.list
      BY <1>9, <3>2
    <3> QED
      BY <3>1, <3>2
  <2> QED
    BY <2>2
<1>11. TypeOK'
  <2>1. w \in [exists: BOOLEAN, issuedCount: 0..MaxSize, encodedList: SUBSET Index]
    BY <1>4, <1>5
  <2>2. list' \in [List -> [exists: BOOLEAN, issuedCount: 0..MaxSize, encodedList: SUBSET Index]]
    BY <1>3, <1>8, <2>1 DEF IndInv, TypeOK
  <2>3. req' \in [Req -> Request]
    BY <1>8, IdleFits DEF Finish, Put, IndInv, TypeOK
  <2>4. entry' \subseteq List \X Index /\ revoked' \subseteq Credential
    BY <1>3, <1>4, <1>7, <1>8 DEF IndInv, TypeOK
  <2> QED
    BY <1>8, <2>2, <2>3, <2>4 DEF IndInv, TypeOK, presentation, issuer
<1>12. Slots' /\ SlotUnique'
  <2>1. \A l \in List : On(l)' = On(l)
    BY <1>8 DEF On
  <2>2. \A l \in List : ~list'[l].exists => list'[l] = NoList
    BY <1>5, <1>9 DEF IndInv, Slots
  <2>3. SlotUnique'
    BY <1>8 DEF IndInv, SlotUnique
  <2>4. \A c \in Credential : vc'[c].issued =>
           /\ vc'[c].listId \in List /\ list'[vc'[c].listId].exists
           /\ vc'[c].index < list'[vc'[c].listId].issuedCount
    BY <1>8, <1>10 DEF IndInv, Slots
  <2> QED
    BY <1>10, <2>1, <2>2, <2>3, <2>4 DEF IndInv, Slots
<1>13. Entries'
  BY <1>3, <1>7, <1>8 DEF IndInv, Entries
<1>14. /\ vc[y.vc].index \in y.bits
       /\ \A i \in y.bits \ {vc[y.vc].index} :
            \E c \in revoked : vc[c].listId = y.list /\ vc[c].index = i
       /\ y.list \notin raced =>
            \A c \in revoked : vc[c].listId = y.list => vc[c].index \in y.bits
  BY <1>2, <1>3 DEF Fits, OnBits
<1>15. NoFalseRevocation'
  <2> SUFFICES ASSUME NEW l \in List, NEW i \in list'[l].encodedList
               PROVE  \E c \in revoked' : vc'[c].listId = l /\ vc'[c].index = i
    BY DEF NoFalseRevocation
  <2>1. CASE l = y.list
    BY <1>3, <1>5, <1>8, <1>9, <1>14, <2>1
  <2>2. CASE l # y.list
    BY <1>8, <1>9, <2>2 DEF IndInv, NoFalseRevocation
  <2> QED
    BY <2>1, <2>2
<1>16. RevocationKept'
  <2> SUFFICES ASSUME NEW c \in revoked', vc'[c].listId \notin raced'
               PROVE  vc'[c].index \in list'[vc'[c].listId].encodedList
    BY DEF RevocationKept, Bit
  <2>1. CASE vc[c].listId = y.list
    BY <1>3, <1>5, <1>8, <1>9, <1>14, <2>1
  <2>2. CASE vc[c].listId # y.list
    <3>1. c \in revoked /\ vc[c].listId \in List
      BY <1>3, <1>8, <2>2 DEF IndInv, Entries, Slots, TypeOK
    <3> QED
      BY <1>8, <1>9, <2>2, <3>1 DEF IndInv, RevocationKept, Bit
  <2> QED
    BY <2>1, <2>2
<1>17. Sessions'
  BY <1>8 DEF IndInv, Sessions, presentation
<1>18. ASSUME NEW q \in Req \ {r}, NEW z, z = req[q] PROVE Fits(z)'
  <2>1. z \in Request /\ Fits(z) /\ Apart(y, z)
    BY <1>1, <1>18, Read
  <2>2. OnList(z)'
    <3>1. z.list \in List \cup {None} /\ (z.created \/ z.taken => z.list \in List)
      BY <2>1 DEF Request, Fits, Phase
    <3> QED
      BY <1>10, <2>1, <3>1 DEF Fits, OnList
  <2>3. Phase(z)' /\ OnVc(z)'
    BY <1>8, <2>1 DEF Fits, Phase, OnVc
  <2>4. OnBits(z)'
    <3> SUFFICES ASSUME z.pc = "encode" \/ z.encodes
                 PROVE  /\ vc'[z.vc].index \in z.bits
                        /\ \A i \in z.bits \ {vc'[z.vc].index} :
                             \E c \in revoked' : vc'[c].listId = z.list /\ vc'[c].index = i
                        /\ z.list \notin raced' =>
                             \A c \in revoked' : vc'[c].listId = z.list => vc'[c].index \in z.bits
      BY DEF OnBits
    <3>1. z.upserted
      BY <2>1 DEF Fits, Phase, Revokes
    <3>2. z.list = y.list => z.list \in raced
      BY <1>3, <2>1, <3>1 DEF Apart
    <3> QED
      BY <1>3, <1>8, <2>1, <3>2 DEF Fits, OnBits
  <2>5. OnSession(z)'
    BY <1>8, <2>1 DEF Fits, OnSession, presentation
  <2> QED
    BY <2>2, <2>3, <2>4, <2>5 DEF Fits
<1>19. Requests'
  BY <1>8, <1>18, EndStep DEF presentation
<1> QED
  BY <1>11, <1>12, <1>13, <1>15, <1>16, <1>17, <1>19 DEF IndInv

\* ConsumeSession: the first presentation of a session that nobody else has
\* read meanwhile.
LEMMA ConsumeSessionStep ==
  ASSUME IndInv, NEW r \in Req, ConsumeSession(r)
  PROVE  IndInv'
<1>1. PICK y : y = req[r]
  OBVIOUS
<1>2. y \in Request /\ Fits(y) /\ y.pc = "consume"
  BY <1>1, Read DEF ConsumeSession
<1>3. /\ y.session \in VerifySession /\ y.vc \in Credential /\ vc[y.vc].issued
      /\ (y.session \notin shared => accepted[y.session] = 0)
  BY <1>2 DEF Fits, Phase, OnVc, OnSession, Request
<1>4. /\ verifySession' = [verifySession EXCEPT ![y.session] = "CONSUMED"]
      /\ accepted' = [accepted EXCEPT ![y.session] = @ + 1]
      /\ fooled' = IF y.dead THEN fooled \cup {y.vc} ELSE fooled
      /\ Finish(r)
      /\ UNCHANGED <<list, entry, vc, offer, revoked, raced, issuer, shared>>
  BY <1>1 DEF ConsumeSession
<1>5. /\ verifySession'[y.session] = "CONSUMED" /\ accepted'[y.session] = accepted[y.session] + 1
      /\ \A v \in VerifySession : v # y.session =>
           verifySession'[v] = verifySession[v] /\ accepted'[v] = accepted[v]
  BY <1>3, <1>4 DEF IndInv, TypeOK
<1>6. TypeOK'
  <2>1. req' \in [Req -> Request]
    BY <1>4, IdleFits DEF Finish, Put, IndInv, TypeOK
  <2>2. /\ verifySession' \in [VerifySession -> {"none", "PENDING", "CONSUMED", "EXPIRED"}]
        /\ accepted' \in [VerifySession -> Nat]
        /\ fooled' \subseteq Credential
    BY <1>3, <1>4 DEF IndInv, TypeOK
  <2> QED
    BY <1>4, <2>1, <2>2 DEF IndInv, TypeOK, issuer
<1>7. Slots'
  <2>1. \A l \in List : On(l)' = On(l)
    BY <1>4 DEF On
  <2> QED
    BY <1>4, <2>1 DEF IndInv, Slots
<1>8. SlotUnique' /\ Entries' /\ NoFalseRevocation' /\ RevocationKept'
  BY <1>4 DEF IndInv, SlotUnique, Entries, NoFalseRevocation, RevocationKept, Bit
<1>9. Sessions'
  <2>1. \A v \in VerifySession : accepted'[v] > 0 => verifySession'[v] = "CONSUMED"
    BY <1>5 DEF IndInv, Sessions
  <2>2. \A v \in VerifySession \ shared : accepted'[v] <= 1
    BY <1>3, <1>5 DEF IndInv, Sessions
  <2>3. \A c \in fooled' : vc[c].issued
    BY <1>3, <1>4 DEF IndInv, Sessions
  <2> QED
    BY <1>4, <2>1, <2>2, <2>3 DEF Sessions
<1>10. ASSUME NEW q \in Req \ {r}, NEW z, z = req[q] PROVE Fits(z)'
  <2>1. z \in Request /\ Fits(z) /\ Apart(y, z)
    BY <1>1, <1>10, Read
  <2>2. Phase(z)' /\ OnList(z)' /\ OnVc(z)' /\ OnBits(z)'
    BY <1>4, <2>1 DEF Fits, Phase, OnList, OnVc, OnBits
  <2>3. OnSession(z)'
    <3>1. z.session = y.session => y.session \in shared
      BY <1>3, <2>1, CredentialAssumption DEF Apart
    <3> QED
      BY <1>4, <1>5, <2>1, <3>1 DEF Fits, OnSession
  <2> QED
    BY <2>2, <2>3 DEF Fits
<1>11. Requests'
  BY <1>4, <1>10, EndStep
<1> QED
  BY <1>6, <1>7, <1>8, <1>9, <1>11 DEF IndInv

\* Offers, keys and new or expired sessions: nothing that the other properties
\* look at changes, and only a session that nobody has used expires.
LEMMA OtherStep ==
  ASSUME IndInv,
         \/ \E o \in Offer : CreateOffer(o) \/ ExpireOffer(o)
         \/ \E v \in VerifySession : CreateSession(v) \/ ExpireSession(v)
         \/ RevokeSigningKey
  PROVE  IndInv'
<1>1. CASE (\E o \in Offer : CreateOffer(o) \/ ExpireOffer(o)) \/ RevokeSigningKey
  <2>1. UNCHANGED <<list, entry, vc, req, revoked, raced, accepted, shared, verifySession, fooled>>
    BY <1>1 DEF CreateOffer, ExpireOffer, RevokeSigningKey, presentation
  <2>2. TypeOK'
    BY <1>1, <2>1
       DEF IndInv, TypeOK, CreateOffer, ExpireOffer, RevokeSigningKey, presentation, issuer
  <2>3. Sessions'
    BY <2>1 DEF IndInv, Sessions
  <2> QED
    BY <2>1, <2>2, <2>3, FrameStep
<1>2. ASSUME NEW v \in VerifySession, CreateSession(v) \/ ExpireSession(v) PROVE IndInv'
  <2>1. UNCHANGED <<list, entry, vc, req, revoked, raced, accepted, shared, fooled, offer, issuer>>
    BY <1>2 DEF CreateSession, ExpireSession
  <2>2. TypeOK'
    BY <1>2, <2>1 DEF IndInv, TypeOK, CreateSession, ExpireSession, issuer
  <2>3. Sessions'
    BY <1>2, <2>1 DEF IndInv, Sessions, TypeOK, CreateSession, ExpireSession
  <2> QED
    BY <2>1, <2>2, <2>3, FrameStep
<1> QED
  BY <1>1, <1>2

-----------------------------------------------------------------------------
\* Every action keeps the invariant.
LEMMA NextInv == IndInv /\ [Next]_vars => IndInv'
<1> SUFFICES ASSUME IndInv, [Next]_vars PROVE IndInv'
  OBVIOUS
<1>1. ASSUME NEW r \in Req, Issue(r) PROVE IndInv'
  BY <1>1, StartStep, FindListStep, TakeIndexStep, CreateVcStep DEF Issue
<1>2. ASSUME NEW r \in Req, Revoke(r) PROVE IndInv'
  BY <1>2, RevokeStartStep, UpsertEntryStep, ReadEntriesStep, EncodeListStep DEF Revoke
<1>3. ASSUME NEW r \in Req, AcceptOffer(r) PROVE IndInv'
  BY <1>3, AcceptOfferStep
<1>4. ASSUME NEW r \in Req, Commit(r) PROVE IndInv'
  BY <1>4, IssueCommitStep, RevokeCommitStep
<1>5. ASSUME NEW r \in Req, Abort(r) PROVE IndInv'
  BY <1>5, FinishStep DEF Abort
<1>6. ASSUME NEW o \in Offer, Offers(o) \/ ExpireOffer(o) PROVE IndInv'
  BY <1>6, StartStep, OtherStep DEF Offers
<1>7. ASSUME NEW r \in Req, VerifyCredential(r) \/ ConsumeSession(r) PROVE IndInv'
  BY <1>7, VerifyCredentialStep, ConsumeSessionStep
<1>8. ASSUME NEW r \in Req, NEW v \in VerifySession, NEW c \in Credential, Present(r, v, c)
      PROVE  IndInv'
  BY <1>8, PresentStep
<1>9. CASE (\E v \in VerifySession : CreateSession(v) \/ ExpireSession(v)) \/ RevokeSigningKey
  BY <1>9, OtherStep
<1>10. CASE UNCHANGED vars
  BY <1>10, FrameStep DEF vars, presentation, issuer, IndInv, TypeOK, Sessions
<1> QED
  BY <1>1, <1>2, <1>3, <1>4, <1>5, <1>6, <1>7, <1>8, <1>9, <1>10 DEF Next

\* The invariant holds in every reachable state.
LEMMA Invariance == Spec => []IndInv
<1> QED
  BY InitInv, NextInv, PTL DEF Spec

\* The rows, requests and histories keep their types; an issuedCount stays
\* within the size of its list, whoever increments it.
THEOREM TypeCorrect == Spec => []TypeOK
<1>1. IndInv => TypeOK
  BY DEF IndInv
<1> QED
  BY Invariance, <1>1, PTL

\* No two credentials share a slot of a status list, however many issuances and
\* acceptances overlap in allocateIndex.
THEOREM SlotsAreUnique == Spec => []SlotUnique
<1>1. IndInv => SlotUnique
  BY DEF IndInv
<1> QED
  BY Invariance, <1>1, PTL

\* The issuedCount of a list is the number of its credentials: an issuance that
\* starts over or fails gives its index back.
THEOREM CountsAreExact == Spec => []NoDeadSlots
<1>1. IndInv => NoDeadSlots
  BY DEF IndInv, Slots, NoDeadSlots, On
<1> QED
  BY Invariance, <1>1, PTL

\* A bit is set only for a credential that a finished revocation was about.
THEOREM BitsJustified == Spec => []NoFalseRevocation
<1>1. IndInv => NoFalseRevocation
  BY DEF IndInv
<1> QED
  BY Invariance, <1>1, PTL

\* A finished revocation stays visible on a list no two revocations of which
\* have overlapped: only that overlap loses an update of encodedList.
THEOREM RevocationIsKept == Spec => []RevocationKept
<1>1. IndInv => RevocationKept
  BY DEF IndInv
<1> QED
  BY Invariance, <1>1, PTL

-----------------------------------------------------------------------------
\* Offers.

\* The credential of an accepted offer is inserted with the offer marked.
Settled(x) == x.pc = "commit" /\ x.taken /\ x.offer # None => x.consumes

OfferInv ==
  /\ \A c \in Credential : vc[c].issued /\ vc[c].offer # None => offer[vc[c].offer] = "ACCEPTED"
  /\ \A r \in Req : Settled(req[r])

\* A request keeps its offer and its session until it ends, and marks the offer
\* before it commits.
LEMMA OfferOfRequest ==
  ASSUME IndInv, OfferInv, NEW r \in Req,
         \/ Issue(r) \/ AcceptOffer(r) \/ Revoke(r) \/ Commit(r) \/ Abort(r)
         \/ VerifyCredential(r) \/ ConsumeSession(r)
  PROVE  /\ Settled(req[r])' /\ req'[r].offer \in {req[r].offer, None}
         /\ req'[r].session \in {req[r].session, None}
         /\ \A q \in Req : q # r => req'[q] = req[q]
<1> DEFINE Kept(x) == /\ Settled(x) /\ x.offer \in {req[r].offer, None}
                      /\ x.session \in {req[r].session, None}
<1>1. ASSUME NEW x, Put(r, x), Kept(x)
      PROVE  /\ Settled(req[r])' /\ req'[r].offer \in {req[r].offer, None}
             /\ req'[r].session \in {req[r].session, None}
             /\ \A q \in Req : q # r => req'[q] = req[q]
  <2>1. req'[r] = x /\ \A q \in Req : q # r => req'[q] = req[q]
    BY <1>1 DEF Put, IndInv, TypeOK
  <2> QED
    BY <1>1, <2>1 DEF Settled
<1>2. Kept(Idle)
  BY DEF Settled, Idle
<1>3. req[r] \in Request /\ Phase(req[r]) /\ Settled(req[r])
  BY Read DEF OfferInv, Fits
<1>4. CASE Finish(r)
  BY <1>1, <1>2, <1>4 DEF Finish
<1>5. CASE IssueStart(r)
  <2>1. Kept([Idle EXCEPT !.pc = "find"])
    BY DEF Settled, Idle
  <2> QED
    BY <1>1, <1>5, <2>1 DEF IssueStart
<1>6. CASE FindList(r)
  <2>1. ASSUME NEW l, NEW n PROVE Kept([req[r] EXCEPT !.pc = "cas", !.list = l, !.seen = n])
    BY <1>3 DEF Settled, Request
  <2>2. ASSUME NEW l
        PROVE  Kept([req[r] EXCEPT !.pc = "cas", !.list = l, !.seen = 0, !.created = TRUE])
    BY <1>3 DEF Settled, Request
  <2>3. \/ \E l, n : Put(r, [req[r] EXCEPT !.pc = "cas", !.list = l, !.seen = n])
        \/ \E l : Put(r, [req[r] EXCEPT !.pc = "cas", !.list = l, !.seen = 0, !.created = TRUE])
    BY <1>6, Zenon DEF FindList
  <2> HIDE DEF Kept
  <2> QED
    BY <1>1, <2>1, <2>2, <2>3, Zenon
<1>7. CASE TakeIndex(r)
  <2>1. Kept([req[r] EXCEPT !.pc = "create", !.taken = TRUE]) /\ Kept([req[r] EXCEPT !.pc = "find"])
    BY <1>3 DEF Settled, Request
  <2> HIDE DEF Kept
  <2> QED
    BY <1>1, <1>7, <2>1 DEF TakeIndex
<1>8. CASE CreateVc(r)
  <2>1. ASSUME NEW c
        PROVE  Kept([req[r] EXCEPT !.vc = c, !.pc = IF req[r].offer = None THEN "commit" ELSE "accept"])
    BY <1>3 DEF Settled, Request
  <2>2. \/ Finish(r)
        \/ \E c : Put(r, [req[r] EXCEPT !.vc = c,
                                        !.pc = IF req[r].offer = None THEN "commit" ELSE "accept"])
    BY <1>8, Zenon DEF CreateVc
  <2> HIDE DEF Kept
  <2> QED
    BY <1>1, <1>4, <2>1, <2>2, Zenon
<1>9. CASE AcceptOffer(r)
  <2>1. Kept([req[r] EXCEPT !.pc = "commit", !.consumes = TRUE])
    BY <1>3 DEF Settled, Request
  <2> HIDE DEF Kept
  <2> QED
    BY <1>1, <1>9, <2>1 DEF AcceptOffer
<1>10. ASSUME NEW c \in Credential, RevokeStart(r, c)
       PROVE  /\ Settled(req[r])' /\ req'[r].offer \in {req[r].offer, None}
              /\ req'[r].session \in {req[r].session, None}
              /\ \A q \in Req : q # r => req'[q] = req[q]
  <2>1. Kept([Idle EXCEPT !.pc = "upsert", !.vc = c, !.list = vc[c].listId])
    BY DEF Settled, Idle
  <2> HIDE DEF Kept
  <2> QED
    BY <1>1, <1>10, <2>1 DEF RevokeStart
<1>11. CASE UpsertEntry(r)
  <2>1. Kept([req[r] EXCEPT !.pc = "entries", !.upserted = TRUE])
    BY <1>3 DEF Settled, Request
  <2> HIDE DEF Kept
  <2> QED
    BY <1>1, <1>11, <2>1 DEF UpsertEntry
<1>12. CASE ReadEntries(r)
  <2>1. ASSUME NEW bits PROVE Kept([req[r] EXCEPT !.pc = "encode", !.bits = bits])
    BY <1>3 DEF Settled, Request
  <2> HIDE DEF Kept
  <2> QED
    BY <1>1, <1>12, <2>1, Zenon DEF ReadEntries
<1>13. CASE EncodeList(r)
  <2>1. ~req[r].taken
    BY <1>3, <1>13 DEF EncodeList, Phase
  <2>2. Kept([req[r] EXCEPT !.pc = "commit", !.encodes = TRUE])
    BY <1>3, <2>1 DEF Settled, Request
  <2> HIDE DEF Kept
  <2> QED
    BY <1>1, <1>13, <2>2 DEF EncodeList
<1>14. CASE VerifyCredential(r)
  <2>1. Kept([req[r] EXCEPT !.pc = "consume"])
    BY <1>3 DEF Settled, Request
  <2> HIDE DEF Kept
  <2> QED
    BY <1>1, <1>2, <1>14, <2>1, Zenon DEF VerifyCredential, Finish
<1> QED
  BY <1>4, <1>5, <1>6, <1>7, <1>8, <1>9, <1>10, <1>11, <1>12, <1>13, <1>14
     DEF Issue, Revoke, Commit, Abort, ConsumeSession

\* A presentation begins with no offer, and with the session it has read.
LEMMA PresentOf ==
  ASSUME IndInv, NEW r \in Req, NEW v \in VerifySession, NEW c \in Credential, Present(r, v, c)
  PROVE  /\ Settled(req[r])' /\ req'[r].offer = None /\ req'[r].session = v
         /\ \A q \in Req : q # r => req'[q] = req[q]
<1>1. PICK x : x = [Idle EXCEPT !.pc = "verify", !.session = v, !.vc = c, !.dead = (c \in revoked)]
  OBVIOUS
<1>2. Settled(x) /\ x.offer = None /\ x.session = v
  BY <1>1 DEF Settled, Idle
<1>3. req' = [req EXCEPT ![r] = x]
  BY <1>1, Zenon DEF Present, Put
<1>4. req'[r] = x /\ \A q \in Req : q # r => req'[q] = req[q]
  BY <1>3 DEF IndInv, TypeOK
<1> QED
  BY <1>2, <1>4 DEF Settled

\* Which offer a request works on changes at its start and at its end only, and
\* the offer it starts on is pending.
LEMMA OfferOfStep ==
  ASSUME IndInv, OfferInv, [Next]_vars, NEW r \in Req
  PROVE  /\ Settled(req[r])'
         /\ \/ req'[r].offer \in {req[r].offer, None}
            \/ \E o \in Offer : offer[o] = "PENDING" /\ req'[r].offer = o
<1>1. Settled(req[r])
  BY DEF OfferInv
<1>2. CASE req'[r] = req[r]
  BY <1>1, <1>2 DEF Settled
<1>3. ASSUME NEW q \in Req, NEW o \in Offer, AcceptStart(q, o)
      PROVE  /\ Settled(req[r])'
             /\ \/ req'[r].offer \in {req[r].offer, None}
                \/ \E p \in Offer : offer[p] = "PENDING" /\ req'[r].offer = p
  <2>1. PICK x : x = [Idle EXCEPT !.pc = "find", !.offer = o]
    OBVIOUS
  <2>2. Settled(x) /\ x.offer = o
    BY <2>1 DEF Settled, Idle
  <2>3. req' = [req EXCEPT ![q] = x] /\ offer[o] = "PENDING"
    BY <1>3, <2>1 DEF AcceptStart, Put
  <2>4. CASE r = q
    <3>1. req'[r] = x
      BY <2>3, <2>4 DEF IndInv, TypeOK
    <3> QED
      BY <2>2, <2>3, <3>1 DEF Settled
  <2>5. CASE r # q
    <3>1. req'[r] = req[r]
      BY <2>3, <2>5 DEF IndInv, TypeOK
    <3> QED
      BY <1>2, <3>1
  <2> QED
    BY <2>4, <2>5
<1>4. ASSUME NEW q \in Req,
             \/ Issue(q) \/ AcceptOffer(q) \/ Revoke(q) \/ Commit(q) \/ Abort(q)
             \/ VerifyCredential(q) \/ ConsumeSession(q)
      PROVE  /\ Settled(req[r])'
             /\ \/ req'[r].offer \in {req[r].offer, None}
                \/ \E p \in Offer : offer[p] = "PENDING" /\ req'[r].offer = p
  <2>1. CASE r = q
    BY <1>4, <2>1, OfferOfRequest
  <2>2. CASE r # q
    <3>1. req'[r] = req[r]
      BY <1>4, <2>2, OfferOfRequest
    <3> QED
      BY <1>2, <3>1
  <2> QED
    BY <2>1, <2>2
<1>5. CASE \/ \E o \in Offer : CreateOffer(o) \/ ExpireOffer(o)
           \/ \E v \in VerifySession : CreateSession(v) \/ ExpireSession(v)
           \/ RevokeSigningKey \/ UNCHANGED vars
  <2>1. req' = req
    BY <1>5 DEF CreateOffer, ExpireOffer, CreateSession, ExpireSession, RevokeSigningKey, vars
  <2> QED
    BY <1>2, <2>1
<1>6. ASSUME NEW q \in Req, NEW v \in VerifySession, NEW c \in Credential, Present(q, v, c)
      PROVE  Settled(req[r])' /\ req'[r].offer \in {req[r].offer, None}
  <2>1. CASE r = q
    BY <1>6, <2>1, PresentOf
  <2>2. CASE r # q
    <3>1. req'[r] = req[r]
      BY <1>6, <2>2, PresentOf
    <3> QED
      BY <1>2, <3>1
  <2> QED
    BY <2>1, <2>2
<1> QED
  BY <1>3, <1>4, <1>5, <1>6 DEF Next, Offers

\* Credentials are inserted by a commit, and without one no offer loses its mark.
LEMMA OnlyCommits ==
  ASSUME IndInv, [Next]_vars, ~ \E r \in Req : Commit(r)
  PROVE  vc' = vc /\ \A o \in Offer : offer[o] = "ACCEPTED" => offer'[o] = "ACCEPTED"
<1>1. ASSUME NEW r \in Req, Issue(r) \/ Revoke(r)
      PROVE  vc' = vc /\ offer' = offer
  <2>1. CASE Issue(r)
    BY <2>1, Zenon DEF Issue, IssueStart, FindList, TakeIndex, CreateVc, rows
  <2>2. CASE UpsertEntry(r)
    BY <2>2 DEF UpsertEntry
  <2>3. CASE (\E c \in Credential : RevokeStart(r, c)) \/ ReadEntries(r) \/ EncodeList(r)
    BY <2>3, Zenon DEF RevokeStart, ReadEntries, EncodeList, rows
  <2> QED
    BY <1>1, <2>1, <2>2, <2>3 DEF Revoke
<1>2. ASSUME NEW r \in Req, AcceptOffer(r) \/ Abort(r) \/ VerifyCredential(r) \/ ConsumeSession(r)
      PROVE  vc' = vc /\ offer' = offer
  BY <1>2 DEF AcceptOffer, Abort, VerifyCredential, ConsumeSession, rows
<1>3. ASSUME NEW r \in Req, NEW v \in VerifySession, NEW c \in Credential, Present(r, v, c)
      PROVE  vc' = vc /\ offer' = offer
  BY <1>3 DEF Present
<1>4. ASSUME NEW o \in Offer, Offers(o) \/ ExpireOffer(o)
      PROVE  vc' = vc /\ \A p \in Offer : offer[p] = "ACCEPTED" => offer'[p] = "ACCEPTED"
  BY <1>4 DEF Offers, CreateOffer, ExpireOffer, AcceptStart, rows, IndInv, TypeOK
<1>5. CASE \/ \E v \in VerifySession : CreateSession(v) \/ ExpireSession(v)
           \/ RevokeSigningKey \/ UNCHANGED vars
  BY <1>5 DEF CreateSession, ExpireSession, RevokeSigningKey, vars
<1> QED
  BY <1>1, <1>2, <1>3, <1>4, <1>5 DEF Next

\* Rows of credentials and offers change with a commit only, which inserts the
\* credential of an offer and marks the offer at once.
LEMMA OfferStep ==
  ASSUME IndInv, IndInv', OfferInv, [Next]_vars
  PROVE  OfferInv'
<1>1. \A r \in Req : Settled(req[r])'
  BY OfferOfStep
<1>2. ASSUME NEW c \in Credential, vc[c].issued, vc[c].offer # None
      PROVE  vc[c].offer \in Offer /\ offer[vc[c].offer] = "ACCEPTED"
  BY <1>2 DEF IndInv, TypeOK, OfferInv
<1>3. ASSUME NEW r \in Req, Commit(r), NEW c \in Credential, vc'[c].issued, vc'[c].offer # None
      PROVE  offer'[vc'[c].offer] = "ACCEPTED"
  <2>1. PICK y : y = req[r]
    OBVIOUS
  <2>2. y \in Request /\ Fits(y) /\ y.pc = "commit" /\ Settled(y)
    BY <1>3, <2>1, Read DEF Commit, OfferInv
  <2>3. offer' = IF y.consumes THEN [offer EXCEPT ![y.offer] = "ACCEPTED"] ELSE offer
    BY <1>3, <2>1 DEF Commit
  <2>4. y.consumes => y.offer \in Offer
    BY <2>2 DEF Fits, Phase
  <2>5. \A o \in Offer : offer[o] = "ACCEPTED" => offer'[o] = "ACCEPTED"
    BY <2>3 DEF IndInv, TypeOK
  <2>6. CASE vc'[c] = vc[c]
    BY <1>2, <1>3, <2>5, <2>6
  <2>7. CASE vc'[c] # vc[c]
    <3>1. y.taken /\ vc' = [vc EXCEPT ![y.vc] = NewVc(r)]
      BY <1>3, <2>1, <2>7 DEF Commit
    <3>2. c = y.vc /\ vc'[c] = NewVc(r)
      BY <2>7, <3>1 DEF IndInv, TypeOK
    <3>3. vc'[c].offer = y.offer
      BY <2>1, <3>2 DEF NewVc
    <3>4. y.consumes /\ y.offer \in Offer
      BY <1>3, <2>2, <2>4, <3>1, <3>3 DEF Settled
    <3> QED
      BY <2>3, <3>3, <3>4 DEF IndInv, TypeOK
  <2> QED
    BY <2>6, <2>7
<1>4. (~ \E r \in Req : Commit(r))
      => vc' = vc /\ \A o \in Offer : offer[o] = "ACCEPTED" => offer'[o] = "ACCEPTED"
  BY OnlyCommits
<1>5. ASSUME NEW c \in Credential, vc'[c].issued, vc'[c].offer # None
      PROVE  offer'[vc'[c].offer] = "ACCEPTED"
  BY <1>2, <1>3, <1>4, <1>5
<1> QED
  BY <1>1, <1>5 DEF OfferInv

\* The offer invariant holds in every reachable state.
LEMMA OfferInvariance == Spec => []OfferInv
<1>1. Init => OfferInv
  BY DEF Init, OfferInv, Settled, NoVc, Idle
<1>2. IndInv /\ IndInv' /\ OfferInv /\ [Next]_vars => OfferInv'
  BY OfferStep
<1> QED
  BY Invariance, <1>1, <1>2, PTL DEF Spec

\* The flow checks the offer before it issues and marks it in the transaction
\* that inserts the credential: an offer that has yielded one is never accepted
\* again.  (Two acceptances that overlap each yield one: see OfferIssuesOnce.)
THEOREM OffersClose == Spec => OfferClosed
<1>1. IndInv /\ OfferInv /\ [Next]_vars
      => [\A r \in Req : req[r].offer = None /\ req'[r].offer # None =>
            \A c \in Credential : vc[c].issued => vc[c].offer # req'[r].offer]_vars
  <2> SUFFICES ASSUME IndInv, OfferInv, [Next]_vars, NEW r \in Req,
                      req[r].offer = None, req'[r].offer # None,
                      NEW c \in Credential, vc[c].issued
               PROVE  vc[c].offer # req'[r].offer
    OBVIOUS
  <2>1. PICK o \in Offer : offer[o] = "PENDING" /\ req'[r].offer = o
    BY OfferOfStep
  <2> QED
    BY <2>1, CredentialAssumption DEF OfferInv
<1> QED
  BY Invariance, OfferInvariance, <1>1, PTL DEF Spec, OfferClosed

-----------------------------------------------------------------------------
\* The refinement of StatusRegistry.

\* Commit of an issuance, seen as a step of the registry: the slot is the next
\* one of the list although the count was read before, and the bits stay.
LEMMA IssueCommitRefines ==
  ASSUME IndInv, NEW r \in Req, Commit(r), req[r].taken
  PROVE  Registry!Next
<1>1. PICK y : y = req[r]
  OBVIOUS
<1>2. y \in Request /\ Fits(y) /\ y.pc = "commit" /\ y.taken
  BY <1>1, Read DEF Commit
<1>3. /\ y.list \in List /\ y.seen \in 0..MaxSize /\ y.seen < MaxSize
      /\ y.vc \in Credential /\ ~vc[y.vc].issued /\ ~y.upserted /\ ~y.encodes
      /\ list[y.list].issuedCount = y.seen
  BY <1>2 DEF Fits, Phase, Revokes, OnVc, OnList, Request
<1>4. PICK w : w = [exists |-> TRUE, issuedCount |-> y.seen + 1,
                    encodedList |-> list[y.list].encodedList]
  OBVIOUS
<1>5. PICK n : n = [issued |-> TRUE, listId |-> y.list, index |-> y.seen, offer |-> y.offer]
  OBVIOUS
<1>6. Written(r) = w /\ NewVc(r) = n
  BY <1>1, <1>2, <1>3, <1>4, <1>5 DEF Written, NewVc
<1>7. /\ list' = [list EXCEPT ![y.list] = w] /\ vc' = [vc EXCEPT ![y.vc] = n]
      /\ UNCHANGED <<revoked, raced>>
  BY <1>1, <1>2, <1>3, <1>6 DEF Commit
<1>8. /\ list'[y.list] = w /\ \A l \in List : l # y.list => list'[l] = list[l]
      /\ vc'[y.vc] = n /\ \A c \in Credential : c # y.vc => vc'[c] = vc[c]
  BY <1>3, <1>7 DEF IndInv, TypeOK
<1>9. Slot[y.vc] = None /\ Slot' = [Slot EXCEPT ![y.vc] = <<y.list, y.seen>>]
  <2>1. ASSUME NEW c \in Credential
        PROVE  Slot'[c] = IF c = y.vc THEN <<y.list, y.seen>> ELSE Slot[c]
    BY <1>5, <1>8 DEF Slot
  <2> QED
    BY <1>3, <2>1 DEF Slot
<1>10. [l \in List |-> list[l].issuedCount]'
       = [[l \in List |-> list[l].issuedCount] EXCEPT ![y.list] = @ + 1]
  BY <1>3, <1>4, <1>8
<1>11. [l \in List |-> list[l].encodedList]' = [l \in List |-> list[l].encodedList]
  BY <1>4, <1>8
<1>12. Registry!Issue(y.vc, y.list)
  BY <1>3, <1>7, <1>9, <1>10, <1>11 DEF Registry!Issue
<1> QED
  BY <1>3, <1>12 DEF Registry!Next

\* Commit of a revocation: its own bit is among those it shows, all are of
\* revoked credentials of the list, and unless another revocation has overlapped
\* the bits shown before are among them.
LEMMA RevokeCommitRefines ==
  ASSUME IndInv, NEW r \in Req, Commit(r), ~req[r].taken
  PROVE  Registry!Next
<1>1. PICK y : y = req[r]
  OBVIOUS
<1>2. y \in Request /\ Fits(y) /\ y.pc = "commit" /\ ~y.taken /\ Revokes(y)
  BY <1>1, Read DEF Commit, Revokes
<1>3. /\ y.list \in List /\ y.vc \in Credential /\ vc[y.vc].issued /\ y.list = vc[y.vc].listId
      /\ y.upserted /\ y.encodes /\ ~y.consumes
  BY <1>2 DEF Fits, Phase, Revokes, OnVc, IndInv, Slots
<1>4. y.bits \subseteq Index /\ list[y.list].issuedCount \in 0..MaxSize
  BY <1>2, <1>3 DEF Request, IndInv, TypeOK
<1>5. /\ vc[y.vc].index \in y.bits
      /\ \A i \in y.bits \ {vc[y.vc].index} :
           \E c \in revoked : vc[c].listId = y.list /\ vc[c].index = i
      /\ y.list \notin raced =>
           \A c \in revoked : vc[c].listId = y.list => vc[c].index \in y.bits
  BY <1>2, <1>3 DEF Fits, OnBits
<1>6. PICK w : w = [exists |-> TRUE, issuedCount |-> list[y.list].issuedCount,
                    encodedList |-> y.bits]
  OBVIOUS
<1>7. Written(r) = w
  <2>1. list[y.list].issuedCount + (IF y.taken THEN 1 ELSE 0) = list[y.list].issuedCount
    BY <1>2, <1>4
  <2>2. (IF y.encodes THEN y.bits ELSE list[y.list].encodedList) = y.bits
    BY <1>3
  <2> QED
    BY <1>1, <1>6, <2>1, <2>2 DEF Written
<1>8. /\ list' = [list EXCEPT ![y.list] = w] /\ revoked' = revoked \cup {y.vc}
      /\ UNCHANGED <<vc, raced>>
  BY <1>1, <1>2, <1>3, <1>7 DEF Commit
<1>9. list'[y.list] = w /\ \A l \in List : l # y.list => list'[l] = list[l]
  BY <1>3, <1>8 DEF IndInv, TypeOK
<1>10. /\ Slot' = Slot
       /\ [l \in List |-> list[l].issuedCount]' = [l \in List |-> list[l].issuedCount]
       /\ [l \in List |-> list[l].encodedList]'
          = [[l \in List |-> list[l].encodedList] EXCEPT ![y.list] = y.bits]
  <2>1. Slot' = Slot
    BY <1>8 DEF Slot
  <2>2. \A l \in List : list'[l].issuedCount = list[l].issuedCount
    BY <1>6, <1>9
  <2>3. \A l \in List : list'[l].encodedList = IF l = y.list THEN y.bits ELSE list[l].encodedList
    BY <1>6, <1>9
  <2> QED
    BY <1>3, <2>1, <2>2, <2>3
<1>11. \A c \in revoked : c \in Credential /\ vc[c].issued
  BY DEF IndInv, Entries, TypeOK
<1>12. \A c \in Credential : vc[c].issued => Slot[c] = <<vc[c].listId, vc[c].index>>
  BY DEF Slot
<1>13. \A i \in y.bits : \E c \in revoked' : Slot'[c] = <<y.list, i>>
  <2> SUFFICES ASSUME NEW i \in y.bits PROVE \E c \in revoked \cup {y.vc} : Slot[c] = <<y.list, i>>
    BY <1>8, <1>10
  <2>1. CASE i = vc[y.vc].index
    BY <1>3, <1>12, <2>1
  <2>2. CASE i # vc[y.vc].index
    <3>1. PICK c \in revoked : vc[c].listId = y.list /\ vc[c].index = i
      BY <1>5, <2>2
    <3> QED
      BY <1>11, <1>12, <3>1
  <2> QED
    BY <2>1, <2>2
<1>14. y.list \in raced \/ list[y.list].encodedList \subseteq y.bits
  BY <1>3, <1>5 DEF IndInv, NoFalseRevocation
<1>15. Registry!Revoke(y.vc, y.list, y.bits)
  <2>1. \E i \in y.bits : Slot[y.vc] = <<y.list, i>>
    BY <1>3, <1>5, <1>12
  <2>2. y.list \in raced \/ [l \in List |-> list[l].encodedList][y.list] \subseteq y.bits
    BY <1>3, <1>14
  <2> QED
    BY <1>8, <1>10, <1>13, <2>1, <2>2 DEF Registry!Revoke
<1>16. y.bits \in SUBSET Registry!Index
  BY <1>4 DEF Index, Registry!Index
<1> QED
  BY <1>3, <1>15, <1>16 DEF Registry!Next

\* Everything else is a stutter of the registry, but for the first entry of a
\* revocation that overlaps another one.
LEMMA RegistryStep == IndInv /\ [Next]_vars => [Registry!Next]_(Registry!vars)
<1> SUFFICES ASSUME IndInv, [Next]_vars PROVE [Registry!Next]_(Registry!vars)
  OBVIOUS
<1>1. ASSUME list' = list, vc' = vc, revoked' = revoked, raced' = raced
      PROVE  UNCHANGED Registry!vars
  BY <1>1 DEF Registry!vars, Slot
<1>2. ASSUME NEW r \in Req, Issue(r)
      PROVE  list' = list /\ vc' = vc /\ revoked' = revoked /\ raced' = raced
  BY <1>2, Zenon DEF Issue, IssueStart, FindList, TakeIndex, CreateVc, rows
<1>3. ASSUME NEW r \in Req, Revoke(r), ~UpsertEntry(r)
      PROVE  list' = list /\ vc' = vc /\ revoked' = revoked /\ raced' = raced
  <2>1. (\E c \in Credential : RevokeStart(r, c)) \/ ReadEntries(r) \/ EncodeList(r)
    BY <1>3 DEF Revoke
  <2> QED
    BY <2>1, Zenon DEF RevokeStart, ReadEntries, EncodeList, rows
<1>4. ASSUME NEW r \in Req, UpsertEntry(r) PROVE [Registry!Next]_(Registry!vars)
  <2>1. PICK S : S = {l \in List : /\ l = req[r].list
                                   /\ \E q \in Req \ {r} : req[q].upserted /\ req[q].list = l}
    OBVIOUS
  <2>2. raced' = raced \cup S /\ UNCHANGED <<list, vc, revoked>>
    BY <1>4, <2>1 DEF UpsertEntry
  <2>3. CASE S = {}
    BY <1>1, <2>2, <2>3
  <2>4. CASE S # {}
    <3>1. PICK l \in List : S = {l}
      BY <2>1, <2>4
    <3>2. Registry!Overlap(l)
      BY <2>2, <3>1 DEF Registry!Overlap, Slot
    <3> QED
      BY <3>2 DEF Registry!Next
  <2> QED
    BY <2>3, <2>4
<1>5. ASSUME NEW r \in Req, Commit(r) PROVE Registry!Next
  BY <1>5, IssueCommitRefines, RevokeCommitRefines
<1>6. ASSUME NEW r \in Req, AcceptOffer(r) \/ Abort(r) \/ VerifyCredential(r) \/ ConsumeSession(r)
      PROVE  list' = list /\ vc' = vc /\ revoked' = revoked /\ raced' = raced
  BY <1>6 DEF AcceptOffer, Abort, VerifyCredential, ConsumeSession, rows
<1>7. ASSUME NEW r \in Req, NEW v \in VerifySession, NEW c \in Credential, Present(r, v, c)
      PROVE  list' = list /\ vc' = vc /\ revoked' = revoked /\ raced' = raced
  BY <1>7 DEF Present
<1>8. ASSUME NEW o \in Offer, Offers(o) \/ ExpireOffer(o)
      PROVE  list' = list /\ vc' = vc /\ revoked' = revoked /\ raced' = raced
  BY <1>8 DEF Offers, CreateOffer, ExpireOffer, AcceptStart, rows
<1>9. CASE \/ \E v \in VerifySession : CreateSession(v) \/ ExpireSession(v)
           \/ RevokeSigningKey \/ UNCHANGED vars
  <2>1. list' = list /\ vc' = vc /\ revoked' = revoked /\ raced' = raced
    BY <1>9 DEF CreateSession, ExpireSession, RevokeSigningKey, vars
  <2> QED
    BY <1>1, <2>1
<1> QED
  BY <1>1, <1>2, <1>3, <1>4, <1>5, <1>6, <1>7, <1>8, <1>9 DEF Next

\* Locks, retries of allocateIndex, failures and uncommitted writes do not show:
\* every commit is one issuance into the next slot of a list or one revocation.
THEOREM ListsAreRegistry == Spec => ListRegistry
<1>1. Init => Registry!Init
  BY DEF Init, Registry!Init, Slot, NoVc, NoList
<1>2. IndInv /\ [Next]_vars => [Registry!Next]_(Registry!vars)
  BY RegistryStep
<1> QED
  BY Invariance, <1>1, <1>2, PTL DEF Spec, ListRegistry, Registry!Spec

-----------------------------------------------------------------------------
\* Presentations.

\* The requests that have read session v and not ended, and with them the
\* presentations it has accepted.
Holders(v) == {r \in Req : req[r].session = v}
PresentRoom ==
  \A v \in VerifySession : accepted[v] + Cardinality(Holders(v)) <= Cardinality(Req)

\* Holders are requests, so they are finitely many.
LEMMA HoldersFinite ==
  ASSUME NEW v \in VerifySession
  PROVE  /\ IsFiniteSet(Holders(v)) /\ Cardinality(Holders(v)) \in Nat
         /\ Cardinality(Holders(v)) <= Cardinality(Req) /\ Cardinality(Req) \in Nat
<1>1. Holders(v) \in SUBSET Req
  BY DEF Holders
<1> QED
  BY <1>1, CredentialAssumption, FS_Subset, FS_CardinalityType

\* Whoever reads a session reads it before the first presentation is accepted,
\* and whoever is accepted holds it no more.
LEMMA RoomStep ==
  ASSUME IndInv, OfferInv, PresentRoom, [Next]_vars
  PROVE  PresentRoom'
<1>1. ASSUME accepted' = accepted, NEW v \in VerifySession, Holders(v)' \subseteq Holders(v)
      PROVE  (accepted[v] + Cardinality(Holders(v)) <= Cardinality(Req))'
  <2>1. Cardinality(Holders(v)') <= Cardinality(Holders(v)) /\ Cardinality(Holders(v)') \in Nat
    BY <1>1, HoldersFinite, FS_Subset, FS_CardinalityType
  <2> QED
    BY <1>1, <2>1, HoldersFinite DEF PresentRoom, IndInv, TypeOK
<1>2. ASSUME NEW r \in Req,
             \/ Issue(r) \/ AcceptOffer(r) \/ Revoke(r) \/ Commit(r) \/ Abort(r)
             \/ VerifyCredential(r)
      PROVE  PresentRoom'
  <2>1. accepted' = accepted
    <3>1. CASE Issue(r) \/ AcceptOffer(r) \/ Abort(r) \/ VerifyCredential(r)
      BY <3>1, Zenon DEF Issue, IssueStart, FindList, TakeIndex, CreateVc, AcceptOffer, Abort,
                         VerifyCredential, rows, presentation
    <3>2. CASE Revoke(r)
      BY <3>2, Zenon DEF Revoke, RevokeStart, UpsertEntry, ReadEntries, EncodeList, rows, presentation
    <3>3. CASE Commit(r)
      BY <3>3, Zenon DEF Commit, presentation
    <3> QED
      BY <1>2, <3>1, <3>2, <3>3
  <2>2. ASSUME NEW v \in VerifySession PROVE Holders(v)' \subseteq Holders(v)
    BY <1>2, OfferOfRequest, CredentialAssumption DEF Holders
  <2> QED
    BY <1>1, <2>1, <2>2 DEF PresentRoom
<1>3. ASSUME NEW r \in Req, NEW v \in VerifySession, NEW c \in Credential, Present(r, v, c)
      PROVE  PresentRoom'
  <2>1. accepted' = accepted /\ accepted[v] = 0
    BY <1>3 DEF Present, IndInv, Sessions, TypeOK
  <2>2. ASSUME NEW w \in VerifySession, w # v PROVE Holders(w)' \subseteq Holders(w)
    BY <1>3, <2>2, PresentOf DEF Holders
  <2>3. (accepted[v] + Cardinality(Holders(v)) <= Cardinality(Req))'
    <3>1. Holders(v)' \in SUBSET Req
      BY DEF Holders
    <3>2. Cardinality(Holders(v)') <= Cardinality(Req) /\ Cardinality(Holders(v)') \in Nat
      BY <3>1, CredentialAssumption, FS_Subset, FS_CardinalityType
    <3> QED
      BY <2>1, <3>2
  <2> QED
    BY <1>1, <2>1, <2>2, <2>3 DEF PresentRoom
<1>4. ASSUME NEW r \in Req, ConsumeSession(r) PROVE PresentRoom'
  <2>1. PICK v \in VerifySession : v = req[r].session
    BY <1>4, Read DEF ConsumeSession, Fits, Phase, Request
  <2>2. /\ accepted' = [accepted EXCEPT ![v] = @ + 1] /\ req' = [req EXCEPT ![r] = Idle]
        /\ accepted \in [VerifySession -> Nat]
    BY <1>4, <2>1 DEF ConsumeSession, Finish, Put, IndInv, TypeOK
  <2>3. r \in Holders(v) /\ \A w \in VerifySession : Holders(w)' \subseteq Holders(w) \ {r}
    BY <2>1, <2>2, CredentialAssumption DEF Holders, Idle, IndInv, TypeOK
  <2>4. ASSUME NEW w \in VerifySession
        PROVE  (accepted[w] + Cardinality(Holders(w)) <= Cardinality(Req))'
    <3>1. IsFiniteSet(Holders(w) \ {r}) /\ Cardinality(Holders(w) \ {r}) \in Nat
      BY HoldersFinite, FS_RemoveElement, FS_CardinalityType
    <3>2. /\ Cardinality(Holders(w)') <= Cardinality(Holders(w) \ {r})
          /\ Cardinality(Holders(w)') \in Nat
      BY <2>3, <3>1, FS_Subset, FS_CardinalityType
    <3>3. Cardinality(Holders(w) \ {r}) = IF r \in Holders(w) THEN Cardinality(Holders(w)) - 1
                                          ELSE Cardinality(Holders(w))
      BY HoldersFinite, FS_RemoveElement
    <3>4. accepted[w] + Cardinality(Holders(w)) <= Cardinality(Req)
      BY DEF PresentRoom
    <3>5. accepted'[w] = IF w = v THEN accepted[w] + 1 ELSE accepted[w]
      BY <2>2
    <3> QED
      BY <2>2, <2>3, <3>2, <3>3, <3>4, <3>5, HoldersFinite
  <2> QED
    BY <2>4 DEF PresentRoom
<1>5. ASSUME UNCHANGED <<accepted, req>> PROVE PresentRoom'
  BY <1>5 DEF PresentRoom, Holders
<1>6. ASSUME NEW o \in Offer, Offers(o) \/ ExpireOffer(o) PROVE PresentRoom'
  <2>1. CASE CreateOffer(o) \/ ExpireOffer(o)
    BY <1>5, <2>1 DEF CreateOffer, ExpireOffer, presentation
  <2>2. ASSUME NEW r \in Req, AcceptStart(r, o) PROVE PresentRoom'
    <3>1. PICK x : x = [Idle EXCEPT !.pc = "find", !.offer = o]
      OBVIOUS
    <3>2. req' = [req EXCEPT ![r] = x] /\ accepted' = accepted /\ x.session = None
      BY <2>2, <3>1 DEF AcceptStart, Put, rows, presentation, Idle
    <3>3. ASSUME NEW v \in VerifySession PROVE Holders(v)' \subseteq Holders(v)
      BY <3>2, CredentialAssumption DEF Holders, IndInv, TypeOK
    <3> QED
      BY <1>1, <3>2, <3>3 DEF PresentRoom
  <2> QED
    BY <1>6, <2>1, <2>2 DEF Offers
<1>7. CASE (\E v \in VerifySession : CreateSession(v) \/ ExpireSession(v)) \/ RevokeSigningKey
            \/ UNCHANGED vars
  BY <1>5, <1>7 DEF CreateSession, ExpireSession, RevokeSigningKey, vars, presentation
<1> QED
  BY <1>2, <1>3, <1>4, <1>6, <1>7 DEF Next

\* A verification session is accepted once unless two requests held it, and then
\* no more often than there are requests: nobody reads it once it is marked.
THEOREM PresentationsAreBounded == Spec => []PresentationsBounded
<1>1. Init => PresentRoom
  <2>1. ASSUME Init, NEW v \in VerifySession PROVE accepted[v] = 0
    BY <2>1 DEF Init
  <2> QED
    BY <2>1, HoldersFinite DEF PresentRoom
<1>2. IndInv /\ OfferInv /\ PresentRoom /\ [Next]_vars => PresentRoom'
  BY RoomStep
<1>3. IndInv /\ PresentRoom => PresentationsBounded
  BY HoldersFinite DEF IndInv, TypeOK, Sessions, PresentRoom, PresentationsBounded
<1> QED
  BY Invariance, OfferInvariance, <1>1, <1>2, <1>3, PTL DEF Spec
=============================================================================
