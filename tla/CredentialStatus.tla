--------------------------- MODULE CredentialStatus ---------------------------
(***************************************************************************)
(* Verifiable credentials and the bitstring status lists they point into:  *)
(* issuance and offer acceptance allocate an index, revocation re-encodes  *)
(* the list, and a verifier asks for a presentation and accepts it or not.  *)
(* Issuance, acceptance and revocation run inside the transaction of       *)
(* FlowExecutor, at READ COMMITTED (the nested $transaction of issuance is *)
(* a savepoint); a presentation has none.                                  *)
(*                                                                         *)
(* Committed rows are list, entry, vc and offer.  What an open transaction *)
(* has written is in req[r]; the rows it has written are locked until it   *)
(* ends, and an UPDATE waits and then looks at its WHERE again.  The       *)
(* encoded list is the set of indexes whose bit is 1.                      *)
(***************************************************************************)
EXTENDS Naturals, FiniteSets

CONSTANTS
  Credential,   \* credentials that may be issued (the bound on issuance)
  Offer,        \* credential offers
  VerifySession, \* verification sessions that may be created (a bound)
  Req,          \* requests the server handles at the same time
  None,         \* SQL NULL
  MaxSize,      \* BitstringStatusList.maxSize
  ListBound,    \* number of status lists that may be created
  Together      \* the sets of areas that one behaviour works on (a bound)

ASSUME CredentialAssumption ==
  /\ MaxSize \in Nat \ {0} /\ ListBound \in Nat
  /\ Together \subseteq SUBSET {"offer", "present"}
  /\ None \notin Credential \cup Offer \cup VerifySession \cup Nat
  /\ IsFiniteSet(Req)

\* Lists are numbered in the order of createdAt.
List == 1..ListBound
Index == 0..(MaxSize - 1)

VARIABLES
  areas,    \* what there is besides issuance and revocation, never changed
  signingKey, \* status of the issuing tenant's TenantSigningKey row
  list,     \* committed BitstringStatusList rows
  entry,    \* committed StatusListEntry rows with value 1, as <<list, index>>
  vc,       \* committed VerifiableCredential rows
  offer,    \* status of the CredentialOffer rows
  verifySession, \* status of the VerifySession rows
  req,      \* requests in progress, with their uncommitted writes
  revoked,  \* history: credentials a finished revocation was about
  raced,    \* history: lists on which two revocations have overlapped
  accepted, \* history: presentations accepted by each verification session
  shared,   \* history: sessions on which two presentations have overlapped
  fooled    \* history: credentials accepted that had been revoked before they were presented

issuer == <<areas, signingKey>>
presentation == <<issuer, verifySession, accepted, shared, fooled>>
vars == <<list, entry, vc, offer, req, revoked, raced, presentation>>

NoList == [exists |-> FALSE, issuedCount |-> 0, encodedList |-> {}]

NoVc == [issued |-> FALSE, listId |-> None, index |-> 0, offer |-> None]

\* One request: what it has read (list, seen, bits, offer) and what its open
\* transaction has written: the created list, the increment (taken), the
\* credential, the offer (consumes), the entry (upserted), the list (encodes).
\* dead is history: the credential it presents was revoked before.
Idle == [pc |-> "idle", offer |-> None, vc |-> None, list |-> None, seen |-> 0,
         created |-> FALSE, taken |-> FALSE, consumes |-> FALSE,
         upserted |-> FALSE, bits |-> {}, encodes |-> FALSE, session |-> None, dead |-> FALSE]

Request ==
  [pc: {"idle", "find", "cas", "create", "accept", "upsert", "entries", "encode", "commit",
        "verify", "consume"},
   offer: Offer \cup {None}, vc: Credential \cup {None}, list: List \cup {None},
   seen: 0..MaxSize, created: BOOLEAN, taken: BOOLEAN, consumes: BOOLEAN,
   upserted: BOOLEAN, bits: SUBSET Index, encodes: BOOLEAN,
   session: VerifySession \cup {None}, dead: BOOLEAN]

TypeOK ==
  /\ areas \in Together /\ signingKey \in {"ACTIVE", "REVOKED"}
  /\ list \in [List -> [exists: BOOLEAN, issuedCount: 0..MaxSize, encodedList: SUBSET Index]]
  /\ entry \subseteq List \X Index
  /\ vc \in [Credential -> [issued: BOOLEAN, listId: List \cup {None}, index: Index,
                            offer: Offer \cup {None}]]
  /\ offer \in [Offer -> {"none", "PENDING", "ACCEPTED", "EXPIRED"}]
  /\ req \in [Req -> Request]
  /\ revoked \subseteq Credential
  /\ raced \subseteq List
  /\ verifySession \in [VerifySession -> {"none", "PENDING", "CONSUMED", "EXPIRED"}]
  /\ accepted \in [VerifySession -> Nat]
  /\ shared \subseteq VerifySession /\ fooled \subseteq Credential

\* The issuer's DID and key are there, as provisionTenantDidFlow writes them.
Init ==
  /\ areas \in Together /\ signingKey = "ACTIVE"
  /\ list = [l \in List |-> NoList]
  /\ entry = {}
  /\ vc = [c \in Credential |-> NoVc]
  /\ offer = [o \in Offer |-> "none"]
  /\ req = [r \in Req |-> Idle]
  /\ revoked = {}
  /\ raced = {}
  /\ verifySession = [v \in VerifySession |-> "none"]
  /\ accepted = [v \in VerifySession |-> 0]
  /\ shared = {} /\ fooled = {}

-----------------------------------------------------------------------------
rows == <<list, entry, vc, offer, revoked, raced, presentation>>

Put(r, x) == req' = [req EXCEPT ![r] = x]
Finish(r) == Put(r, Idle)

\* No other transaction holds the row of list l, of offer o, of the entry of c.
ListFree(r, l) ==
  \A q \in Req \ {r} : ~(req[q].list = l /\ (req[q].taken \/ req[q].encodes))
OfferFree(r, o) == \A q \in Req \ {r} : ~(req[q].offer = o /\ req[q].consumes)
EntryFree(r, c) == \A q \in Req \ {r} : ~(req[q].vc = c /\ req[q].upserted)

\* The lists r can see: the committed ones and the one it has created itself.
Visible(r) == {l \in List : list[l].exists \/ (req[r].created /\ req[r].list = l)}

\* The number of the next list that is created.
Used(l) == list[l].exists \/ \E q \in Req : req[q].created /\ req[q].list = l
NextList == {l \in List : /\ \A m \in l..ListBound : ~Used(m)
                          /\ l > 1 => Used(l - 1)}

-----------------------------------------------------------------------------
\* issueCredentialFlow, by itself ...
IssueStart(r) ==
  /\ req[r].pc = "idle"
  /\ Put(r, [Idle EXCEPT !.pc = "find"])
  /\ UNCHANGED rows

CreateOffer(o) ==
  /\ "offer" \in areas /\ offer[o] = "none"
  /\ offer' = [offer EXCEPT ![o] = "PENDING"]
  /\ UNCHANGED <<list, entry, vc, req, revoked, raced, presentation>>

\* expiresAt has passed (the status column keeps PENDING; the flow compares).
ExpireOffer(o) ==
  /\ offer[o] = "PENDING"
  /\ offer' = [offer EXCEPT ![o] = "EXPIRED"]
  /\ UNCHANGED <<list, entry, vc, req, revoked, raced, presentation>>

\* ... or from createAcceptFlow, which has checked the offer before.
AcceptStart(r, o) ==
  /\ req[r].pc = "idle"
  /\ offer[o] = "PENDING"
  /\ Put(r, [Idle EXCEPT !.pc = "find", !.offer = o])
  /\ UNCHANGED rows

\* allocateIndex looks at the oldest list only; if that is full, or there is
\* none, it creates one.
FindList(r) ==
  LET Oldest == {l \in Visible(r) : \A m \in Visible(r) : l <= m}
  IN /\ req[r].pc = "find"
     /\ \/ \E l \in Oldest :
             /\ list[l].issuedCount < MaxSize
             /\ Put(r, [req[r] EXCEPT !.pc = "cas", !.list = l, !.seen = list[l].issuedCount])
        \/ /\ \A l \in Oldest : list[l].issuedCount >= MaxSize
           /\ \E l \in NextList :
                Put(r, [req[r] EXCEPT !.pc = "cas", !.list = l, !.seen = 0, !.created = TRUE])
     /\ UNCHANGED rows

\* Mutant: the increment is not conditional on the count that was read.
TakeIndexBlind(r) ==
  /\ req[r].pc = "cas"
  /\ ListFree(r, req[r].list)
  /\ Put(r, [req[r] EXCEPT !.pc = "create", !.taken = TRUE])
  /\ UNCHANGED rows

\* updateMany where id and issuedCount = seen; when that matches no row, start
\* over in the same transaction.
TakeIndex(r) ==
  /\ req[r].pc = "cas"
  /\ ListFree(r, req[r].list)
  /\ IF list[req[r].list].issuedCount = req[r].seen
       THEN Put(r, [req[r] EXCEPT !.pc = "create", !.taken = TRUE])
       ELSE Put(r, [req[r] EXCEPT !.pc = "find"])
  /\ UNCHANGED rows

\* The newest active key of the tenant the issuer's DID belongs to.
LoadSigningKey == signingKey = "ACTIVE"

\* Sign, and insert the credential; without a key the transaction fails.
CreateVc(r) ==
  /\ req[r].pc = "create"
  /\ \/ LoadSigningKey /\ \E c \in Credential :
          /\ ~vc[c].issued /\ \A q \in Req : req[q].vc # c
          /\ Put(r, [req[r] EXCEPT !.vc = c,
                                   !.pc = IF req[r].offer = None THEN "commit" ELSE "accept"])
     \/ ~LoadSigningKey /\ Finish(r)
  /\ UNCHANGED rows

\* DELETE /:tenantId/signing-keys/:kid, the update on the ACTIVE row.  What was
\* signed before is verified with the DID's copy of the public key.
RevokeSigningKey ==
  /\ LoadSigningKey
  /\ signingKey' = "REVOKED"
  /\ UNCHANGED <<list, entry, vc, offer, req, revoked, raced, areas, verifySession, accepted,
                 shared, fooled>>

\* Mutant: the credential is issued and the offer left open.
AcceptOfferOpen(r) ==
  /\ req[r].pc = "accept"
  /\ Put(r, [req[r] EXCEPT !.pc = "commit"])
  /\ UNCHANGED rows

\* createAcceptFlow marks the offer, by id.
AcceptOffer(r) ==
  /\ req[r].pc = "accept"
  /\ OfferFree(r, req[r].offer)
  /\ Put(r, [req[r] EXCEPT !.pc = "commit", !.consumes = TRUE])
  /\ UNCHANGED rows

-----------------------------------------------------------------------------
\* revokeCredentialFlow: updateEntry upserts the entry ...
RevokeStart(r, c) ==
  /\ req[r].pc = "idle"
  /\ vc[c].issued
  /\ Put(r, [Idle EXCEPT !.pc = "upsert", !.vc = c, !.list = vc[c].listId])
  /\ UNCHANGED rows

UpsertEntry(r) ==
  /\ req[r].pc = "upsert"
  /\ EntryFree(r, req[r].vc)
  /\ Put(r, [req[r] EXCEPT !.pc = "entries", !.upserted = TRUE])
  /\ raced' = raced \cup {l \in List : /\ l = req[r].list
                                       /\ \E q \in Req \ {r} : req[q].upserted /\ req[q].list = l}
  /\ UNCHANGED <<list, entry, vc, offer, revoked, presentation>>

\* Mutant: the list is encoded from the changed entry alone.
ReadEntriesOwn(r) ==
  /\ req[r].pc = "entries"
  /\ Put(r, [req[r] EXCEPT !.pc = "encode", !.bits = {vc[req[r].vc].index}])
  /\ UNCHANGED rows

\* Mutant: the entries are filtered by index and not by list.
ReadEntriesAnyList(r) ==
  /\ req[r].pc = "entries"
  /\ Put(r, [req[r] EXCEPT !.pc = "encode", !.bits = {e[2] : e \in entry} \cup {vc[req[r].vc].index}])
  /\ UNCHANGED rows

\* ... reads all entries of the list, its own among them ...
ReadEntries(r) ==
  LET own == vc[req[r].vc].index
  IN /\ req[r].pc = "entries"
     /\ Put(r, [req[r] EXCEPT !.pc = "encode",
                              !.bits = {i \in Index : <<req[r].list, i>> \in entry} \cup {own}])
     /\ UNCHANGED rows

\* ... and writes the list it has encoded from them.
EncodeList(r) ==
  /\ req[r].pc = "encode"
  /\ ListFree(r, req[r].list)
  /\ Put(r, [req[r] EXCEPT !.pc = "commit", !.encodes = TRUE])
  /\ UNCHANGED rows

-----------------------------------------------------------------------------
\* The list row as the transaction of r leaves it: an UPDATE changes the columns
\* it names and keeps the others.
Written(r) ==
  LET l == list[req[r].list]
  IN [exists |-> TRUE,
      issuedCount |-> l.issuedCount + (IF req[r].taken THEN 1 ELSE 0),
      encodedList |-> IF req[r].encodes THEN req[r].bits ELSE l.encodedList]

NewVc(r) == [issued |-> TRUE, listId |-> req[r].list, index |-> req[r].seen,
             offer |-> req[r].offer]

Commit(r) ==
  /\ req[r].pc = "commit"
  /\ list' = [list EXCEPT ![req[r].list] = Written(r)]
  /\ vc' = IF req[r].taken THEN [vc EXCEPT ![req[r].vc] = NewVc(r)] ELSE vc
  /\ offer' = IF req[r].consumes THEN [offer EXCEPT ![req[r].offer] = "ACCEPTED"] ELSE offer
  /\ entry' = IF req[r].upserted THEN entry \cup {<<req[r].list, vc[req[r].vc].index>>} ELSE entry
  /\ revoked' = IF req[r].upserted THEN revoked \cup {req[r].vc} ELSE revoked
  /\ Finish(r)
  /\ UNCHANGED <<raced, presentation>>

\* Mutant: the index is reserved outside the transaction and stays reserved.
AbortKeepsIndex(r) ==
  /\ req[r].pc # "idle"
  /\ list' = IF req[r].taken THEN [list EXCEPT ![req[r].list] = Written(r)] ELSE list
  /\ Finish(r)
  /\ UNCHANGED <<entry, vc, offer, revoked, raced, presentation>>

\* An error, the transaction timeout, a deadlock victim or a crash.
Abort(r) ==
  /\ req[r].pc # "idle"
  /\ Finish(r)
  /\ UNCHANGED rows

-----------------------------------------------------------------------------
\* Presentation.  The verifier opens a session, which expires after 5 minutes.

CreateSession(v) ==
  /\ "present" \in areas /\ verifySession[v] = "none"
  /\ verifySession' = [verifySession EXCEPT ![v] = "PENDING"]
  /\ UNCHANGED <<list, entry, vc, offer, req, revoked, raced, issuer, accepted, shared, fooled>>

ExpireSession(v) ==
  /\ verifySession[v] = "PENDING"
  /\ verifySession' = [verifySession EXCEPT ![v] = "EXPIRED"]
  /\ UNCHANGED <<list, entry, vc, offer, req, revoked, raced, issuer, accepted, shared, fooled>>

\* The session is read, and the holder's proof over its challenge verified.
\* (A wrong proof is answered with valid: false and changes nothing.)
Present(r, v, c) ==
  /\ req[r].pc = "idle"
  /\ verifySession[v] = "PENDING" /\ vc[c].issued
  /\ Put(r, [Idle EXCEPT !.pc = "verify", !.session = v, !.vc = c, !.dead = (c \in revoked)])
  /\ shared' = IF \E q \in Req : req[q].session = v THEN shared \cup {v} ELSE shared
  /\ UNCHANGED <<list, entry, vc, offer, revoked, raced, issuer, verifySession, accepted, fooled>>

\* checkEntry, and the published list.
Bit(c) == vc[c].index \in list[vc[c].listId].encodedList

\* How many objects named vc are around the status of a signed credential:
\* issueCredentialFlow puts it into one and signJwt puts that into another.
PayloadDepth == 1
SignedDepth == PayloadDepth + 1

\* verifyCredentialFlow opens one of them and asks for the bit if the status
\* (and for the date if the expirationDate) is there.
StatusFound == SignedDepth - 1 = 0

\* The signature of a JWT is the issuer's.  An SD-JWT, which is signed with no
\* iss, is answered with valid: false; the form of c is not recorded.
VerifyCredential(r) ==
  /\ req[r].pc = "verify"
  /\ \/ Put(r, IF StatusFound /\ Bit(req[r].vc) THEN Idle ELSE [req[r] EXCEPT !.pc = "consume"])
     \/ Finish(r)
  /\ UNCHANGED rows

\* Mutant: the session is not marked.
ConsumeSessionNot(r) ==
  /\ req[r].pc = "consume"
  /\ accepted' = [accepted EXCEPT ![req[r].session] = @ + 1]
  /\ Finish(r)
  /\ UNCHANGED <<list, entry, vc, offer, revoked, raced, issuer, verifySession, shared, fooled>>

\* The session is marked by id, whatever its status is now.
ConsumeSession(r) ==
  /\ req[r].pc = "consume"
  /\ verifySession' = [verifySession EXCEPT ![req[r].session] = "CONSUMED"]
  /\ accepted' = [accepted EXCEPT ![req[r].session] = @ + 1]
  /\ fooled' = IF req[r].dead THEN fooled \cup {req[r].vc} ELSE fooled
  /\ Finish(r)
  /\ UNCHANGED <<list, entry, vc, offer, revoked, raced, issuer, shared>>

-----------------------------------------------------------------------------
\* The routes.
Issue(r) == IssueStart(r) \/ FindList(r) \/ TakeIndex(r) \/ CreateVc(r)

Offers(o) == CreateOffer(o) \/ \E r \in Req : AcceptStart(r, o)

Revoke(r) ==
  \/ \E c \in Credential : RevokeStart(r, c)
  \/ UpsertEntry(r) \/ ReadEntries(r) \/ EncodeList(r)

Next ==
  \/ \E r \in Req : Issue(r) \/ AcceptOffer(r) \/ Revoke(r) \/ Commit(r) \/ Abort(r)
  \/ \E o \in Offer : Offers(o) \/ ExpireOffer(o)
  \/ \E r \in Req : VerifyCredential(r) \/ ConsumeSession(r)
  \/ \E r \in Req, v \in VerifySession, c \in Credential : Present(r, v, c)
  \/ \E v \in VerifySession : CreateSession(v) \/ ExpireSession(v)
  \/ RevokeSigningKey

Spec == Init /\ [][Next]_vars

-----------------------------------------------------------------------------
\* Properties.

\* No two credentials share a slot, however issuances, retries of allocateIndex
\* and aborts interleave: revoking one credential never revokes another.
SlotUnique ==
  \A c, d \in Credential :
    /\ vc[c].issued /\ vc[d].issued
    /\ vc[c].listId = vc[d].listId /\ vc[c].index = vc[d].index
    => c = d

\* issuedCount counts exactly the credentials of the list, none lost to a
\* concurrent revocation that writes the same row and none left behind by an
\* issuance that failed ("eliminating dead slots").
NoDeadSlots ==
  \A l \in List :
    list[l].issuedCount = Cardinality({c \in Credential : vc[c].issued /\ vc[c].listId = l})

\* A bit is set only for a credential some committed revocation was about.
NoFalseRevocation ==
  \A l \in List : \A i \in list[l].encodedList :
    \E c \in revoked : vc[c].listId = l /\ vc[c].index = i

\* A revocation that has answered stays in the published list, whatever is issued
\* or revoked on the list afterwards, as long as no two revocations of the list
\* have overlapped.
RevocationKept == \A c \in revoked : vc[c].listId \notin raced => Bit(c)

\* A verification session vouches for one presentation, or for as many as there
\* were requests that had read it before the first of them marked it: the mark is
\* written by id, but nobody who reads it afterwards gets in, however the session
\* expires, requests fail and new ones come.
PresentationsBounded ==
  \A v \in VerifySession : accepted[v] <= IF v \in shared THEN Cardinality(Req) ELSE 1

\* A finished acceptance closes its offer: no acceptance begins on an offer that
\* has yielded a credential, so two credentials of one offer come only from
\* acceptances that overlapped.
OfferClosed ==
  [][\A r \in Req : req[r].offer = None /\ req'[r].offer # None =>
       \A c \in Credential : vc[c].issued => vc[c].offer # req'[r].offer]_vars

\* The refinement mapping forgets the requests and their uncommitted writes.
Slot == [c \in Credential |-> IF vc[c].issued THEN <<vc[c].listId, vc[c].index>> ELSE None]
Registry == INSTANCE StatusRegistry WITH
  slot <- Slot, size <- [l \in List |-> list[l].issuedCount],
  published <- [l \in List |-> list[l].encodedList], overlapped <- raced

\* The committed rows are a registry: whatever interleaves and fails, a commit is
\* one issuance into the next slot of a list or one revocation, which writes the
\* same row and leaves the count alone as an issuance leaves the bits alone.
ListRegistry == Registry!Spec

\* "Verifies the detached JWS proof, checks credential validity (signature, expiry,
\* revocation)": no credential is accepted whose revocation was answered before it
\* was presented, and whose bit no overlapping revocation has cleared.
RevokedRejected == \A c \in fooled : vc[c].listId \in raced

\* "updateEntry - sets a credential's bit [...] Re-encodes the full compressed list
\* bytes": RevocationKept for every revocation.
RevocationVisible == \A c \in revoked : Bit(c)

\* An offer yields one credential: "Returns 409 if already consumed or expired."
OfferIssuesOnce ==
  \A c, d \in Credential :
    vc[c].issued /\ vc[d].issued /\ vc[c].offer # None /\ vc[c].offer = vc[d].offer => c = d
=============================================================================
