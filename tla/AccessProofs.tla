----------------------------- MODULE AccessProofs -----------------------------
(***************************************************************************)
(* Machine-checked proofs about what a caller is given and for how long:   *)
(* about Tenancy, the plan, the endpoints and the onboarding progress of a *)
(* tenant, for any plans, events, endpoints, flows and requests; and about *)
(* AccessBlocklist, which access tokens the guard refuses, for any tokens, *)
(* sessions, processes and requests.  The two specifications share no      *)
(* variable, and each has its own invariant.                               *)
(***************************************************************************)
EXTENDS Tenancy, AccessBlocklist, FiniteSetTheorems, TLAPS

-----------------------------------------------------------------------------
\* Tenancy: the inductive invariant.
\* The subscription row shows the event applied last: there is none before the
\* first, and an event with an unknown plan is never applied.
Shown(n) == IF sent[n] = "cancel" THEN "FREE" ELSE sent[n]
ShowsLast ==
  /\ last \in {0} \cup Known
  /\ last = 0 => subscription = None
  /\ last # 0 => subscription = Shown(last)

\* An event that was answered has been applied, so no answered event is later
\* than the last one as long as they came in order.  An event that is still
\* pending may or may not have been applied.
AnsweredApplied == ~disordered => \A n \in Known \ pending : n <= last

\* Creations count before they insert: what was created and what is about to be
\* stays within the bound.  An endpoint that a PATCH has enabled is a live one.
Inserting == {r \in Req : req[r].pc = "insert"}
Created == On \ raised
EndpointRoom ==
  /\ raised \subseteq On
  /\ Cardinality(Created) + Cardinality(Inserting) <= EndpointCap + Cardinality(Req) - 1

\* Progress exists while its flow does, which the foreign key sees to, and
\* begins with nothing recorded.
ProgressOfFlow(f) ==
  /\ progress[f].made => flow[f].state = "made"
  /\ ~progress[f].made => answered[f] = {} /\ progress[f].done = {} /\ ~progress[f].complete

\* An advance that has read and not yet written, x, read no step that was not
\* answered, and has missed only steps that were answered while it was there.
Reading(x) ==
  x.pc = "advance" =>
    /\ x.flow \in Flow /\ x.step \in Step /\ progress[x.flow].made
    /\ answered[x.flow] \ exposed[x.flow] \subseteq x.done
    /\ x.done \subseteq answered[x.flow]
    /\ x.flow \notin edited => x.steps = flow[x.flow].steps

\* So is it with the row, which the last advance wrote.
Recorded(f) ==
  /\ answered[f] \ exposed[f] \subseteq progress[f].done
  /\ progress[f].done \subseteq answered[f]
  /\ progress[f].complete /\ f \notin edited => flow[f].steps \subseteq answered[f]

OnboardingInv ==
  /\ \A r \in Req : Reading(req[r])
  /\ \A f \in Flow : ProgressOfFlow(f) /\ Recorded(f)

IndInv == TypeOK /\ ShowsLast /\ AnsweredApplied /\ EndpointRoom /\ OnboardingInv

-----------------------------------------------------------------------------
\* Types, by what the steps work on.

FlowRow == [state: {"none", "made", "deleted"}, active: BOOLEAN, steps: SUBSET Step]
ProgressRow == [made: BOOLEAN, done: SUBSET Step, complete: BOOLEAN]

BillingTyped ==
  /\ areas \in Together /\ subscription \in Plan \cup {None}
  /\ sent \in Seq(Kind) /\ pending \subseteq DOMAIN sent
  /\ last \in Nat /\ disordered \in BOOLEAN
CallersTyped ==
  /\ jwt \in [Jwt -> Plan \cup {None}] /\ key \in [Key -> {"none", "ACTIVE", "REVOKED"}]
EndpointsTyped ==
  /\ endpoint \in [Endpoint -> {"none", "on", "off", "deleted"}] /\ raised \subseteq Endpoint
OnboardingTyped ==
  /\ project \in {"none", "made", "deleted"}
  /\ flow \in [Flow -> FlowRow] /\ progress \in [Flow -> ProgressRow]
  /\ answered \in [Flow -> SUBSET Step] /\ exposed \in [Flow -> SUBSET Step] /\ edited \subseteq Flow
  /\ refused \in BOOLEAN
Requests == req \in [Req -> Request]

LEMMA TypeParts ==
  TypeOK <=> BillingTyped /\ CallersTyped /\ EndpointsTyped /\ OnboardingTyped /\ Requests
BY Zenon DEF TypeOK, BillingTyped, CallersTyped, EndpointsTyped, OnboardingTyped, Requests,
             FlowRow, ProgressRow

\* What each group of steps leaves alone.
LEMMA Frames ==
  ASSUME [Next]_vars
  PROVE  \/ BillingStep /\ UNCHANGED <<jwt, key, endpoint, raised, onboarding, req>>
         \/ CallerStep /\ UNCHANGED <<areas, plans, endpoint, raised, onboarding>>
         \/ EndpointStep /\ UNCHANGED <<areas, plans, jwt, key, onboarding>>
         \/ OnboardingStep /\ UNCHANGED others
         \/ UNCHANGED vars
<1>1. CASE BillingStep
  <2>1. ASSUME NEW kind \in Kind, Send(kind) PROVE UNCHANGED <<jwt, key, endpoint, raised, onboarding, req>>
    BY <2>1, Zenon DEF Send
  <2>2. ASSUME NEW n \in DOMAIN sent, NEW b \in BOOLEAN, Deliver(n, b)
        PROVE  UNCHANGED <<jwt, key, endpoint, raised, onboarding, req>>
    BY <2>2, Zenon DEF Deliver
  <2> QED
    BY <1>1, <2>1, <2>2, Zenon DEF BillingStep
<1>2. CASE CallerStep
  <2>1. ASSUME NEW r \in Req, IssueSign(r) \/ \E j \in Jwt : IssueRead(r, j)
        PROVE  UNCHANGED <<areas, plans, endpoint, raised, onboarding>>
    BY <2>1, Zenon DEF IssueSign, IssueRead
  <2>2. ASSUME NEW j \in Jwt, ExpireJwt(j) PROVE UNCHANGED <<areas, plans, endpoint, raised, onboarding>>
    BY <2>2, Zenon DEF ExpireJwt
  <2>3. ASSUME NEW k \in Key, ApiKeyPost(k) \/ ApiKeyDelete(k)
        PROVE  UNCHANGED <<areas, plans, endpoint, raised, onboarding>>
    BY <2>3, Zenon DEF ApiKeyPost, ApiKeyDelete
  <2> QED
    BY <1>2, <2>1, <2>2, <2>3, Zenon DEF CallerStep
<1>3. CASE EndpointStep
  <2>1. ASSUME NEW r \in Req, EndpointPost(r) \/ EndpointCount(r) \/ EndpointInsert(r)
        PROVE  UNCHANGED <<areas, plans, jwt, key, onboarding>>
    BY <2>1, Zenon DEF EndpointPost, EndpointCount, EndpointInsert
  <2>2. ASSUME NEW e \in Endpoint, EndpointDelete(e) \/ \E state \in {"on", "off"} : EndpointPatch(e, state)
        PROVE  UNCHANGED <<areas, plans, jwt, key, onboarding>>
    BY <2>2, Zenon DEF EndpointDelete, EndpointPatch
  <2> QED
    BY <1>3, <2>1, <2>2, Zenon DEF EndpointStep
<1>4. CASE OnboardingStep
  BY <1>4 DEF OnboardingStep, ProjectPost, ProjectDelete, FlowDelete, OnboardingStart, FlowPost,
              FlowPatch, OnboardingAdvance, AdvanceRead, AdvanceWrite
<1> QED
  BY <1>1, <1>2, <1>3, <1>4 DEF Next

\* An advance that is under way names a flow and a step.
Named == \A r \in Req : req[r].pc = "advance" => req[r].flow \in Flow /\ req[r].step \in Step

LEMMA IdleTyped == Idle \in Request
BY DEF Idle, Request, Pc

LEMMA BillingTypes == ASSUME BillingTyped, BillingStep PROVE BillingTyped'
<1> USE DEF BillingTyped
<1>1. ASSUME NEW kind \in Kind, Send(kind) PROVE BillingTyped'
  BY <1>1 DEF Send
<1>2. ASSUME NEW n \in DOMAIN sent, NEW b \in BOOLEAN, Deliver(n, b) PROVE BillingTyped'
  <2>1. n \in Nat /\ areas' = areas /\ sent' = sent /\ pending' \subseteq pending
    BY <1>2 DEF Deliver
  <2>2. subscription' \in Plan \cup {None} /\ last' \in Nat /\ disordered' \in BOOLEAN
    BY <1>2, <2>1 DEF Deliver, Receive, ActivateFromProvider, CancelFromProvider, Apply, Plan
  <2> QED
    BY <2>1, <2>2
<1> QED
  BY <1>1, <1>2 DEF BillingStep

LEMMA CallerTypes ==
  ASSUME BillingTyped, CallersTyped, Requests, CallerStep
  PROVE  CallersTyped' /\ Requests'
<1> USE DEF CallersTyped, Requests
<1>1. ASSUME NEW r \in Req, IssueSign(r) PROVE CallersTyped' /\ Requests'
  <2>1. req[r].plan \in Plan \cup {None}
    BY DEF Request
  <2> QED
    BY <1>1, <2>1, IdleTyped DEF IssueSign, Finish, Put
<1>2. ASSUME NEW r \in Req, NEW j \in Jwt, IssueRead(r, j) PROVE CallersTyped' /\ Requests'
  <2>1. PICK p \in Plan : p = IF subscription = None THEN "FREE" ELSE subscription
    BY DEF BillingTyped, Plan
  <2>2. [Idle EXCEPT !.pc = "sign", !.jwt = j, !.plan = p] \in Request
    BY DEF Idle, Request, Pc
  <2> QED
    BY <1>2, <2>1, <2>2 DEF IssueRead, Put
<1>3. ASSUME NEW j \in Jwt, ExpireJwt(j) PROVE CallersTyped' /\ Requests'
  BY <1>3 DEF ExpireJwt
<1>4. ASSUME NEW k \in Key, ApiKeyPost(k) \/ ApiKeyDelete(k) PROVE CallersTyped' /\ Requests'
  BY <1>4 DEF ApiKeyPost, ApiKeyDelete, CreateApiKey, RevokeApiKey
<1> QED
  BY <1>1, <1>2, <1>3, <1>4 DEF CallerStep

LEMMA EndpointTypes ==
  ASSUME EndpointsTyped, Requests, EndpointStep
  PROVE  EndpointsTyped' /\ Requests'
<1> USE DEF EndpointsTyped, Requests
<1>1. ASSUME NEW r \in Req, NEW p \in {"count", "insert"} PROVE [req[r] EXCEPT !.pc = p] \in Request
                                                               /\ [Idle EXCEPT !.pc = p] \in Request
  BY DEF Idle, Request, Pc
<1>2. ASSUME NEW r \in Req, EndpointPost(r) PROVE EndpointsTyped' /\ Requests'
  BY <1>1, <1>2 DEF EndpointPost, Put
<1>3. ASSUME NEW r \in Req, EndpointCount(r) PROVE EndpointsTyped' /\ Requests'
  BY <1>1, <1>3, IdleTyped DEF EndpointCount, Finish, Goto, Put
<1>4. ASSUME NEW r \in Req, EndpointInsert(r) PROVE EndpointsTyped' /\ Requests'
  BY <1>4, IdleTyped DEF EndpointInsert, Finish, Put
<1>5. ASSUME NEW e \in Endpoint, EndpointDelete(e) PROVE EndpointsTyped' /\ Requests'
  BY <1>5 DEF EndpointDelete
<1>6. ASSUME NEW e \in Endpoint, NEW state \in {"on", "off"}, EndpointPatch(e, state)
      PROVE  EndpointsTyped' /\ Requests'
  BY <1>6 DEF EndpointPatch
<1> QED
  BY <1>2, <1>3, <1>4, <1>5, <1>6 DEF EndpointStep

LEMMA OnboardingTypes ==
  ASSUME OnboardingTyped, Requests, Named, OnboardingStep
  PROVE  OnboardingTyped' /\ Requests'
<1> USE DEF OnboardingTyped
<1>1. ASSUME NEW F \in SUBSET Flow, DeleteRows(F) \/ Refuse(F)
      PROVE  flow' \in [Flow -> FlowRow] /\ refused' \in BOOLEAN
  BY <1>1 DEF DeleteRows, Refuse, NoFlow, FlowRow
<1>2. CASE ProjectPost
  BY <1>2 DEF ProjectPost, CreateProject, Requests
<1>3. CASE ProjectDelete
  <2>1. PICK F \in SUBSET Flow : /\ DeleteRows(F) \/ Refuse(F)
                                 /\ project' = "deleted" \/ project' = project
    BY <1>3 DEF ProjectDelete, DeleteProject
  <2> QED
    BY <1>1, <1>3, <2>1 DEF ProjectDelete, Requests
<1>4. ASSUME NEW f \in Flow, FlowDelete(f) PROVE OnboardingTyped' /\ Requests'
  BY <1>1, <1>4 DEF FlowDelete, DeleteFlow, Requests
<1>5. ASSUME NEW f \in Flow, OnboardingStart(f) PROVE OnboardingTyped' /\ Requests'
  BY <1>5 DEF OnboardingStart, StartProgress, Requests, ProgressRow
<1>6. ASSUME NEW f \in Flow, NEW active \in BOOLEAN, NEW steps \in SUBSET Step,
             FlowPost(f, active, steps) \/ FlowPatch(f, active, steps)
      PROVE  OnboardingTyped' /\ Requests'
  <2>1. flow' \in [Flow -> FlowRow] /\ edited' \subseteq Flow
    <3>1. CASE FlowPost(f, active, steps)
      BY <3>1 DEF FlowPost, CreateFlow, FlowRow
    <3>2. CASE FlowPatch(f, active, steps)
      BY <3>2 DEF FlowPatch, UpdateFlow, FlowRow
    <3> QED
      BY <1>6, <3>1, <3>2
  <2> QED
    BY <1>6, <2>1 DEF FlowPost, FlowPatch, Requests
<1>7. ASSUME NEW r \in Req, NEW f \in Flow, NEW s \in Step, AdvanceRead(r, f, s)
      PROVE  OnboardingTyped' /\ Requests'
  <2>1. progress[f].done \subseteq Step /\ flow[f].steps \subseteq Step
    BY DEF ProgressRow, FlowRow
  <2>2. [Idle EXCEPT !.pc = "advance", !.flow = f, !.step = s,
                     !.done = progress[f].done, !.steps = flow[f].steps] \in Request
    BY <2>1 DEF Idle, Request, Pc
  <2>3. Requests' /\ UNCHANGED onboarding
    BY <1>7, <2>2 DEF AdvanceRead, Put, Requests
  <2> QED
    BY <2>3, Zenon DEF onboarding
<1>8. ASSUME NEW r \in Req, AdvanceWrite(r) PROVE OnboardingTyped' /\ Requests'
  <2> PICK q : q = req[r]
    OBVIOUS
  <2>1. q.flow \in Flow /\ q.step \in Step /\ q.done \subseteq Step /\ q.steps \subseteq Step
    BY <1>8 DEF AdvanceWrite, Named, Requests, Request
  <2>2. PICK b \in BOOLEAN : b <=> progress[q.flow].complete \/ (q.steps # {} /\ q.steps \subseteq q.done \cup {q.step})
    BY <2>1 DEF ProgressRow
  <2>3. progress' \in [Flow -> ProgressRow]
    <3>1. progress' = [progress EXCEPT ![q.flow].done = q.done \cup {q.step},
                            ![q.flow].complete = @ \/ (q.steps # {} /\ q.steps \subseteq q.done \cup {q.step})]
      BY <1>8 DEF AdvanceWrite
    <3> QED
      BY <2>1, <3>1 DEF ProgressRow
  <2>4. answered' \in [Flow -> SUBSET Step] /\ exposed' \in [Flow -> SUBSET Step]
    <3>1. /\ answered' = [answered EXCEPT ![q.flow] = @ \cup {q.step}]
          /\ exposed' = [exposed EXCEPT ![q.flow] = @ \cup {q.step}] \/ exposed' = exposed
      BY <1>8 DEF AdvanceWrite, Answer
    <3> QED
      BY <2>1, <3>1
  <2> QED
    BY <1>8, <2>3, <2>4, IdleTyped DEF AdvanceWrite, Answer, Finish, Put, Requests
<1> QED
  BY <1>2, <1>3, <1>4, <1>5, <1>6, <1>7, <1>8 DEF OnboardingStep, OnboardingAdvance

\* Every step keeps the types.
LEMMA TypeStep == ASSUME TypeOK, Named, [Next]_vars PROVE TypeOK'
<1> SUFFICES BillingTyped' /\ CallersTyped' /\ EndpointsTyped' /\ OnboardingTyped' /\ Requests'
  BY Zenon DEF TypeOK, BillingTyped, CallersTyped, EndpointsTyped, OnboardingTyped, Requests,
               FlowRow, ProgressRow
<1>0. BillingTyped /\ CallersTyped /\ EndpointsTyped /\ OnboardingTyped /\ Requests
  BY TypeParts
<1>1. CASE BillingStep /\ UNCHANGED <<jwt, key, endpoint, raised, onboarding, req>>
  BY <1>0, <1>1, BillingTypes DEF CallersTyped, EndpointsTyped, OnboardingTyped, Requests, onboarding
<1>2. CASE CallerStep /\ UNCHANGED <<areas, plans, endpoint, raised, onboarding>>
  BY <1>0, <1>2, CallerTypes DEF BillingTyped, EndpointsTyped, OnboardingTyped, plans, onboarding
<1>3. CASE EndpointStep /\ UNCHANGED <<areas, plans, jwt, key, onboarding>>
  BY <1>0, <1>3, EndpointTypes DEF BillingTyped, CallersTyped, OnboardingTyped, plans, onboarding
<1>4. CASE OnboardingStep /\ UNCHANGED others
  BY <1>0, <1>4, OnboardingTypes DEF BillingTyped, CallersTyped, EndpointsTyped, others, plans
<1>5. CASE UNCHANGED vars
  BY <1>0, <1>5 DEF BillingTyped, CallersTyped, EndpointsTyped, OnboardingTyped, Requests,
                    vars, plans, onboarding
<1> QED
  BY <1>1, <1>2, <1>3, <1>4, <1>5, Frames

-----------------------------------------------------------------------------
\* Billing.

\* A new event is pending and changes nothing; a delivered one becomes the last,
\* unless it is a cancellation without a row, which is refused and stays pending,
\* or of an unknown plan.
LEMMA BillingInv ==
  ASSUME BillingTyped, ShowsLast, AnsweredApplied, BillingStep
  PROVE  ShowsLast' /\ AnsweredApplied'
<1> USE DEF BillingTyped
<1>0. Kind = PaidPlan \cup {"cancel", "unknown"} /\ "cancel" \notin PaidPlan /\ "unknown" \notin PaidPlan
  BY TenancyAssumption DEF Kind
<1>1. ASSUME NEW kind \in Kind, Send(kind) PROVE ShowsLast' /\ AnsweredApplied'
  <2>1. /\ sent' = Append(sent, kind) /\ pending' = pending \cup {Len(sent) + 1}
        /\ subscription' = subscription /\ last' = last /\ disordered' = disordered
    BY <1>1 DEF Send
  <2>2. /\ DOMAIN sent' = DOMAIN sent \cup {Len(sent) + 1}
        /\ \A n \in DOMAIN sent : sent'[n] = sent[n]
    BY <2>1
  <2>3. Known \subseteq Known' /\ Known' \ pending' \subseteq Known \ pending
    BY <2>1, <2>2 DEF Known
  <2>4. last # 0 => Shown(last)' = Shown(last)
    BY <2>1, <2>2 DEF ShowsLast, Known, Shown
  <2> QED
    BY <2>1, <2>3, <2>4 DEF ShowsLast, AnsweredApplied
<1>2. ASSUME NEW n \in DOMAIN sent, NEW b \in BOOLEAN, Deliver(n, b) PROVE ShowsLast' /\ AnsweredApplied'
  <2>1. /\ sent' = sent /\ pending \ {n} \subseteq pending' /\ Receive(n)
        /\ Known' = Known /\ n \in Nat /\ n # 0 /\ sent[n] \in Kind
    BY <1>2 DEF Deliver, Known
  <2>2. Known \subseteq Nat
    BY DEF Known
  <2>3. ASSUME sent[n] # "unknown", subscription' = Shown(n), Apply(n)
        PROVE  ShowsLast' /\ AnsweredApplied'
    <3>1. n \in Known /\ last' = n /\ disordered' = (disordered \/ n < last)
      BY <2>3 DEF Known, Apply
    <3>2. ShowsLast'
      BY <2>1, <2>3, <3>1 DEF ShowsLast, Shown
    <3>3. AnsweredApplied'
      <4> SUFFICES ASSUME ~disordered', NEW m \in Known \ pending' PROVE m <= last'
        BY <2>1 DEF AnsweredApplied
      <4>1. ~disordered /\ ~(n < last)
        BY <3>1
      <4>2. CASE m = n
        BY <2>1, <3>1, <4>2
      <4>3. CASE m # n
        <5>1. m <= last /\ m \in Nat
          BY <2>1, <2>2, <4>1, <4>3 DEF AnsweredApplied
        <5> QED
          BY <2>1, <3>1, <4>1, <5>1
      <4> QED
        BY <4>2, <4>3
    <3> QED
      BY <3>2, <3>3
  <2>4. CASE sent[n] \in PaidPlan /\ ActivateFromProvider(n)
    BY <1>0, <2>3, <2>4 DEF ActivateFromProvider, Shown
  <2>5. CASE sent[n] = "cancel" /\ CancelFromProvider(n)
    BY <2>3, <2>5 DEF CancelFromProvider, Shown
  <2>6. CASE sent[n] = "unknown" /\ UNCHANGED <<subscription, last, disordered>>
    <3>1. n \notin Known
      BY <2>6 DEF Known
    <3> QED
      BY <2>1, <2>6, <3>1 DEF ShowsLast, AnsweredApplied, Shown
  <2> QED
    BY <2>1, <2>4, <2>5, <2>6 DEF Receive
<1> QED
  BY <1>1, <1>2 DEF BillingStep

-----------------------------------------------------------------------------
\* Endpoints.

LEMMA Finite ==
  ASSUME EndpointsTyped
  PROVE  /\ IsFiniteSet(On) /\ IsFiniteSet(Created) /\ IsFiniteSet(Inserting) /\ IsFiniteSet(Req)
         /\ Cardinality(On) \in Nat /\ Cardinality(Created) \in Nat
         /\ Cardinality(Inserting) \in Nat /\ Cardinality(Req) \in Nat
         /\ Cardinality(Created) <= Cardinality(On) /\ Cardinality(Inserting) <= Cardinality(Req)
<1>1. On \subseteq Endpoint /\ Created \subseteq On /\ Inserting \subseteq Req
  BY DEF On, Created, Inserting
<1>2. IsFiniteSet(On) /\ IsFiniteSet(Created) /\ IsFiniteSet(Inserting) /\ IsFiniteSet(Req)
  BY <1>1, TenancyAssumption, FS_Subset
<1> QED
  BY <1>1, <1>2, FS_Subset, FS_CardinalityType

\* Inserting and Created only get smaller.
LEMMA Fewer ==
  ASSUME EndpointsTyped, EndpointsTyped', EndpointRoom, raised' \subseteq On',
         Created' \subseteq Created, Inserting' \subseteq Inserting
  PROVE  EndpointRoom'
<1>1. Cardinality(Created') <= Cardinality(Created) /\ Cardinality(Inserting') <= Cardinality(Inserting)
  BY Finite, FS_Subset
<1>2. Cardinality(Created') \in Nat /\ Cardinality(Inserting') \in Nat
  BY Finite, FS_Subset, FS_CardinalityType
<1> QED
  BY <1>1, <1>2, Finite, TenancyAssumption DEF EndpointRoom

LEMMA OneMore ==
  ASSUME NEW C, NEW E, IsFiniteSet(C), E = {} \/ \E e : E = {e}
  PROVE  IsFiniteSet(C \cup E) /\ Cardinality(C \cup E) <= Cardinality(C) + 1
<1>0. Cardinality(C) \in Nat
  BY FS_CardinalityType
<1>1. CASE E = {}
  <2>1. C \cup E = C
    BY <1>1
  <2> QED
    BY <1>0, <2>1
<1>2. ASSUME NEW e, E = {e} PROVE IsFiniteSet(C \cup E) /\ Cardinality(C \cup E) <= Cardinality(C) + 1
  BY <1>0, <1>2, FS_AddElement
<1> QED
  BY <1>1, <1>2

LEMMA EndpointInv ==
  ASSUME EndpointsTyped, Requests, EndpointRoom, EndpointStep
  PROVE  EndpointRoom'
<1> USE DEF Requests
<1>0. EndpointsTyped'
  BY EndpointTypes
<1>1. ASSUME NEW r \in Req, EndpointPost(r) PROVE EndpointRoom'
  <2>1. On' = On /\ Created' = Created /\ raised' = raised
    BY <1>1 DEF EndpointPost, On, Created
  <2>2. Inserting' \subseteq Inserting
    BY <1>1 DEF EndpointPost, Put, Idle, Inserting
  <2> QED
    BY <1>0, <2>1, <2>2, Fewer DEF EndpointRoom
\* Every request that is about to insert has counted, and this one found room.
<1>2. ASSUME NEW r \in Req, EndpointCount(r) PROVE EndpointRoom'
  <2>1. On' = On /\ Created' = Created /\ raised' = raised
    BY <1>2 DEF EndpointCount, On, Created
  <2>2. CASE Cardinality(On) >= EndpointCap
    <3>1. Inserting' \subseteq Inserting
      BY <1>2, <2>2 DEF EndpointCount, Finish, Put, Idle, Inserting
    <3> QED
      BY <1>0, <2>1, <3>1, Fewer DEF EndpointRoom
  <2>3. CASE ~(Cardinality(On) >= EndpointCap)
    <3>1. Cardinality(Created) <= EndpointCap - 1
      BY <2>3, Finite, TenancyAssumption
    <3>2. Inserting' \subseteq Req
      BY DEF Inserting
    <3>3. Cardinality(Inserting') \in Nat /\ Cardinality(Inserting') <= Cardinality(Req)
      BY <3>2, Finite, FS_Subset, FS_CardinalityType
    <3> QED
      BY <2>1, <3>1, <3>3, Finite, TenancyAssumption DEF EndpointRoom
  <2> QED
    BY <2>2, <2>3
\* One request fewer is waiting, and there is at most one endpoint more.
<1>3. ASSUME NEW r \in Req, EndpointInsert(r) PROVE EndpointRoom'
  <2>1. r \in Inserting /\ Inserting' = Inserting \ {r} /\ raised' = raised
    BY <1>3 DEF EndpointInsert, Finish, Put, Idle, Inserting
  <2>2. PICK E : On' \subseteq On \cup E /\ On \subseteq On' /\ (E = {} \/ \E e : E = {e})
    <3>1. CASE UNCHANGED endpoint
      BY <3>1 DEF On
    <3>2. ASSUME NEW e \in Endpoint, NEW state \in {"on", "off"},
                 endpoint[e] = "none", endpoint' = [endpoint EXCEPT ![e] = state]
          PROVE  On' \subseteq On \cup {e} /\ On \subseteq On'
      BY <3>2 DEF On, EndpointsTyped
    <3> QED
      BY <1>3, <3>1, <3>2 DEF EndpointInsert
  <2>3. Created' \subseteq Created \cup E /\ raised' \subseteq On'
    BY <2>1, <2>2 DEF Created, EndpointRoom
  <2>f. IsFiniteSet(Created) /\ Cardinality(Created) \in Nat
    BY Finite
  <2>4. IsFiniteSet(Created \cup E) /\ Cardinality(Created \cup E) <= Cardinality(Created) + 1
    BY <2>2, <2>f, OneMore
  <2>5. Cardinality(Created') <= Cardinality(Created) + 1 /\ Cardinality(Created') \in Nat
    <3>1. IsFiniteSet(Created') /\ Cardinality(Created') <= Cardinality(Created \cup E)
      BY <2>3, <2>4, FS_Subset
    <3> QED
      BY <2>4, <3>1, Finite, FS_CardinalityType
  <2>6. Cardinality(Inserting') = Cardinality(Inserting) - 1
    BY <2>1, Finite, FS_RemoveElement
  <2> QED
    BY <2>3, <2>5, <2>6, Finite, TenancyAssumption DEF EndpointRoom
<1>4. ASSUME NEW e \in Endpoint, EndpointDelete(e) PROVE EndpointRoom'
  <2>1. On' = On \ {e} /\ raised' = raised \ {e} /\ Inserting' = Inserting
    BY <1>4 DEF EndpointDelete, On, Inserting, EndpointsTyped
  <2> QED
    BY <1>0, <2>1, Fewer DEF EndpointRoom, Created
<1>5. ASSUME NEW e \in Endpoint, NEW state \in {"on", "off"}, EndpointPatch(e, state) PROVE EndpointRoom'
  <2>1. Inserting' = Inserting
    BY <1>5 DEF EndpointPatch, Inserting
  <2>2. CASE state = "on"
    <3>1. On' = On \cup {e} /\ raised' = raised \cup {e}
      BY <1>5, <2>2 DEF EndpointPatch, On, EndpointsTyped
    <3> QED
      BY <1>0, <2>1, <3>1, Fewer DEF EndpointRoom, Created
  <2>3. CASE state = "off"
    <3>1. On' = On \ {e} /\ raised' = raised \ {e}
      BY <1>5, <2>3 DEF EndpointPatch, On, EndpointsTyped
    <3> QED
      BY <1>0, <2>1, <3>1, Fewer DEF EndpointRoom, Created
  <2> QED
    BY <2>2, <2>3
<1> QED
  BY <1>1, <1>2, <1>3, <1>4, <1>5 DEF EndpointStep

-----------------------------------------------------------------------------
\* Onboarding.

\* Steps of the other areas start no advance and change nothing it is about.
LEMMA OtherRequests ==
  ASSUME Requests, CallerStep \/ EndpointStep
  PROVE  \A q \in Req : req'[q] = req[q] \/ req'[q].pc # "advance"
<1> USE DEF Requests
<1>1. ASSUME NEW r \in Req, IssueSign(r) \/ \E j \in Jwt : IssueRead(r, j)
      PROVE  \A q \in Req : req'[q] = req[q] \/ req'[q].pc # "advance"
  <2>1. PICK x : Put(r, x) /\ x.pc # "advance"
    <3>1. CASE IssueSign(r)
      BY <3>1 DEF IssueSign, Finish, Idle
    <3>2. ASSUME NEW j \in Jwt, IssueRead(r, j)
          PROVE  \E x : Put(r, x) /\ x.pc # "advance"
      <4>1. PICK p : Put(r, [Idle EXCEPT !.pc = "sign", !.jwt = j, !.plan = p])
        BY <3>2, Zenon DEF IssueRead
      <4>2. PICK x : x = [Idle EXCEPT !.pc = "sign", !.jwt = j, !.plan = p]
        OBVIOUS
      <4>3. x.pc # "advance"
        BY <4>2 DEF Idle
      <4> QED
        BY <4>1, <4>2, <4>3, Zenon
    <3> QED
      BY <1>1, <3>1, <3>2
  <2> QED
    BY <2>1 DEF Put
<1>2. ASSUME NEW r \in Req, EndpointPost(r) \/ EndpointCount(r) \/ EndpointInsert(r)
      PROVE  \A q \in Req : req'[q] = req[q] \/ req'[q].pc # "advance"
  <2>1. PICK x : Put(r, x) /\ x \in {Idle, [Idle EXCEPT !.pc = "count"], [req[r] EXCEPT !.pc = "insert"]}
    BY <1>2 DEF EndpointPost, EndpointCount, EndpointInsert, Finish, Goto
  <2>2. x.pc # "advance"
    BY <2>1 DEF Idle, Request
  <2> QED
    BY <2>1, <2>2 DEF Put
<1>3. CASE UNCHANGED req
  BY <1>3
<1>4. ASSUME NEW j \in Jwt, ExpireJwt(j) PROVE UNCHANGED req
  BY <1>4 DEF ExpireJwt
<1>5. ASSUME NEW k \in Key, ApiKeyPost(k) \/ ApiKeyDelete(k) PROVE UNCHANGED req
  BY <1>5 DEF ApiKeyPost, ApiKeyDelete
<1>6. ASSUME NEW e \in Endpoint, EndpointDelete(e) \/ \E state \in {"on", "off"} : EndpointPatch(e, state)
      PROVE  UNCHANGED req
  BY <1>6 DEF EndpointDelete, EndpointPatch
<1> QED
  BY <1>1, <1>2, <1>3, <1>4, <1>5, <1>6 DEF CallerStep, EndpointStep

LEMMA OtherOnboarding ==
  ASSUME OnboardingInv, UNCHANGED onboarding,
         \A q \in Req : req'[q] = req[q] \/ req'[q].pc # "advance"
  PROVE  OnboardingInv'
<1>0. /\ flow' = flow /\ progress' = progress /\ answered' = answered /\ exposed' = exposed
      /\ edited' = edited
  BY DEF onboarding
<1>1. \A r \in Req : Reading(req[r])'
  BY <1>0 DEF OnboardingInv, Reading
<1>2. \A f \in Flow : ProgressOfFlow(f)' /\ Recorded(f)'
  BY <1>0 DEF OnboardingInv, ProgressOfFlow, Recorded
<1> QED
  BY <1>1, <1>2 DEF OnboardingInv

\* Only flows without progress are deleted.
LEMMA DeleteInv ==
  ASSUME OnboardingTyped, OnboardingInv, NEW F \in SUBSET Flow, DeleteRows(F) \/ Refuse(F),
         UNCHANGED <<progress, answered, exposed, edited, req>>
  PROVE  OnboardingInv'
<1>1. \A f \in Flow : progress[f].made => flow'[f] = flow[f]
  BY DEF DeleteRows, Refuse, Restricted, OnboardingTyped
<1>2. ASSUME NEW r \in Req PROVE Reading(req[r])'
  BY <1>1 DEF OnboardingInv, Reading
<1>3. ASSUME NEW f \in Flow PROVE ProgressOfFlow(f)' /\ Recorded(f)'
  BY <1>1 DEF OnboardingInv, ProgressOfFlow, Recorded
<1> QED
  BY <1>2, <1>3 DEF OnboardingInv

\* A first start finds nothing recorded, a second one changes nothing.
LEMMA StartInv ==
  ASSUME OnboardingTyped, OnboardingInv, NEW f \in Flow, OnboardingStart(f)
  PROVE  OnboardingInv'
<1>1. /\ flow' = flow /\ answered' = answered /\ exposed' = exposed /\ edited' = edited /\ req' = req
      /\ flow[f].state = "made"
  BY DEF OnboardingStart, StartProgress
<1>2. \A g \in Flow : /\ progress'[g].done = progress[g].done /\ progress'[g].complete = progress[g].complete
                      /\ (progress'[g].made <=> g = f \/ progress[g].made)
  BY DEF OnboardingStart, StartProgress, OnboardingTyped, ProgressRow
<1>3. ASSUME NEW r \in Req PROVE Reading(req[r])'
  BY <1>1, <1>2 DEF OnboardingInv, Reading
<1>4. ASSUME NEW g \in Flow PROVE ProgressOfFlow(g)'
  BY <1>1, <1>2 DEF OnboardingInv, ProgressOfFlow
<1>5. ASSUME NEW g \in Flow PROVE Recorded(g)'
  BY <1>1, <1>2 DEF OnboardingInv, Recorded
<1> QED
  BY <1>3, <1>4, <1>5 DEF OnboardingInv

\* A flow that is not edited keeps its steps.
LEMMA FlowInv ==
  ASSUME OnboardingTyped, OnboardingInv, NEW f \in Flow, NEW active \in BOOLEAN, NEW steps \in SUBSET Step,
         FlowPost(f, active, steps) \/ FlowPatch(f, active, steps)
  PROVE  OnboardingInv'
<1>1. /\ progress' = progress /\ answered' = answered /\ exposed' = exposed /\ req' = req
      /\ flow'[f].state = "made" /\ flow[f].state \in {"none", "made"}
      /\ edited \subseteq edited'
      /\ \A g \in Flow : g # f => flow'[g] = flow[g]
      /\ flow[f].state = "made" /\ f \notin edited' => flow'[f].steps = flow[f].steps
  <2>1. CASE FlowPost(f, active, steps)
    BY <2>1 DEF FlowPost, CreateFlow, OnboardingTyped
  <2>2. CASE FlowPatch(f, active, steps)
    BY <2>2 DEF FlowPatch, UpdateFlow, OnboardingTyped, FlowRow
  <2> QED
    BY <2>1, <2>2
<1>2. ASSUME NEW r \in Req PROVE Reading(req[r])'
  BY <1>1 DEF OnboardingInv, Reading, ProgressOfFlow
<1>3. ASSUME NEW g \in Flow PROVE ProgressOfFlow(g)'
  BY <1>1 DEF OnboardingInv, ProgressOfFlow
<1>4. ASSUME NEW g \in Flow PROVE Recorded(g)'
  BY <1>1 DEF OnboardingInv, ProgressOfFlow, Recorded
<1> QED
  BY <1>2, <1>3, <1>4 DEF OnboardingInv

\* An advance reads the row as the last one wrote it.
LEMMA AdvanceReadInv ==
  ASSUME OnboardingTyped, Requests, OnboardingInv, NEW r \in Req, NEW f \in Flow, NEW s \in Step,
         AdvanceRead(r, f, s)
  PROVE  OnboardingInv'
<1>1. /\ flow' = flow /\ progress' = progress /\ answered' = answered /\ edited' = edited
      /\ exposed' = exposed /\ progress[f].made
  BY DEF AdvanceRead, onboarding
<1>2. PICK x : /\ x.pc = "advance" /\ x.flow = f /\ x.step = s
               /\ x.done = progress[f].done /\ x.steps = flow[f].steps
               /\ req'[r] = x /\ \A q \in Req : q # r => req'[q] = req[q]
  <2>1. PICK x : /\ Put(r, x)
                 /\ x = [Idle EXCEPT !.pc = "advance", !.flow = f, !.step = s,
                                     !.done = progress[f].done, !.steps = flow[f].steps]
    BY Zenon DEF AdvanceRead
  <2>2. /\ x.pc = "advance" /\ x.flow = f /\ x.step = s
        /\ x.done = progress[f].done /\ x.steps = flow[f].steps
    BY <2>1 DEF Idle
  <2>3. req'[r] = x /\ \A q \in Req : q # r => req'[q] = req[q]
    BY <2>1 DEF Put, Requests
  <2> QED
    BY <2>2, <2>3
<1>3. ASSUME NEW q \in Req PROVE Reading(req[q])'
  <2>1. CASE q = r
    BY <1>1, <1>2, <2>1 DEF OnboardingInv, Reading, Recorded
  <2>2. CASE q # r
    BY <1>1, <1>2, <2>2 DEF OnboardingInv, Reading
  <2> QED
    BY <2>1, <2>2
<1>4. ASSUME NEW g \in Flow PROVE ProgressOfFlow(g)' /\ Recorded(g)'
  BY <1>1 DEF OnboardingInv, ProgressOfFlow, Recorded
<1> QED
  BY <1>3, <1>4 DEF OnboardingInv

\* An advance writes what it read and its own step.  Those that have read the
\* same flow and not written yet do not have that step: it is exposed.
LEMMA AdvanceWriteInv ==
  ASSUME OnboardingTyped, Requests, OnboardingInv, NEW r \in Req, AdvanceWrite(r)
  PROVE  OnboardingInv'
<1> PICK x : x = req[r]
  OBVIOUS
<1>0. /\ x.pc = "advance" /\ x.flow \in Flow /\ Reading(x)
      /\ progress[x.flow] \in ProgressRow /\ progress[x.flow].made
  BY DEF AdvanceWrite, OnboardingInv, Reading, OnboardingTyped
<1>1. /\ flow' = flow /\ edited' = edited
      /\ req'[r] = Idle /\ \A q \in Req : q # r => req'[q] = req[q]
  BY DEF AdvanceWrite, Answer, Finish, Put, Requests
<1>2. /\ progress' = [progress EXCEPT ![x.flow].done = x.done \cup {x.step},
                          ![x.flow].complete = @ \/ (x.steps # {} /\ x.steps \subseteq x.done \cup {x.step})]
      /\ answered' = [answered EXCEPT ![x.flow] = @ \cup {x.step}]
      /\ exposed' = IF \E q \in Req \ {r} : req[q].pc = "advance" /\ req[q].flow = x.flow
                      THEN [exposed EXCEPT ![x.flow] = @ \cup {x.step}] ELSE exposed
  BY DEF AdvanceWrite, Answer
<1>3. \A g \in Flow \ {x.flow} :
         progress'[g] = progress[g] /\ answered'[g] = answered[g] /\ exposed'[g] = exposed[g]
  BY <1>2 DEF OnboardingTyped
<1>4. /\ answered'[x.flow] = answered[x.flow] \cup {x.step}
      /\ exposed[x.flow] \subseteq exposed'[x.flow]
      /\ (\E q \in Req \ {r} : req[q].pc = "advance" /\ req[q].flow = x.flow) => x.step \in exposed'[x.flow]
  BY <1>0, <1>2 DEF OnboardingTyped
<1>5. /\ progress'[x.flow].made /\ progress'[x.flow].done = x.done \cup {x.step}
      /\ progress'[x.flow].complete => progress[x.flow].complete \/ x.steps \subseteq x.done \cup {x.step}
  <2>1. progress'[x.flow] = [progress[x.flow] EXCEPT !.done = x.done \cup {x.step},
                               !.complete = @ \/ (x.steps # {} /\ x.steps \subseteq x.done \cup {x.step})]
    BY <1>0, <1>2 DEF OnboardingTyped
  <2> QED
    BY <1>0, <2>1 DEF ProgressRow
<1>6. ASSUME NEW q \in Req PROVE Reading(req[q])'
  <2>1. CASE q = r
    BY <1>1, <2>1 DEF Reading, Idle
  <2>2. CASE q # r /\ req[q].pc = "advance" /\ req[q].flow = x.flow
    BY <1>1, <1>4, <1>5, <2>2 DEF OnboardingInv, Reading
  <2>3. CASE q # r /\ ~(req[q].pc = "advance" /\ req[q].flow = x.flow)
    BY <1>1, <1>3, <2>3 DEF OnboardingInv, Reading
  <2> QED
    BY <2>1, <2>2, <2>3
<1>7. ASSUME NEW g \in Flow PROVE ProgressOfFlow(g)' /\ Recorded(g)'
  <2>1. CASE g = x.flow
    BY <1>0, <1>1, <1>4, <1>5, <2>1 DEF OnboardingInv, ProgressOfFlow, Recorded, Reading
  <2>2. CASE g # x.flow
    BY <1>1, <1>3, <2>2 DEF OnboardingInv, ProgressOfFlow, Recorded
  <2> QED
    BY <2>1, <2>2
<1> QED
  BY <1>6, <1>7 DEF OnboardingInv

LEMMA OnboardingStepInv ==
  ASSUME OnboardingTyped, Requests, OnboardingInv, OnboardingStep
  PROVE  OnboardingInv'
<1>1. CASE ProjectPost
  <2>1. UNCHANGED <<flow, progress, answered, exposed, edited, req>>
    BY <1>1 DEF ProjectPost
  <2> QED
    BY <2>1 DEF OnboardingInv, Reading, ProgressOfFlow, Recorded
<1>2. CASE ProjectDelete
  BY <1>2, DeleteInv DEF ProjectDelete, DeleteProject
<1>3. ASSUME NEW f \in Flow, FlowDelete(f) PROVE OnboardingInv'
  BY <1>3, DeleteInv DEF FlowDelete, DeleteFlow
<1> QED
  BY <1>1, <1>2, <1>3, StartInv, FlowInv, AdvanceReadInv, AdvanceWriteInv
     DEF OnboardingStep, OnboardingAdvance

\* Before the first request nothing is there.
LEMMA InitInv == Init => IndInv
<1> SUFFICES ASSUME Init PROVE IndInv
  OBVIOUS
<1>1. NoProgress \in ProgressRow /\ NoFlow \in FlowRow
  BY DEF ProgressRow, FlowRow, NoProgress, NoFlow
<1>2. BillingTyped
  <2>1. sent = <<>> /\ pending = {} /\ <<>> \in Seq(Kind)
    BY DEF Init
  <2> QED
    BY <2>1 DEF Init, BillingTyped
<1>b. CallersTyped /\ EndpointsTyped
  BY DEF Init, CallersTyped, EndpointsTyped
<1>a. OnboardingTyped /\ Requests
  BY <1>1, IdleTyped DEF Init, OnboardingTyped, Requests
<1>3. ShowsLast /\ AnsweredApplied
  BY DEF Init, ShowsLast, AnsweredApplied, Known
<1>4. EndpointRoom
  <2>1. Created = {} /\ Inserting = {} /\ raised = {}
    BY DEF Init, Created, On, Inserting, Idle
  <2>2. Cardinality({}) = 0 /\ Cardinality(Req) \in Nat
    BY TenancyAssumption, FS_EmptySet, FS_CardinalityType
  <2> QED
    BY <2>1, <2>2, TenancyAssumption DEF EndpointRoom
<1>5. \A r \in Req : Reading(req[r])
  BY DEF Init, Reading, Idle
<1>6. \A f \in Flow : ProgressOfFlow(f) /\ Recorded(f)
  BY DEF Init, ProgressOfFlow, Recorded, NoProgress
<1> QED
  BY <1>2, <1>a, <1>b, <1>3, <1>4, <1>5, <1>6, TypeParts DEF IndInv, OnboardingInv

\* No step of the other areas begins an insert.
LEMMA OtherInserts ==
  ASSUME Requests, CallerStep \/ OnboardingStep
  PROVE  Inserting' \subseteq Inserting
<1> USE DEF Requests, Inserting
<1>1. ASSUME NEW r \in Req, NEW x, Put(r, x), x.pc # "insert" PROVE Inserting' \subseteq Inserting
  BY <1>1 DEF Put
<1>2. ASSUME NEW r \in Req, Finish(r) PROVE Inserting' \subseteq Inserting
  BY <1>2 DEF Finish, Put, Idle
<1>3. ASSUME NEW r \in Req, NEW j \in Jwt, IssueRead(r, j) PROVE Inserting' \subseteq Inserting
  <2>1. PICK p : Put(r, [Idle EXCEPT !.pc = "sign", !.jwt = j, !.plan = p])
    BY <1>3, Zenon DEF IssueRead
  <2>2. PICK x : x = [Idle EXCEPT !.pc = "sign", !.jwt = j, !.plan = p]
    OBVIOUS
  <2>3. x.pc # "insert"
    BY <2>2 DEF Idle
  <2> QED
    BY <1>1, <2>1, <2>2, <2>3, Zenon
<1>4. ASSUME NEW r \in Req, NEW f \in Flow, NEW s \in Step, AdvanceRead(r, f, s)
      PROVE  Inserting' \subseteq Inserting
  <2>1. PICK x : /\ Put(r, x)
                 /\ x = [Idle EXCEPT !.pc = "advance", !.flow = f, !.step = s,
                                     !.done = progress[f].done, !.steps = flow[f].steps]
    BY <1>4, Zenon DEF AdvanceRead
  <2>2. x.pc # "insert"
    BY <2>1 DEF Idle
  <2> QED
    BY <1>1, <2>1, <2>2, Zenon
<1>5. CASE UNCHANGED req
  BY <1>5
<1>6. ASSUME NEW r \in Req, IssueSign(r) \/ AdvanceWrite(r) PROVE Finish(r)
  BY <1>6, Zenon DEF IssueSign, AdvanceWrite, Answer
<1>7. ASSUME NEW j \in Jwt, ExpireJwt(j) PROVE UNCHANGED req
  BY <1>7 DEF ExpireJwt
<1>8. ASSUME NEW k \in Key, ApiKeyPost(k) \/ ApiKeyDelete(k) PROVE UNCHANGED req
  BY <1>8 DEF ApiKeyPost, ApiKeyDelete
<1>9. CASE ProjectPost \/ ProjectDelete \/ \E f \in Flow : FlowDelete(f) \/ OnboardingStart(f)
  BY <1>5, <1>9, Zenon DEF ProjectPost, ProjectDelete, FlowDelete, OnboardingStart
<1>10. ASSUME NEW f \in Flow, NEW active, NEW steps, FlowPost(f, active, steps) \/ FlowPatch(f, active, steps)
       PROVE  UNCHANGED req
  BY <1>10, Zenon DEF FlowPost, FlowPatch
<1> HIDE DEF Inserting
<1>11. CASE CallerStep
  BY <1>2, <1>3, <1>5, <1>6, <1>7, <1>8, <1>11, Zenon DEF CallerStep
<1>12. CASE OnboardingStep
  BY <1>2, <1>4, <1>5, <1>6, <1>9, <1>10, <1>12, Zenon DEF OnboardingStep, OnboardingAdvance
<1> QED
  BY <1>11, <1>12

\* Every step keeps the invariant: the areas meet in the requests only.
LEMMA InvStep == IndInv /\ [Next]_vars => IndInv'
<1> SUFFICES ASSUME IndInv, [Next]_vars PROVE IndInv'
  OBVIOUS
<1>0. /\ BillingTyped /\ EndpointsTyped /\ OnboardingTyped /\ Requests
      /\ ShowsLast /\ AnsweredApplied /\ EndpointRoom /\ OnboardingInv
  BY TypeParts DEF IndInv
<1>1. TypeOK' /\ EndpointsTyped' /\ Requests'
  <2>1. Named
    BY <1>0 DEF OnboardingInv, Reading, Named
  <2>2. TypeOK'
    BY <2>1, TypeStep DEF IndInv
  <2> QED
    BY <2>2 DEF TypeOK, EndpointsTyped, Requests
<1>2. ASSUME UNCHANGED plans PROVE ShowsLast' /\ AnsweredApplied'
  BY <1>0, <1>2 DEF plans, ShowsLast, AnsweredApplied, Known, Shown
<1>3. ASSUME endpoint' = endpoint, raised' = raised, Inserting' \subseteq Inserting PROVE EndpointRoom'
  <2>1. On' = On /\ Created' = Created
    BY <1>3 DEF On, Created
  <2> QED
    BY <1>0, <1>1, <1>3, <2>1, Fewer DEF EndpointRoom
<1>4. ASSUME req' = req PROVE Inserting' = Inserting
  BY <1>4 DEF Inserting
<1> USE <1>0
<1>5. CASE BillingStep /\ UNCHANGED <<jwt, key, endpoint, raised, onboarding, req>>
  <2>1. ShowsLast' /\ AnsweredApplied'
    BY <1>5, BillingInv
  <2>2. EndpointRoom' /\ OnboardingInv'
    BY <1>3, <1>4, <1>5, OtherOnboarding
  <2> QED
    BY <1>1, <2>1, <2>2 DEF IndInv
<1>6. CASE CallerStep /\ UNCHANGED <<areas, plans, endpoint, raised, onboarding>>
  <2>1. EndpointRoom' /\ OnboardingInv'
    BY <1>3, <1>6, OtherInserts, OtherRequests, OtherOnboarding
  <2> QED
    BY <1>1, <1>2, <1>6, <2>1 DEF IndInv
<1>7. CASE EndpointStep /\ UNCHANGED <<areas, plans, jwt, key, onboarding>>
  <2>1. EndpointRoom' /\ OnboardingInv'
    BY <1>7, EndpointInv, OtherRequests, OtherOnboarding
  <2> QED
    BY <1>1, <1>2, <1>7, <2>1 DEF IndInv
<1>8. CASE OnboardingStep /\ UNCHANGED others
  <2>1. UNCHANGED plans /\ endpoint' = endpoint /\ raised' = raised
    BY <1>8 DEF others
  <2>2. EndpointRoom' /\ OnboardingInv'
    BY <1>3, <1>8, <2>1, OtherInserts, OnboardingStepInv
  <2> QED
    BY <1>1, <1>2, <2>1, <2>2 DEF IndInv
<1>9. CASE UNCHANGED vars
  <2>1. UNCHANGED plans /\ UNCHANGED onboarding /\ endpoint' = endpoint /\ raised' = raised /\ req' = req
    BY <1>9 DEF vars
  <2>2. EndpointRoom' /\ OnboardingInv'
    BY <1>3, <1>4, <2>1, OtherOnboarding
  <2> QED
    BY <1>1, <1>2, <2>1, <2>2 DEF IndInv
<1> QED
  BY <1>5, <1>6, <1>7, <1>8, <1>9, Frames

LEMMA Invariance == Spec => []IndInv
BY InitInv, InvStep, PTL DEF Spec

-----------------------------------------------------------------------------
\* Rows, claims, keys, endpoints, flows and requests keep their types.
THEOREM TypeCorrect == Spec => []TypeOK
<1>1. IndInv => TypeOK
  BY DEF IndInv
<1> QED
  BY Invariance, <1>1, PTL

\* When the provider has seen everything answered and nothing was applied after
\* a later event, the Subscription row shows the provider's last known event,
\* although events come twice and a cancellation without a row is refused.
THEOREM PlanIsProviders == Spec => []PlanFollowsProvider
<1>1. IndInv => PlanFollowsProvider
  <2> SUFFICES ASSUME IndInv, pending = {}, ~disordered, Known # {}
               PROVE  LET n == CHOOSE n \in Known : \A m \in Known : m <= n
                      IN subscription = IF sent[n] = "cancel" THEN "FREE" ELSE sent[n]
    BY DEF PlanFollowsProvider
  <2>1. Known \subseteq Nat \ {0} /\ last \in {0} \cup Known
    BY DEF IndInv, TypeOK, ShowsLast, Known
  <2>2. \A m \in Known : m <= last
    BY DEF IndInv, AnsweredApplied
  <2>3. last \in Known /\ last # 0
    <3>1. PICK m \in Known : m <= last
      BY <2>2
    <3> QED
      BY <2>1, <3>1
  <2>4. \A n \in Known : (\A m \in Known : m <= n) => n = last
    BY <2>1, <2>2, <2>3
  <2>5. (CHOOSE n \in Known : \A m \in Known : m <= n) = last
    BY <2>2, <2>3, <2>4
  <2> QED
    BY <2>3, <2>5 DEF IndInv, ShowsLast, Shown
<1> QED
  BY Invariance, <1>1, PTL

\* Creations put no more endpoints over the cap than the requests that counted
\* at the same time as another, whatever is deleted, switched off or on.
THEOREM EndpointsAreBounded == Spec => []EndpointsBounded
<1>1. IndInv => EndpointsBounded
  <2> SUFFICES ASSUME IndInv PROVE EndpointsBounded
    OBVIOUS
  <2>1. EndpointsTyped /\ EndpointRoom
    BY DEF IndInv, TypeOK, EndpointsTyped
  <2>2. Cardinality(Created) \in Nat /\ Cardinality(Inserting) \in Nat /\ Cardinality(Req) \in Nat
    BY <2>1, Finite
  <2> QED
    BY <2>1, <2>2, TenancyAssumption DEF EndpointRoom, EndpointsBounded, Created
<1> QED
  BY Invariance, <1>1, PTL

\* An answered step stays recorded, and completedAt means that every step was,
\* through second starts, edits and deletions, except for steps answered while
\* another advance of the flow was between its read and its write (and, for
\* completedAt, unless the flow's steps were changed).
THEOREM ProgressIsDurable == Spec => []ProgressDurable
<1>1. IndInv => ProgressDurable
  BY DEF IndInv, OnboardingInv, Recorded, ProgressDurable
<1> QED
  BY Invariance, <1>1, PTL
-----------------------------------------------------------------------------
\* AccessBlocklist: the inductive invariant.  RevocationDurable is about what the
\* auth guard decides; what makes it last is where the row is and why it may go.

\* A revocation that was answered has its RevokedJti row until the token is
\* past its exp claim: only then may the clean-up job take the row.
RowOutlivesJwt == acknowledged \subseteq revokedJti \cup expired

\* A request that revokes runs in a process.
Hosted == \A r \in TokenReq : tokenReq[r].pc # "idle" => tokenReq[r].proc \in Proc

TokenInv == TokenTypeOK /\ RowOutlivesJwt /\ Hosted /\ RevocationRecorded

-----------------------------------------------------------------------------
\* Before any token is issued nothing is revoked.
LEMMA TokenInitInv == TokenInit => TokenInv
<1> SUFFICES ASSUME TokenInit PROVE TokenInv
  OBVIOUS
<1>1. Free \in [state: {"free", "live", "revoked"}, sessionId: Session]
  BY SessionAssumption DEF Free
<1>2. TokenTypeOK
  BY <1>1 DEF TokenInit, TokenTypeOK, TokenIdle
<1>3. RowOutlivesJwt /\ Hosted /\ RevocationRecorded
  BY DEF TokenInit, RowOutlivesJwt, Hosted, RevocationRecorded, TokenIdle
<1> QED
  BY <1>2, <1>3 DEF TokenInv

\* Every action keeps the types of the rows, stores and requests.
LEMMA TokenTypeStep == TokenTypeOK /\ Hosted /\ [TokenNext]_tokenVars => TokenTypeOK'
<1> SUFFICES ASSUME TokenTypeOK, Hosted, [TokenNext]_tokenVars PROVE TokenTypeOK'
  OBVIOUS
<1> USE DEF TokenTypeOK
<1>1. ASSUME NEW a \in AccessToken, NEW s \in Session, Issue(a, s) PROVE TokenTypeOK'
  BY <1>1 DEF Issue
<1>2. ASSUME NEW p \in Proc, NEW a \in AccessToken, Logout(p, a) PROVE TokenTypeOK'
  BY <1>2 DEF Logout, BlockOwn
<1>3. ASSUME NEW r \in TokenReq, NEW p \in Proc, NEW S \in SUBSET Session, ListLive(r, p, S)
      PROVE  TokenTypeOK'
  BY <1>3 DEF ListLive
<1>4. ASSUME NEW r \in TokenReq, RevokeMany(r) PROVE TokenTypeOK'
  <2>1. tokenReq[r].tokens \subseteq AccessToken /\ tokenReq[r].proc \in Proc
    BY <1>4 DEF RevokeMany, Hosted
  <2>2. MarkRevoked(r) \in [AccessToken -> [state: {"free", "live", "revoked"},
                                            sessionId: Session]]
    BY DEF MarkRevoked
  <2>3. tokenReq' \in [TokenReq -> [pc: {"idle", "revokeMany", "revokeOne"}, proc: Proc \cup {"none"},
                          scope: SUBSET Session, tokens: SUBSET AccessToken]]
    BY <1>4 DEF RevokeMany, TokenIdle
  <2> QED
    BY <1>4, <2>1, <2>2, <2>3 DEF RevokeMany
<1>5. ASSUME NEW r \in TokenReq, NEW p \in Proc, NEW T \in SUBSET AccessToken, ReadToRevoke(r, p, T)
      PROVE  TokenTypeOK'
  BY <1>5 DEF ReadToRevoke
<1>6. ASSUME NEW r \in TokenReq, RevokeOne(r) PROVE TokenTypeOK'
  <2>1. tokenReq[r].tokens \subseteq AccessToken /\ tokenReq[r].proc \in Proc
    BY <1>6 DEF RevokeOne, Hosted
  <2>2. [a \in AccessToken |-> IF a \in tokenReq[r].tokens THEN [accessToken[a] EXCEPT !.state = "revoked"]
                               ELSE accessToken[a]]
          \in [AccessToken -> [state: {"free", "live", "revoked"}, sessionId: Session]]
    OBVIOUS
  <2>3. accessToken' \in [AccessToken -> [state: {"free", "live", "revoked"}, sessionId: Session]]
        /\ revokedJti' \subseteq AccessToken
    BY <1>6, <2>1, <2>2 DEF RevokeOne
  <2>4. tokenReq' \in [TokenReq -> [pc: {"idle", "revokeMany", "revokeOne"}, proc: Proc \cup {"none"},
                          scope: SUBSET Session, tokens: SUBSET AccessToken]]
    BY <1>6 DEF RevokeOne, TokenIdle
  <2> QED
    BY <1>6, <2>1, <2>3, <2>4 DEF RevokeOne
<1>7. ASSUME NEW p \in Proc, KillChain(p) PROVE TokenTypeOK'
  BY <1>7 DEF KillChain
<1>8. ASSUME NEW p \in Proc, NEW a \in AccessToken, BlockJti(p, a) PROVE TokenTypeOK'
  <2>1. redis' \subseteq AccessToken /\ memStore' \in [Proc -> SUBSET AccessToken]
    <3>1. CASE redis' = redis \cup {a} /\ UNCHANGED memStore
      BY <3>1
    <3>2. CASE memStore' = [memStore EXCEPT ![p] = @ \cup {a}] /\ UNCHANGED redis
      BY <3>2
    <3> QED
      BY <1>8, <3>1, <3>2 DEF BlockJti
  <2> QED
    BY <1>8, <2>1 DEF BlockJti
<1>9. ASSUME NEW p \in Proc, Restart(p) PROVE TokenTypeOK'
  BY <1>9 DEF Restart, TokenIdle
<1>10. ASSUME NEW a \in AccessToken, Expire(a) \/ CleanupJti(a) PROVE TokenTypeOK'
  BY <1>10 DEF Expire, CleanupJti
<1>11. CASE UNCHANGED tokenVars
  BY <1>11 DEF tokenVars
<1> QED
  BY <1>1, <1>2, <1>3, <1>4, <1>5, <1>6, <1>7, <1>8, <1>9, <1>10, <1>11
     DEF TokenNext, LogoutNoSession, RevokeToken, SwitchContext

\* A request that revokes is never left without its process: Restart ends the
\* requests of the process it stops.
LEMMA HostedStep == TokenTypeOK /\ Hosted /\ [TokenNext]_tokenVars => Hosted'
<1> SUFFICES ASSUME TokenTypeOK, Hosted, [TokenNext]_tokenVars, NEW r \in TokenReq, tokenReq'[r].pc # "idle"
             PROVE  tokenReq'[r].proc \in Proc
  BY DEF Hosted
<1> USE DEF TokenTypeOK, Hosted, TokenIdle
<1>1. ASSUME NEW q \in TokenReq, NEW p \in Proc, NEW S \in SUBSET Session, ListLive(q, p, S)
      PROVE  tokenReq'[r].proc \in Proc
  BY <1>1 DEF ListLive
<1>2. ASSUME NEW q \in TokenReq, NEW p \in Proc, NEW T, ReadToRevoke(q, p, T)
      PROVE  tokenReq'[r].proc \in Proc
  BY <1>2 DEF ReadToRevoke
<1>3. ASSUME NEW q \in TokenReq, RevokeMany(q) \/ RevokeOne(q) PROVE tokenReq'[r].proc \in Proc
  BY <1>3 DEF RevokeMany, RevokeOne
<1>4. ASSUME NEW p \in Proc, Restart(p) PROVE tokenReq'[r].proc \in Proc
  BY <1>4 DEF Restart
<1>5. CASE UNCHANGED tokenReq
  BY <1>5
<1>6. ASSUME NEW a \in AccessToken, Expire(a) \/ CleanupJti(a) \/ \E s \in Session : Issue(a, s)
      PROVE  UNCHANGED tokenReq
  BY <1>6 DEF Expire, CleanupJti, Issue
<1>7. ASSUME NEW p \in Proc, KillChain(p) \/ \E a \in AccessToken : BlockJti(p, a) \/ Logout(p, a)
      PROVE  UNCHANGED tokenReq
  BY <1>7 DEF KillChain, BlockJti, Logout, BlockOwn
<1> QED
  BY <1>1, <1>2, <1>3, <1>4, <1>5, <1>6, <1>7 DEF TokenNext, LogoutNoSession, RevokeToken, SwitchContext, tokenVars

\* No step takes a row whose token may still be used: only CleanupJti deletes
\* rows, and expired only grows.
LEMMA RowStep == RowOutlivesJwt /\ [TokenNext]_tokenVars => RowOutlivesJwt'
<1> SUFFICES ASSUME RowOutlivesJwt, [TokenNext]_tokenVars PROVE RowOutlivesJwt'
  OBVIOUS
<1> USE DEF RowOutlivesJwt
<1>1. ASSUME NEW r \in TokenReq, RevokeMany(r) PROVE RowOutlivesJwt'
  BY <1>1 DEF RevokeMany
<1>2. ASSUME NEW r \in TokenReq, RevokeOne(r) PROVE RowOutlivesJwt'
  BY <1>2 DEF RevokeOne
<1>3. ASSUME NEW a \in AccessToken, Expire(a) PROVE RowOutlivesJwt'
  BY <1>3 DEF Expire
<1>4. ASSUME NEW a \in AccessToken, CleanupJti(a) PROVE RowOutlivesJwt'
  BY <1>4 DEF CleanupJti
<1>5. ASSUME NEW p \in Proc, NEW a \in AccessToken, Logout(p, a) PROVE RowOutlivesJwt'
  BY <1>5 DEF Logout, BlockOwn
<1>6. CASE UNCHANGED <<revokedJti, expired, acknowledged>>
  BY <1>6
<1>7. ASSUME NEW r \in TokenReq, NEW p \in Proc,
             \/ \E S \in SUBSET Session \ {{}} : ListLive(r, p, S)
             \/ \E a \in AccessToken : RevokeToken(r, p, a)
             \/ \E s \in Session : SwitchContext(r, p, s)
      PROVE  UNCHANGED <<revokedJti, expired, acknowledged>>
  BY <1>7 DEF ListLive, RevokeToken, SwitchContext, ReadToRevoke
<1>8. ASSUME NEW p \in Proc, Restart(p) \/ KillChain(p) \/ \E a \in AccessToken : BlockJti(p, a)
      PROVE  UNCHANGED <<revokedJti, expired, acknowledged>>
  BY <1>8 DEF Restart, KillChain, BlockJti
<1>9. ASSUME NEW a \in AccessToken, NEW s \in Session, Issue(a, s)
      PROVE  UNCHANGED <<revokedJti, expired, acknowledged>>
  BY <1>9 DEF Issue
<1> QED
  BY <1>1, <1>2, <1>3, <1>4, <1>5, <1>6, <1>7, <1>8, <1>9 DEF TokenNext, LogoutNoSession, tokenVars

\* A started revocation moves from the call under way to a store, and from
\* Redis only to the expired tokens.
LEMMA RecordedStep ==
  TokenTypeOK /\ Hosted /\ RevocationRecorded /\ [TokenNext]_tokenVars => RevocationRecorded'
<1> DEFINE Held(b) ==
      b[2] \in expired \cup revokedJti \cup redis \cup memStore[b[1]] \/ b \in blocking
<1> SUFFICES ASSUME TokenTypeOK, Hosted, RevocationRecorded, [TokenNext]_tokenVars, NEW b \in started'
             PROVE  Held(b)'
  BY DEF RevocationRecorded
<1>0. b \in started => b[1] \in Proc /\ b[2] \in AccessToken /\ b = <<b[1], b[2]>> /\ Held(b)
  BY DEF RevocationRecorded, TokenTypeOK
<1>1. ASSUME NEW r \in TokenReq, RevokeMany(r) PROVE Held(b)'
  BY <1>0, <1>1 DEF RevokeMany
<1>2. ASSUME NEW r \in TokenReq, RevokeOne(r) PROVE Held(b)'
  <2>1. CASE b \in started
    BY <1>0, <1>2, <2>1 DEF RevokeOne
  <2>2. CASE b \in {tokenReq[r].proc} \X tokenReq[r].tokens
    BY <1>2, <2>2 DEF RevokeOne
  <2> QED
    BY <1>2, <2>1, <2>2 DEF RevokeOne
<1>3. ASSUME NEW a \in AccessToken, Expire(a) PROVE Held(b)'
  BY <1>0, <1>3 DEF Expire
<1>4. ASSUME NEW a \in AccessToken, CleanupJti(a) PROVE Held(b)'
  BY <1>0, <1>4 DEF CleanupJti
<1>5. ASSUME NEW p \in Proc, NEW a \in AccessToken, Logout(p, a) PROVE Held(b)'
  BY <1>0, <1>5 DEF Logout, BlockOwn
<1>6. ASSUME NEW p \in Proc, NEW a \in AccessToken, BlockJti(p, a) PROVE Held(b)'
  <2>1. b \in started /\ expired' = expired /\ revokedJti' = revokedJti
    BY <1>6 DEF BlockJti
  <2>2. CASE redis' = redis \cup {a} /\ UNCHANGED memStore
    BY <1>0, <1>6, <2>1, <2>2 DEF BlockJti
  <2>3. CASE memStore' = [memStore EXCEPT ![p] = @ \cup {a}] /\ UNCHANGED redis
    <3>1. memStore[b[1]] \subseteq memStore'[b[1]] /\ a \in memStore'[p]
      BY <1>0, <2>1, <2>3 DEF TokenTypeOK
    <3> QED
      BY <1>0, <1>6, <2>1, <2>3, <3>1 DEF BlockJti
  <2> QED
    BY <1>6, <2>2, <2>3 DEF BlockJti
<1>7. ASSUME NEW p \in Proc, Restart(p) PROVE Held(b)'
  <2>1. b \in started /\ b[1] # p
    BY <1>7 DEF Restart
  <2>2. memStore'[b[1]] = memStore[b[1]]
    BY <1>0, <1>7, <2>1 DEF Restart, TokenTypeOK
  <2> QED
    BY <1>0, <1>7, <2>1, <2>2 DEF Restart
<1>8. ASSUME NEW p \in Proc, KillChain(p) PROVE Held(b)'
  BY <1>0, <1>8 DEF KillChain
<1>9. CASE UNCHANGED <<revokedJti, redis, memStore, blocking, expired, started>>
  BY <1>0, <1>9
<1>10. ASSUME NEW r \in TokenReq, NEW p \in Proc,
              \/ \E S \in SUBSET Session \ {{}} : ListLive(r, p, S)
              \/ \E a \in AccessToken : RevokeToken(r, p, a)
              \/ \E s \in Session : SwitchContext(r, p, s)
       PROVE  UNCHANGED <<revokedJti, redis, memStore, blocking, expired, started>>
  BY <1>10 DEF ListLive, RevokeToken, SwitchContext, ReadToRevoke
<1>11. ASSUME NEW a \in AccessToken, NEW s \in Session, Issue(a, s)
       PROVE  UNCHANGED <<revokedJti, redis, memStore, blocking, expired, started>>
  BY <1>11 DEF Issue
<1> HIDE DEF Held
<1> QED
  BY <1>1, <1>2, <1>3, <1>4, <1>5, <1>6, <1>7, <1>8, <1>9, <1>10, <1>11 DEF TokenNext, LogoutNoSession, tokenVars

-----------------------------------------------------------------------------
\* The invariant holds in every reachable state.
LEMMA TokenInvariance == TokenSpec => []TokenInv
<1>1. TokenInv /\ [TokenNext]_tokenVars => TokenInv'
  BY TokenTypeStep, HostedStep, RowStep, RecordedStep DEF TokenInv
<1> QED
  BY TokenInitInv, <1>1, PTL DEF TokenSpec

\* The rows, stores, calls and requests keep their types.
THEOREM TokensTypeCorrect == TokenSpec => []TokenTypeOK
<1>1. TokenInv => TokenTypeOK
  BY DEF TokenInv
<1> QED
  BY TokenInvariance, <1>1, PTL

\* A token whose revocation was answered is refused by every process from then
\* on, whether Redis answers or not: requireUser looks at the row until exp and
\* at exp afterwards.
THEOREM RevocationIsDurable == TokenSpec => []RevocationDurable
<1>1. TokenInv => RevocationDurable
  BY DEF TokenInv, RowOutlivesJwt, RevocationDurable, Refused, RequireUser
<1> QED
  BY TokenInvariance, <1>1, PTL

\* A revocation that was started and not awaited is held by some store, or is
\* still under way, until its token expires or its process restarts.
THEOREM RevocationIsRecorded == TokenSpec => []RevocationRecorded
<1>1. TokenInv => RevocationRecorded
  BY DEF TokenInv
<1> QED
  BY TokenInvariance, <1>1, PTL
=============================================================================
