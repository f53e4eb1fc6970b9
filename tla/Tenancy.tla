------------------------------- MODULE Tenancy -------------------------------
(***************************************************************************)
(* What one tenant owns: its subscription, kept in step with a payment     *)
(* provider's webhooks; the access tokens that carry the plan as a claim   *)
(* and the API keys that do not; the webhook endpoints that a paid plan    *)
(* and a cap allow; and a project with the onboarding flows and the        *)
(* progress of one identity through each.                                  *)
(*                                                                         *)
(* None of these requests runs in a transaction of more than one           *)
(* statement: a request is its statements, in req[r] what it has read.     *)
(***************************************************************************)
EXTENDS Naturals, Sequences, FiniteSets

CONSTANTS
  PaidPlan,     \* plans above FREE
  MaxEvents,    \* events the provider sends, per set of areas (a bound)
  Jwt,          \* access tokens that are live at the same time (a bound)
  Key,          \* API keys that may be created (a bound)
  Endpoint,     \* webhook endpoints that may be created (a bound)
  EndpointCap,  \* active endpoints per tenant (10)
  Flow,         \* onboarding flows that may be created (a bound)
  Step,         \* ids of onboarding steps
  Req,          \* requests the server handles at the same time
  Together,     \* the sets of areas that one behaviour works on (a bound)
  None          \* SQL NULL

Area == {"billing", "token", "key", "endpoint", "onboarding"}
Plan == {"FREE"} \cup PaidPlan

ASSUME TenancyAssumption ==
  /\ PaidPlan \cap {"FREE", "cancel", "unknown"} = {}
  /\ MaxEvents \in [Together -> Nat] /\ EndpointCap \in Nat \ {0}
  /\ Together \subseteq SUBSET Area
  /\ None \notin Plan \cup Jwt \cup Key \cup Endpoint \cup Flow \cup Step
  /\ IsFiniteSet(Endpoint) /\ IsFiniteSet(Req)

VARIABLES
  areas,         \* what this behaviour works on, never changed
  subscription,  \* plan of the Subscription row (always ACTIVE), None without one
  sent,          \* events of the provider, in the order it sent them
  pending,       \* those it has not seen answered with 200
  jwt,           \* plan claim of each live access token, None when there is none
  key,           \* ApiKey rows
  endpoint,      \* WebhookEndpoint rows
  project,       \* the Project row
  flow,          \* OnboardingFlow rows
  progress,      \* OnboardingProgress rows of the identity, one per flow
  req,           \* requests in progress
  last,          \* history: the event applied last
  disordered,    \* history: an event was applied after a later one
  raised,        \* history: endpoints that a PATCH has enabled
  answered,      \* history: steps whose advance was answered, per flow
  exposed,       \* history: steps answered while another advance of the flow was under way
  edited,        \* history: flows whose steps were changed
  refused        \* history: a flow or project was not deleted, because of progress

plans == <<subscription, sent, pending, last, disordered>>
onboarding == <<project, flow, progress, answered, exposed, edited, refused>>
vars == <<areas, plans, jwt, key, endpoint, raised, onboarding, req>>

Kind == PaidPlan \cup {"cancel", "unknown"}
Pc == {"idle", "sign", "count", "insert", "advance"}
Request == [pc: Pc, plan: Plan \cup {None}, jwt: Jwt \cup {None}, flow: Flow \cup {None}, step: Step \cup {None},
            done: SUBSET Step, steps: SUBSET Step]
Idle == [pc |-> "idle", plan |-> None, jwt |-> None, flow |-> None, step |-> None,
         done |-> {}, steps |-> {}]

NoFlow == [state |-> "none", active |-> FALSE, steps |-> {}]
NoProgress == [made |-> FALSE, done |-> {}, complete |-> FALSE]

TypeOK ==
  /\ areas \in Together
  /\ subscription \in Plan \cup {None}
  /\ sent \in Seq(Kind) /\ pending \subseteq DOMAIN sent
  /\ jwt \in [Jwt -> Plan \cup {None}]
  /\ key \in [Key -> {"none", "ACTIVE", "REVOKED"}]
  /\ endpoint \in [Endpoint -> {"none", "on", "off", "deleted"}]
  /\ project \in {"none", "made", "deleted"}
  /\ flow \in [Flow -> [state: {"none", "made", "deleted"}, active: BOOLEAN, steps: SUBSET Step]]
  /\ progress \in [Flow -> [made: BOOLEAN, done: SUBSET Step, complete: BOOLEAN]]
  /\ req \in [Req -> Request]
  /\ last \in Nat /\ disordered \in BOOLEAN
  /\ raised \subseteq Endpoint /\ answered \in [Flow -> SUBSET Step]
  /\ exposed \in [Flow -> SUBSET Step] /\ edited \subseteq Flow /\ refused \in BOOLEAN

Init ==
  /\ areas \in Together
  /\ subscription = None /\ sent = <<>> /\ pending = {}
  /\ jwt = [j \in Jwt |-> None]
  /\ key = [k \in Key |-> "none"]
  /\ endpoint = [e \in Endpoint |-> "none"]
  /\ project = "none"
  /\ flow = [f \in Flow |-> NoFlow]
  /\ progress = [f \in Flow |-> NoProgress]
  /\ req = [r \in Req |-> Idle]
  /\ last = 0 /\ disordered = FALSE /\ raised = {} /\ edited = {} /\ refused = FALSE
  /\ answered = [f \in Flow |-> {}] /\ exposed = [f \in Flow |-> {}]

-----------------------------------------------------------------------------
Put(r, x) == req' = [req EXCEPT ![r] = x]
Goto(r, p) == Put(r, [req[r] EXCEPT !.pc = p])
Finish(r) == Put(r, Idle)

-----------------------------------------------------------------------------
\* Billing.  The provider sends an event until it sees it answered with 200, and
\* later events may overtake it.

\* A subscription starts, is charged or ends at the provider, or something
\* happens to a plan that the plan map does not know.
Send(kind) ==
  /\ "billing" \in areas /\ Len(sent) < MaxEvents[areas]
  /\ sent' = Append(sent, kind)
  /\ pending' = pending \cup {Len(sent) + 1}
  /\ UNCHANGED <<areas, subscription, last, disordered, jwt, key, endpoint, raised, onboarding, req>>

Apply(n) == last' = n /\ disordered' = (disordered \/ n < last)

\* Mutant: upsert with an empty update.
ActivateFromProviderOnce(n) ==
  /\ subscription' = IF subscription = None THEN sent[n] ELSE subscription
  /\ Apply(n)

ActivateFromProvider(n) == subscription' = sent[n] /\ Apply(n)

\* update() throws when there is no row.
CancelFromProvider(n) == subscription # None /\ subscription' = "FREE" /\ Apply(n)

\* POST /webhooks/billing/paystack and /stripe do the same with names of their
\* own: an event with a known plan activates, a cancellation cancels, and
\* anything else, or one without a tenant, is answered and ignored.
Receive(n) ==
  \/ sent[n] \in PaidPlan /\ ActivateFromProvider(n)
  \/ sent[n] = "cancel" /\ CancelFromProvider(n)
  \/ sent[n] = "unknown" /\ UNCHANGED <<subscription, last, disordered>>

\* The audit row is written after the change and before the answer, so an event
\* may have been applied and be sent again all the same.
Deliver(n, acknowledged) ==
  /\ n \in pending /\ Receive(n)
  /\ pending' = IF acknowledged THEN pending \ {n} ELSE pending
  /\ UNCHANGED <<areas, sent, jwt, key, endpoint, raised, onboarding, req>>

-----------------------------------------------------------------------------
\* Tokens and keys.

FreeJwt == {j \in Jwt : jwt[j] = None /\ \A r \in Req : req[r].jwt # j}

\* Mutant: a refresh keeps the claim of the token it replaces.
IssueReadClaim(r, j) ==
  /\ req[r].pc = "idle" /\ "token" \in areas /\ j \in FreeJwt
  /\ \E plan \in {subscription} \cup {jwt[i] : i \in Jwt} :
       Put(r, [Idle EXCEPT !.pc = "sign", !.jwt = j, !.plan = IF plan = None THEN "FREE" ELSE plan])
  /\ UNCHANGED <<areas, plans, jwt, key, endpoint, raised, onboarding>>

\* TokenService.issue, for a login, a refresh or a context switch: it reads
\* the subscription ...
IssueRead(r, j) ==
  /\ req[r].pc = "idle" /\ "token" \in areas /\ j \in FreeJwt
  /\ Put(r, [Idle EXCEPT !.pc = "sign", !.jwt = j,
                         !.plan = IF subscription = None THEN "FREE" ELSE subscription])
  /\ UNCHANGED <<areas, plans, jwt, key, endpoint, raised, onboarding>>

\* ... and signs what it has read.
IssueSign(r) ==
  /\ req[r].pc = "sign"
  /\ jwt' = [jwt EXCEPT ![req[r].jwt] = req[r].plan]
  /\ Finish(r)
  /\ UNCHANGED <<areas, plans, key, endpoint, raised, onboarding>>

\* The access token's exp passes (accessTtl).
ExpireJwt(j) ==
  /\ jwt[j] # None
  /\ jwt' = [jwt EXCEPT ![j] = None]
  /\ UNCHANGED <<areas, plans, key, endpoint, raised, onboarding, req>>

CreateApiKey(k) == key[k] = "none" /\ key' = [key EXCEPT ![k] = "ACTIVE"]

ApiKeyPost(k) ==
  /\ "key" \in areas /\ CreateApiKey(k)
  /\ UNCHANGED <<areas, plans, jwt, endpoint, raised, onboarding, req>>

\* findApiKey, by its hash; a revoked key is refused.
ActiveKey(k) == key[k] = "ACTIVE"

\* updateMany on the ACTIVE key; 404 when it changes nothing.
RevokeApiKey(k) == ActiveKey(k) /\ key' = [key EXCEPT ![k] = "REVOKED"]

ApiKeyDelete(k) ==
  /\ RevokeApiKey(k)
  /\ UNCHANGED <<areas, plans, jwt, endpoint, raised, onboarding, req>>

\* requirePlan: a token has the plan it was signed with, a key the plan that
\* the subscription has now.
KeyPlan(k) == IF ActiveKey(k) /\ subscription # None THEN subscription ELSE "FREE"
PaidCaller == (\E j \in Jwt : jwt[j] \in PaidPlan) \/ (\E k \in Key : KeyPlan(k) \in PaidPlan)

-----------------------------------------------------------------------------
\* Webhook endpoints.

On == {e \in Endpoint : endpoint[e] = "on"}

EndpointPost(r) ==
  /\ req[r].pc = "idle" /\ "endpoint" \in areas /\ PaidCaller
  /\ Put(r, [Idle EXCEPT !.pc = "count"])
  /\ UNCHANGED <<areas, plans, jwt, key, endpoint, raised, onboarding>>

\* Mutant: the cap is compared with > instead of >=.
EndpointCountOver(r) ==
  /\ req[r].pc = "count"
  /\ IF Cardinality(On) > EndpointCap THEN Finish(r) ELSE Goto(r, "insert")
  /\ UNCHANGED <<areas, plans, jwt, key, endpoint, raised, onboarding>>

EndpointCount(r) ==
  /\ req[r].pc = "count"
  /\ IF Cardinality(On) >= EndpointCap THEN Finish(r) ELSE Goto(r, "insert")
  /\ UNCHANGED <<areas, plans, jwt, key, endpoint, raised, onboarding>>

\* The request fails here when the bound on endpoints is used up.
EndpointInsert(r) ==
  /\ req[r].pc = "insert"
  /\ \/ \E e \in Endpoint, state \in {"on", "off"} :
          endpoint[e] = "none" /\ endpoint' = [endpoint EXCEPT ![e] = state]
     \/ (\A e \in Endpoint : endpoint[e] # "none") /\ UNCHANGED endpoint
  /\ Finish(r)
  /\ UNCHANGED <<areas, plans, jwt, key, raised, onboarding>>

\* PATCH sets enabled without a look at the cap.
EndpointPatch(e, state) ==
  /\ PaidCaller /\ endpoint[e] \in {"on", "off"} \ {state}
  /\ endpoint' = [endpoint EXCEPT ![e] = state]
  /\ raised' = IF state = "on" THEN raised \cup {e} ELSE raised \ {e}
  /\ UNCHANGED <<areas, plans, jwt, key, onboarding, req>>

EndpointDelete(e) ==
  /\ PaidCaller /\ endpoint[e] \in {"on", "off"}
  /\ endpoint' = [endpoint EXCEPT ![e] = "deleted"]
  /\ raised' = raised \ {e}
  /\ UNCHANGED <<areas, plans, jwt, key, onboarding, req>>

-----------------------------------------------------------------------------
\* Projects and onboarding.

others == <<areas, plans, jwt, key, endpoint, raised>>

\* ProjectService.create, and the route over it.
CreateProject == project = "none" /\ project' = "made"

ProjectPost ==
  /\ "onboarding" \in areas /\ CreateProject
  /\ UNCHANGED <<others, flow, progress, answered, exposed, edited, refused, req>>

\* DELETE on the flows F.  Nothing cascades from a flow to its progress: the
\* foreign key restricts, and a row that refers to one of F fails the statement.
Restricted(F) == \E f \in F : progress[f].made
DeleteRows(F) ==
  /\ ~Restricted(F)
  /\ flow' = [f \in Flow |-> IF f \in F THEN [NoFlow EXCEPT !.state = "deleted"] ELSE flow[f]]
  /\ UNCHANGED refused
Refuse(F) == Restricted(F) /\ refused' = TRUE /\ UNCHANGED flow

\* The flows go with the project, all of them or the statement fails.
DeleteProject ==
  LET F == {f \in Flow : flow[f].state = "made"} IN
  /\ project = "made"
  /\ \/ DeleteRows(F) /\ project' = "deleted"
     \/ Refuse(F) /\ UNCHANGED project

ProjectDelete == DeleteProject /\ UNCHANGED <<others, progress, answered, exposed, edited, req>>

\* Every flow route asks first whether the project is the tenant's.
ProjectGetById == project = "made"

CreateFlow(f, active, steps) ==
  /\ flow[f].state = "none"
  /\ flow' = [flow EXCEPT ![f] = [state |-> "made", active |-> active, steps |-> steps]]

FlowPost(f, active, steps) ==
  /\ ProjectGetById /\ CreateFlow(f, active, steps)
  /\ UNCHANGED <<others, project, progress, answered, exposed, edited, refused, req>>

\* A field left out of the body keeps its value.
UpdateFlow(f, active, steps) ==
  /\ flow[f].state = "made"
  /\ flow' = [flow EXCEPT ![f].active = active, ![f].steps = steps]
  /\ edited' = IF steps # flow[f].steps THEN edited \cup {f} ELSE edited

FlowPatch(f, active, steps) ==
  /\ ProjectGetById /\ UpdateFlow(f, active, steps)
  /\ UNCHANGED <<others, project, progress, answered, exposed, refused, req>>

DeleteFlow(f) == flow[f].state = "made" /\ (DeleteRows({f}) \/ Refuse({f}))

FlowDelete(f) ==
  /\ ProjectGetById /\ DeleteFlow(f)
  /\ UNCHANGED <<others, project, progress, answered, exposed, edited, req>>

\* Upsert: a second start changes nothing.
StartProgress(f) ==
  /\ flow[f].state = "made" /\ flow[f].active
  /\ progress' = [progress EXCEPT ![f].made = TRUE]

OnboardingStart(f) ==
  /\ StartProgress(f)
  /\ UNCHANGED <<others, project, flow, answered, exposed, edited, refused, req>>

AdvanceRead(r, f, s) ==
  /\ req[r].pc = "idle" /\ progress[f].made
  /\ Put(r, [Idle EXCEPT !.pc = "advance", !.flow = f, !.step = s,
                         !.done = progress[f].done, !.steps = flow[f].steps])
  /\ UNCHANGED <<others, onboarding>>

\* The step of request x is answered: it is recorded, and others may be about to
\* write a list that they made without it.
Answer(r, x) ==
  /\ answered' = [answered EXCEPT ![x.flow] = @ \cup {x.step}]
  /\ exposed' = IF \E q \in Req \ {r} : req[q].pc = "advance" /\ req[q].flow = x.flow
                  THEN [exposed EXCEPT ![x.flow] = @ \cup {x.step}] ELSE exposed
  /\ Finish(r)

\* Mutant: the new step replaces the steps completed before.
AdvanceWriteOnly(r) ==
  LET q == req[r] IN
  /\ q.pc = "advance"
  /\ progress' = [progress EXCEPT ![q.flow].done = {q.step}]
  /\ Answer(r, q)
  /\ UNCHANGED <<others, project, flow, edited, refused>>

\* The update by id writes the list made from what was read; completedAt is
\* set when that list has every step, and is never cleared.
AdvanceWrite(r) ==
  LET q == req[r] done == q.done \cup {q.step} IN
  /\ q.pc = "advance"
  /\ progress' = [progress EXCEPT ![q.flow].done = done,
                    ![q.flow].complete = @ \/ (q.steps # {} /\ q.steps \subseteq done)]
  /\ Answer(r, q)
  /\ UNCHANGED <<others, project, flow, edited, refused>>

OnboardingAdvance(r) == AdvanceWrite(r) \/ \E f \in Flow, s \in Step : AdvanceRead(r, f, s)

-----------------------------------------------------------------------------
BillingStep ==
  \/ \E kind \in Kind : Send(kind)
  \/ \E n \in DOMAIN sent, acknowledged \in BOOLEAN : Deliver(n, acknowledged)

CallerStep ==
  \/ \E r \in Req : IssueSign(r) \/ \E j \in Jwt : IssueRead(r, j)
  \/ \E j \in Jwt : ExpireJwt(j)
  \/ \E k \in Key : ApiKeyPost(k) \/ ApiKeyDelete(k)

EndpointStep ==
  \/ \E r \in Req : EndpointPost(r) \/ EndpointCount(r) \/ EndpointInsert(r)
  \/ \E e \in Endpoint : EndpointDelete(e) \/ \E state \in {"on", "off"} : EndpointPatch(e, state)

OnboardingStep ==
  \/ ProjectPost \/ ProjectDelete
  \/ \E f \in Flow : FlowDelete(f) \/ OnboardingStart(f)
  \/ \E f \in Flow, active \in BOOLEAN, steps \in SUBSET Step \ {{}} :
       FlowPost(f, active, steps) \/ FlowPatch(f, active, steps)
  \/ \E r \in Req : OnboardingAdvance(r)

Next == BillingStep \/ CallerStep \/ EndpointStep \/ OnboardingStep

\* Time passes, and a request that has started goes on.
Fairness ==
  /\ \A j \in Jwt : WF_vars(ExpireJwt(j))
  /\ \A r \in Req : WF_vars(IssueSign(r))

Spec == Init /\ [][Next]_vars /\ Fairness

-----------------------------------------------------------------------------
\* When the provider has nothing left to send and no event was applied after a
\* later one, the tenant has the plan of the last event: events that came
\* twice, and cancellations refused for want of a row, leave no trace.
Known == {n \in DOMAIN sent : sent[n] # "unknown"}
PlanFollowsProvider ==
  pending = {} /\ ~disordered /\ Known # {} =>
    LET n == CHOOSE n \in Known : \A m \in Known : m <= n
    IN subscription = IF sent[n] = "cancel" THEN "FREE" ELSE sent[n]

\* A cancellation reaches the tokens: as long as the plan stays FREE there
\* comes a time when nobody holds, or is about to be given, a paid claim.
NobodyPaid == /\ \A j \in Jwt : jwt[j] \notin PaidPlan
              /\ \A r \in Req : req[r].pc = "sign" => req[r].plan \notin PaidPlan
EventuallyDowngraded == (subscription = "FREE") ~> (subscription # "FREE" \/ NobodyPaid)

\* The cap on active endpoints: creations overrun it by no more than the
\* requests that counted at the same time.
EndpointsBounded == Cardinality(On \ raised) <= EndpointCap + Cardinality(Req) - 1

\* The service is to "durably record what's been completed": an answered step
\* stays recorded, whatever is advanced, edited or deleted afterwards, unless
\* another advance of the flow was between its read and its write when it was
\* answered; and completedAt means that every step was recorded, with the same
\* exception, unless the steps were changed.
ProgressDurable ==
  \A f \in Flow :
    /\ answered[f] \ exposed[f] \subseteq progress[f].done
    /\ progress[f].complete /\ f \notin edited =>
         flow[f].steps \subseteq progress[f].done \cup exposed[f]

\* "Cascades to OnboardingProgress via the schema's onDelete: Cascade": the
\* deletion of a flow, or of the project it belongs to, does not fail because
\* somebody has begun it.
DeletionCascades == ~refused
=============================================================================
