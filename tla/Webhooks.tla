-------------------------------- MODULE Webhooks --------------------------------
(***************************************************************************)
(* Outbound webhooks of an organization: emit() makes a delivery for every *)
(* endpoint that wants the event and sees to all of them at once; the      *)
(* first that fails ends the call, and the others go on without it.  An    *)
(* endpoint can be configured again, with a new secret, at any moment.     *)
(* URLs that are not safe, bodies and signatures themselves are left out:  *)
(* a receiver accepts what is signed with the secret it has.               *)
(***************************************************************************)
EXTENDS Naturals

CONSTANTS
  Endpoints,
  Emissions,  \* calls of emit, one each
  Secrets     \* secrets of endpoints, 0 when there is no endpoint yet

VARIABLES
  endpoint, \* WebhookEndpoint: its secret and whether it wants the event and is not disabled
  delivery, \* WebhookDelivery of an emission and an endpoint: its status and attempts
  work,     \* what an emission has to do for an endpoint: the next step, the secret read
  accepted, \* deliveries a receiver has accepted (history)
  answered  \* did a receiver's answer arrive, and was it good? (history)

vars == <<endpoint, delivery, work, accepted, answered>>

Delivery == Emissions \X Endpoints
None == [status |-> "NONE", attempts |-> 0]
Rest == [step |-> "rest", secret |-> 0]

TypeOK ==
  /\ endpoint \in [Endpoints -> [secret : Secrets \cup {0}, active : BOOLEAN]]
  /\ delivery \in [Delivery -> {None} \cup [status : {"PENDING", "DELIVERED", "FAILED"},
                                            attempts : 0..1]]
  /\ work \in [Delivery -> [step : {"rest", "create", "deliver", "good", "bad", "over"},
                            secret : Secrets \cup {0}]]
  /\ accepted \subseteq Delivery /\ answered \subseteq Delivery

Init ==
  /\ endpoint = [e \in Endpoints |-> [secret |-> 0, active |-> FALSE]]
  /\ delivery = [d \in Delivery |-> None] /\ work = [d \in Delivery |-> Rest]
  /\ accepted = {} /\ answered = {}

Goto(d, step) == work' = [work EXCEPT ![d].step = step]

\* The endpoint is made, or written over and enabled again.
createWebhookEndpoint(e, secret) ==
  endpoint' = [endpoint EXCEPT ![e] = [secret |-> secret, active |-> TRUE]]

configure(e, secret) ==
  /\ createWebhookEndpoint(e, secret)
  /\ UNCHANGED <<delivery, work, accepted, answered>>

listActiveEndpoints == {e \in Endpoints : endpoint[e].active}

\* The active endpoints are read at once, with their secrets.
emit(m) ==
  /\ \A e \in Endpoints : work[<<m, e>>] = Rest
  /\ listActiveEndpoints # {}
  /\ work' = [d \in Delivery |->
                IF d[1] # m THEN work[d]
                ELSE [step |-> IF d[2] \in listActiveEndpoints THEN "create" ELSE "over",
                      secret |-> endpoint[d[2]].secret]]
  /\ UNCHANGED <<endpoint, delivery, accepted, answered>>

\* A failed insert is an error of the call.
createDelivery(d) ==
  /\ work[d].step = "create"
  /\ \/ /\ delivery' = [delivery EXCEPT ![d] = [status |-> "PENDING", attempts |-> 0]]
        /\ Goto(d, "deliver")
     \/ Goto(d, "over") /\ UNCHANGED delivery
  /\ UNCHANGED <<endpoint, accepted, answered>>

\* The receiver accepts what is signed with its secret; its answer is good, bad, or an
\* error that leaves the delivery as it is.
Deliver(d) ==
  /\ work[d].step = "deliver"
  /\ \/ /\ work[d].secret = endpoint[d[2]].secret
        /\ accepted' = accepted \cup {d}
        /\ \/ answered' = answered \cup {d} /\ Goto(d, "good")
           \/ Goto(d, "over") /\ UNCHANGED answered
     \/ Goto(d, "bad") /\ UNCHANGED <<accepted, answered>>
     \/ Goto(d, "over") /\ UNCHANGED <<accepted, answered>>
  /\ UNCHANGED <<endpoint, delivery>>

\* A slip: what was sent is delivered.
updateDeliveryHopeful(d) ==
  /\ work[d].step \in {"good", "bad"} /\ Goto(d, "over")
  /\ delivery' = [delivery EXCEPT ![d] = [status |-> "DELIVERED", attempts |-> @.attempts + 1]]
  /\ UNCHANGED <<endpoint, accepted, answered>>

updateDelivery(d) ==
  /\ work[d].step \in {"good", "bad"} /\ Goto(d, "over")
  /\ \/ delivery' = [delivery EXCEPT ![d] =
                       [status |-> IF work[d].step = "good" THEN "DELIVERED" ELSE "FAILED",
                        attempts |-> @.attempts + 1]]
     \/ UNCHANGED delivery
  /\ UNCHANGED <<endpoint, accepted, answered>>

Next ==
  \/ \E e \in Endpoints, secret \in Secrets : configure(e, secret)
  \/ \E m \in Emissions : emit(m)
  \/ \E d \in Delivery : createDelivery(d) \/ Deliver(d) \/ updateDelivery(d)

Spec == Init /\ [][Next]_vars

-----------------------------------------------------------------------------
\* DELIVERED is said of what its receiver has accepted and acknowledged, and FAILED only
\* of what it has not acknowledged, although secrets change between the read of the
\* endpoint and the request (webhooks.ts:81-103).
DeliveriesAreTrue ==
  \A d \in Delivery :
    /\ delivery[d].status = "DELIVERED" => d \in accepted \cap answered
    /\ delivery[d].status = "FAILED" => d \notin answered
=============================================================================
