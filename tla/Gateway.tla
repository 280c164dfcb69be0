------------------------------ MODULE Gateway ------------------------------
(***************************************************************************)
(* What several tenants do and ask through the client of the payment       *)
(* gateway (AsaasProvider): they activate a plan, which creates a customer *)
(* and a subscription there, and read what they are billed: billing        *)
(* information, payments, invoice and boleto links, PIX codes.             *)
(*                                                                         *)
(* A request reads the tenant's row once and then makes calls; the read,   *)
(* every call and every save is a step.  The gateway may answer a call     *)
(* badly: not at all, or with a body that is no object, which the client's *)
(* parsers take for one without fields.                                    *)
(***************************************************************************)
EXTENDS Integers, FiniteSets

CONSTANTS
    Handlers,    \* requests served at the same time
    Tenants,     \* numbers from 1
    Customers,   \* ids the gateway can give to customers, numbers from 1
    Payments,    \* ids it can give to payments, numbers from 1
    MaxBad,      \* bound on the calls that are answered badly
    MaxAsked     \* bound on the requests

VARIABLES
    custOf,    \* custOf[t]: payment_customer_id of tenant t
    subOf,     \* subOf[t]: the customer its payment_subscription_id bills
    ownerOf,   \* ownerOf[c]: externalReference of customer c
    known,     \* customers that (still) exist at the gateway
    bills,     \* bills[p]: payment p at the gateway
    asked,     \* asked[h]: the request handler h serves
    shown,     \* the last answer given
    bad,       \* calls answered badly so far
    requests   \* requests so far

remote == <<ownerOf, known, bills>>
gatewayVars == <<custOf, subOf, remote, asked, shown, bad, requests>>

-----------------------------------------------------------------------------
Null == 0            \* the column is NULL
Blank == -1          \* it is the empty string
Ref == Customers \cup {Null, Blank}
IsSet(ref) == ref \notin {Null, Blank}

LinkKinds == {"invoice", "boleto"}
NoBill == [cust |-> Null, links |-> {}]
Bill == [cust : Customers, links : SUBSET LinkKinds]

(* 0 stands for a payment id that is empty or too long.                    *)
Ids == Payments \cup {0}
PaymentKinds == LinkKinds \cup {"pix"}
Kinds == PaymentKinds \cup {"activate", "info", "payments"}

Idle == [tenant |-> 1, kind |-> "info", id |-> 0, at |-> "idle",
         cust |-> Null, sub |-> Null, found |-> {}]
Request == [tenant : Tenants, kind : Kinds, id : Ids,
            at : {"idle", "read", "customer", "create", "save", "sub",
                  "subscribe", "saveSub", "pix"},
            cust : Ref, sub : Ref,   \* its copy of the row
            found : SUBSET Ref]      \* whose objects it got from the gateway

(* An answer, and the customers (Blank: nobody) of the objects it shows.   *)
Answer == [tenant : Tenants, kind : Kinds, id : Ids, status : {200, 400, 404, 500},
           found : SUBSET Ref]

GatewayTypeOK ==
    /\ custOf \in [Tenants -> Ref] /\ subOf \in [Tenants -> Ref]
    /\ ownerOf \in [Customers -> Tenants \cup {0}]
    /\ known \subseteq Customers
    /\ bills \in [Payments -> Bill \cup {NoBill}]
    /\ asked \in [Handlers -> Request]
    /\ shown \in Answer
    /\ bad \in 0 .. MaxBad /\ requests \in 0 .. MaxAsked

GatewayInit ==
    /\ custOf = [t \in Tenants |-> Null] /\ subOf = [t \in Tenants |-> Null]
    /\ ownerOf = [c \in Customers |-> 0]
    /\ known = {}
    /\ bills = [p \in Payments |-> NoBill]
    /\ asked = [h \in Handlers |-> Idle]
    /\ shown = [tenant |-> 1, kind |-> "info", id |-> 0, status |-> 404,
                found |-> {}]
    /\ bad = 0 /\ requests = 0

-----------------------------------------------------------------------------
(* How the gateway answers a call: with the object, with {"data": [...]},  *)
(* with an error status; or badly.                                         *)
Replies(good) == {good} \cup (IF bad < MaxBad THEN {"failed", "noObject"} ELSE {})
Counts(reply) == bad' = IF reply \in {"failed", "noObject"} THEN bad + 1 ELSE bad

(* doRequest: a network error and a status of 400 or more are one plain    *)
(* error, the others are passed on, of {"data": ...} only what is in it.   *)
Failed == "error"
DoRequest(reply) ==
    CASE reply \in {"refused", "failed"} -> Failed
      [] reply = "list" -> "array"
      [] reply = "noObject" -> "raw"
      [] OTHER -> "object"

(* parseCustomer, parseSubscription and parsePayment drop the error of     *)
(* json: what is no object has neither id nor owner nor link.              *)
ParseCustomer(body, c) == IF body = "object" THEN c ELSE Blank
ParseSubscription(body, c) == IF body = "object" THEN c ELSE Blank
ParsePayment(body, p) ==
    IF body = "object" THEN bills[p] ELSE [cust |-> Blank, links |-> {}]

GetCustomer(c) == Replies(IF c \in known THEN "object" ELSE "refused")
CreateSubscription(c) == Replies(IF c \in known THEN "object" ELSE "refused")
GetSubscription(c) == Replies(IF c \in known THEN "object" ELSE "refused")
GetPayment(p) == Replies(IF bills[p] = NoBill THEN "refused" ELSE "object")

(* ListPayments reads {"data": [...]} again from the array that doRequest  *)
(* took out of it, and fails.  GetPixQRCode minds json's error.            *)
ListPayments(reply) ==
    IF DoRequest(reply) = "object" THEN "object" ELSE Failed
GetPixQRCode(reply) ==
    IF DoRequest(reply) = "object" THEN "object" ELSE Failed

-----------------------------------------------------------------------------
At(h, stage) == asked[h].at = stage
Continue(h, r) ==
    asked' = [asked EXCEPT ![h] = r] /\ UNCHANGED <<shown, requests>>
Respond(h, status, found) ==
    /\ UNCHANGED requests
    /\ shown' = [tenant |-> asked[h].tenant, kind |-> asked[h].kind,
                 id |-> asked[h].id, status |-> status, found |-> found]
    /\ asked' = [asked EXCEPT ![h] = Idle]

(* The status a handler gives to an error of the use case.                 *)
ActivateStatus(error) == IF error = "already active" THEN 400 ELSE 500
PaymentStatus(error) == IF error = "payment not found" THEN 404 ELSE 500

(* A request comes in; links and PIX codes of an impossible id are refused *)
(* by the handler.  Then the row is read, which may fail.                  *)
Ask(h) ==
    \E t \in Tenants, kind \in Kinds, id \in Ids :
        /\ At(h, "idle")
        /\ requests < MaxAsked
        /\ requests' = requests + 1
        /\ kind \notin PaymentKinds => id = 0
        /\ IF kind \in PaymentKinds /\ id = 0
           THEN /\ shown' = [tenant |-> t, kind |-> kind, id |-> id,
                             status |-> 404, found |-> {}]
                /\ UNCHANGED asked
           ELSE /\ asked' = [asked EXCEPT ![h] =
                        [tenant |-> t, kind |-> kind, id |-> id, at |-> "read",
                         cust |-> custOf[t], sub |-> subOf[t], found |-> {}]]
                /\ UNCHANGED shown
        /\ UNCHANGED <<custOf, subOf, remote, bad>>

(* ActivatePlan: the customer on record is looked up, and created if there *)
(* is none.  No error of doRequest satisfies IsNotFoundError: a customer   *)
(* that was removed at the gateway ends the activation.                    *)
FindCustomer(h) ==
    LET r == asked[h] IN
    /\ At(h, "read") /\ r.kind = "activate"
    /\ IF IsSet(r.cust)
       THEN \E reply \in GetCustomer(r.cust) :
                /\ Counts(reply)
                /\ IF DoRequest(reply) = Failed
                   THEN Respond(h, ActivateStatus("other"), {})
                   ELSE Continue(h, [r EXCEPT !.at = "sub",
                            !.cust = ParseCustomer(DoRequest(reply), r.cust)])
       ELSE Continue(h, [r EXCEPT !.at = "create"]) /\ UNCHANGED bad
    /\ UNCHANGED <<custOf, subOf, remote>>

(* A failed call may have created the customer.                            *)
CreateCustomer(h) ==
    \E c \in Customers, reply \in Replies("object") :
        /\ At(h, "create")
        /\ ownerOf[c] = 0
        /\ ownerOf' = [ownerOf EXCEPT ![c] = asked[h].tenant]
        /\ known' = known \cup {c}
        /\ Counts(reply)
        /\ IF DoRequest(reply) = Failed THEN Respond(h, ActivateStatus("other"), {})
           ELSE Continue(h, [asked[h] EXCEPT !.at = "save",
                                 !.cust = ParseCustomer(DoRequest(reply), c)])
        /\ UNCHANGED <<custOf, subOf, bills>>

SaveCustomer(h) ==
    /\ At(h, "save")
    /\ custOf' = [custOf EXCEPT ![asked[h].tenant] = asked[h].cust]
    /\ subOf' = [subOf EXCEPT ![asked[h].tenant] = asked[h].sub]
    /\ Continue(h, [asked[h] EXCEPT !.at = "sub"])
    /\ UNCHANGED <<remote, bad>>

(* The subscription on record is looked up.  One that is ACTIVE, as all are*)
(* here, ends the activation; one that could not be read has no status and *)
(* does not.                                                               *)
CheckSubscription(h) ==
    LET r == asked[h] IN
    /\ At(h, "sub")
    /\ IF IsSet(r.sub)
       THEN \E reply \in GetSubscription(r.sub) :
                /\ Counts(reply)
                /\ CASE DoRequest(reply) = Failed ->
                            Respond(h, ActivateStatus("other"), {})
                     [] ParseSubscription(DoRequest(reply), r.sub) # Blank ->
                            Respond(h, ActivateStatus("already active"), {})
                     [] OTHER -> Continue(h, [r EXCEPT !.at = "subscribe"])
       ELSE Continue(h, [r EXCEPT !.at = "subscribe"]) /\ UNCHANGED bad
    /\ UNCHANGED <<custOf, subOf, remote>>

Subscribe(h) ==
    LET r == asked[h] IN
    /\ At(h, "subscribe")
    /\ \E reply \in CreateSubscription(r.cust) :
          /\ Counts(reply)
          /\ IF DoRequest(reply) = Failed
             THEN Respond(h, ActivateStatus("other"), {})
             ELSE Continue(h, [r EXCEPT !.at = "saveSub",
                          !.sub = ParseSubscription(DoRequest(reply), r.cust)])
    /\ UNCHANGED <<custOf, subOf, remote>>

(* TenantRepository.Update writes both columns from the copy of the row.   *)
SaveSubscription(h) ==
    LET r == asked[h] IN
    /\ At(h, "saveSub")
    /\ custOf' = [custOf EXCEPT ![r.tenant] = r.cust]
    /\ subOf' = [subOf EXCEPT ![r.tenant] = r.sub]
    /\ Respond(h, 200, {r.cust, r.sub})
    /\ UNCHANGED <<remote, bad>>

-----------------------------------------------------------------------------
(* GetBillingInfo: the customer, then the subscription.  A customer that   *)
(* was removed at the gateway fails it.                                    *)
GetBillingInfo(h) ==
    LET r == asked[h] IN
    /\ At(h, "read") /\ r.kind = "info"
    /\ IF IsSet(r.cust)
       THEN \E reply \in GetCustomer(r.cust) :
                /\ Counts(reply)
                /\ IF DoRequest(reply) = Failed THEN Respond(h, 500, {})
                   ELSE Continue(h, [r EXCEPT !.at = "customer",
                       !.found = {ParseCustomer(DoRequest(reply), r.cust)}])
       ELSE Continue(h, [r EXCEPT !.at = "customer"]) /\ UNCHANGED bad
    /\ UNCHANGED <<custOf, subOf, remote>>

BillingSubscription(h) ==
    LET r == asked[h] IN
    /\ At(h, "customer")
    /\ IF IsSet(r.sub)
       THEN \E reply \in GetSubscription(r.sub) :
                /\ Counts(reply)
                /\ IF DoRequest(reply) = Failed THEN Respond(h, 500, {})
                   ELSE Respond(h, 200, r.found \cup
                            {ParseSubscription(DoRequest(reply), r.sub)})
       ELSE Respond(h, 200, r.found) /\ UNCHANGED bad
    /\ UNCHANGED <<custOf, subOf, remote>>

(* GetPaymentHistory: nothing without a customer.                          *)
GetPaymentHistory(h) ==
    LET r == asked[h] IN
    /\ At(h, "read") /\ r.kind = "payments"
    /\ IF IsSet(r.cust)
       THEN \E reply \in Replies("list") :
                /\ Counts(reply)
                /\ IF ListPayments(reply) = Failed THEN Respond(h, 500, {})
                   ELSE Respond(h, 200, {r.cust})
       ELSE Respond(h, 200, {}) /\ UNCHANGED bad
    /\ UNCHANGED <<custOf, subOf, remote>>

(* tenantPayment: the payment, if the gateway gives it and it is the       *)
(* customer's.  Mutant: whoever's it is.                                   *)
AnyPayment(r, body) ==
    IF body = Failed \/ ~IsSet(r.cust) THEN NoBill ELSE ParsePayment(body, r.id)
TenantPayment(r, body) ==
    IF body # Failed /\ IsSet(r.cust) /\ ParsePayment(body, r.id).cust = r.cust
    THEN ParsePayment(body, r.id) ELSE NoBill

(* PaymentLink (an empty link is not found) and the first call of          *)
(* PixQRCode.                                                              *)
PaymentLink(h) ==
    LET r == asked[h] IN
    /\ At(h, "read") /\ r.kind \in PaymentKinds
    /\ \E reply \in GetPayment(r.id) :
          LET p == TenantPayment(r, DoRequest(reply)) IN
          /\ Counts(reply)
          /\ IF p = NoBill \/ (r.kind \in LinkKinds /\ r.kind \notin p.links)
             THEN Respond(h, PaymentStatus("payment not found"), {})
             ELSE IF r.kind \in LinkKinds THEN Respond(h, 200, {p.cust})
             ELSE Continue(h, [r EXCEPT !.at = "pix"])
    /\ UNCHANGED <<custOf, subOf, remote>>

(* The code of the payment that was looked up.                             *)
PixQRCode(h) ==
    /\ At(h, "pix")
    /\ \E reply \in GetPayment(asked[h].id) :
          /\ Counts(reply)
          /\ IF GetPixQRCode(reply) = Failed
             THEN Respond(h, PaymentStatus("other"), {})
             ELSE Respond(h, 200, {bills[asked[h].id].cust})
    /\ UNCHANGED <<custOf, subOf, remote>>

-----------------------------------------------------------------------------
(* The gateway (external): a customer is billed, or removed.               *)
Billed ==
    \E p \in Payments, c \in known, links \in {{"invoice"}, LinkKinds} :
        /\ bills[p] = NoBill
        /\ bills' = [bills EXCEPT ![p] = [cust |-> c, links |-> links]]
        /\ UNCHANGED <<custOf, subOf, ownerOf, known, asked, shown, bad, requests>>
Removed ==
    \E c \in known :
        /\ known' = known \ {c}
        /\ UNCHANGED <<custOf, subOf, ownerOf, bills, asked, shown, bad, requests>>

GatewayNext ==
    \/ \E h \in Handlers :
          \/ Ask(h)
          \/ FindCustomer(h) \/ CreateCustomer(h) \/ SaveCustomer(h)
          \/ CheckSubscription(h) \/ Subscribe(h) \/ SaveSubscription(h)
          \/ GetBillingInfo(h) \/ BillingSubscription(h)
          \/ GetPaymentHistory(h)
          \/ PaymentLink(h) \/ PixQRCode(h)
    \/ Billed \/ Removed

-----------------------------------------------------------------------------
(* tenantPayment: whatever races, fails or comes back unreadable, what a   *)
(* tenant is shown of the gateway is about customers created for it, and a *)
(* payment of nobody or of another tenant is not found.                    *)
OwnBilling ==
    LET own == {c \in Customers : ownerOf[c] = shown.tenant} IN
    /\ shown.found \ {Blank} \subseteq own
    /\ shown.kind \in PaymentKinds /\ shown.status # 404 =>
           shown.id # 0 /\ bills[shown.id].cust \in own

(* PaymentLink: an answered link is one the payment has.                   *)
LinksAreThere ==
    shown.kind \in LinkKinds /\ shown.status = 200 =>
        shown.kind \in bills[shown.id].links

=============================================================================
