------------------------------- MODULE Routes -------------------------------
(***************************************************************************)
(* The routes of the gateway: the policy table that says which credential  *)
(* may call which route, the middleware that authenticates and authorises  *)
(* a call, and the handlers, each with its ownership check and its step-up *)
(* check.  One call is followed from its arrival to its answer, while the  *)
(* operator's TOTP may go stale and the customer's OTP session may expire. *)
(* One row stands for whatever the call is about; what the services do     *)
(* with it is modelled elsewhere.                                          *)
(***************************************************************************)
EXTENDS TLC

CONSTANTS Principals,  \* records [kind, id, merchant, scopes, roles]
          Merchants,   \* merchant ids
          Customers,   \* customer ids
          NoOne        \* the merchant or the customer of a row that has none

VARIABLES row,     \* the row a call is about: kind, merchant, customer, high
          call,    \* the call being served: its route and its principal
          answer,  \* how the last call ended
          fresh,   \* the operators' TOTP verification is recent enough
          otp      \* the customer's OTP session: none, valid, expired

routes == <<row, call, answer, fresh, otp>>

----------------------------------------------------------------------------
\* The policy table

Policy(merchant, customers, roles) ==
  [open |-> FALSE, skip |-> FALSE, merchant |-> merchant,
   customer |-> customers, roles |-> roles]

Merchant(scope) == Policy({scope}, {}, {})
MerchantOr(scope, roles) == Policy({scope}, {}, roles)
Operator(roles) == Policy({}, {}, roles)
Customer(scope) == Policy({}, {scope}, {})

\* public and skip_auth: the route reads its own credential, if any
Open == [Operator({}) EXCEPT !.open = TRUE, !.skip = TRUE]

ReadRoles == {"PAYMENT_OPS", "FINANCE", "READ_ONLY", "BB_INSPECTOR_READ_ONLY"}

IntentPolicies ==
  [n \in {"intents.list", "intents.get"} |->
     Policy({"payment:read"}, {"payment:read"}, ReadRoles)]
  @@ [n \in {"intents.capture", "intents.cancel"} |->
        MerchantOr("payment:write", {"PAYMENT_OPS"})]
  @@ ("intents.create"   :> Merchant("payment:write"))
  @@ ("intents.confirm"  :> Policy({"payment:write"}, {"payment:write"}, {}))
  @@ ("intents.attempts" :> MerchantOr("payment:read", ReadRoles))

RefundPolicies ==
  [n \in {"refunds.list", "refunds.get"} |-> MerchantOr("refund:read", ReadRoles)]
  @@ ("refunds.create" :> MerchantOr("refund:write", {"PAYMENT_OPS"}))

DirectoryPolicies ==
  [n \in {"merchants.create", "merchants.list"} |-> Operator({"MERCHANT_ADMIN"})]
  @@ ("merchants.get" :> MerchantOr("*", {"MERCHANT_ADMIN", "PAYMENT_OPS", "READ_ONLY"}))
  @@ ("diner.merchants" :> Customer("payment:read"))

CustomerPolicies ==
  ("customers.create" :> [Merchant("customer:write") EXCEPT !.open = TRUE])
  @@ ("customers.get" :>
        Policy({"customer:read"}, {"customer:read"}, {"KYC_REVIEWER", "READ_ONLY"}))
  @@ ("customers.balance" :> Policy({"customer:read"}, {"wallet:read"}, {}))

LinkPolicies ==
  [n \in {"links.list", "links.get"} |-> Merchant("payment:read")]
  @@ ("links.create" :> Merchant("payment:write"))
  @@ ("links.cancel" :> MerchantOr("payment:write", {"PAYMENT_OPS"}))

PublicPolicies ==
  [n \in {"public.link", "public.checkout", "public.status"} |-> Open]

\* dashboards and ledger reads of the operator console
ConsolePolicies ==
  ("console" :> Operator(ReadRoles))
  @@ ("demo.flow" :> Policy({"payment:read"}, {"payment:read"}, ReadRoles))

PortalPolicies ==
  [n \in {"keys.create", "keys.rotate", "keys.revoke"} |-> Merchant("apikey:write")]
  @@ ("keys.list" :> Merchant("apikey:read"))
  @@ ("dashboard" :> Merchant("payment:read"))

QrPolicies ==
  [n \in {"qr.static", "qr.dynamic"} |-> Merchant("qr:write")]
  @@ [n \in {"qr.list", "qr.get", "qr.render"} |-> MerchantOr("qr:read", ReadRoles)]
  @@ ("qr.lifecycle" :> MerchantOr("qr:write", {"PAYMENT_OPS"}))

ScanPolicies ==
  [n \in {"qr.resolve", "qr.pay"} |-> Customer("payment:write")]
  @@ ("qr.interop" :> Operator({"PAYMENT_OPS"}))
  @@ ("qr.stats"   :> Operator(ReadRoles))

HookPolicies ==
  [n \in {"hooks.create", "hooks.rotate"} |-> Merchant("webhook:write")]
  @@ [n \in {"hooks.list", "hooks.deliveries"} |-> MerchantOr("webhook:read", ReadRoles)]

ExportPolicies ==
  [n \in {"exports.create", "exports.download"} |-> Operator({"CAMLCO"})]
  @@ [n \in {"exports.list", "exports.get"} |->
        Operator({"CAMLCO", "BB_INSPECTOR_READ_ONLY", "READ_ONLY"})]

TotpPolicy == "totp.verify" :> Open

OfferPolicies ==
  [n \in {"offers.create", "offers.lifecycle"} |-> Merchant("offers:write")]
  @@ [n \in {"offers.list", "offers.get"} |-> Merchant("offers:read")]
  @@ ("offers.eligible" :> Customer("payment:read"))

SubscriptionPolicies ==
  [n \in {"subs.create", "subs.change", "mandates.create"} |->
     Merchant("subscriptions:write")]
  @@ [n \in {"subs.list", "subs.get", "subs.cycles"} |-> Merchant("subscriptions:read")]

DisbursementPolicies ==
  [n \in {"batches.create", "batches.submit", "batches.cancel"} |->
     Merchant("disbursements:write")]
  @@ [n \in {"batches.get", "batches.items"} |-> Merchant("disbursements:read")]
  @@ ("batches.dispatch" :> Operator({"PAYMENT_OPS", "FINANCE", "TREASURY"}))

ParticipantPolicies ==
  [n \in {"members.register", "members.run"} |-> Operator({"onboarding:write"})]
  @@ [n \in {"members.verify", "members.reject", "members.mou", "members.activate"} |->
        Operator({"onboarding:approve"})]
  @@ [n \in {"members.runs", "members.result"} |-> Operator({"onboarding:read"})]

Policies ==
  IntentPolicies @@ RefundPolicies @@ DirectoryPolicies @@ CustomerPolicies
  @@ LinkPolicies @@ PublicPolicies @@ ConsolePolicies @@ PortalPolicies
  @@ QrPolicies @@ ScanPolicies @@ HookPolicies @@ ExportPolicies @@ TotpPolicy
  @@ OfferPolicies @@ SubscriptionPolicies @@ DisbursementPolicies @@ ParticipantPolicies

----------------------------------------------------------------------------
Row(kind, merchant, customer, high) ==
  [kind |-> kind, merchant |-> merchant, customer |-> customer, high |-> high]

NoRow == Row("none", NoOne, NoOne, FALSE)

MerchantKinds == {"refund", "merchant", "link", "key", "hook", "qr", "offer", "sub", "batch"}
HouseKinds == {"export", "member"}

AnyRow ==
  {Row("intent", m, c, h) : m \in Merchants, c \in Customers \cup {NoOne}, h \in BOOLEAN}
  \cup {Row("customer", m, c, FALSE) : m \in Merchants \cup {NoOne}, c \in Customers}
  \cup {Row(k, m, NoOne, FALSE) : k \in MerchantKinds, m \in Merchants}
  \cup {Row(k, NoOne, NoOne, FALSE) : k \in HouseKinds}
  \cup {Row("scan", NoOne, c, FALSE) : c \in Customers}

NoCall == [route |-> "none", who |-> NoOne]

RInit ==
  /\ row \in AnyRow \cup {NoRow}
  /\ call = NoCall /\ answer = "none"
  /\ fresh = TRUE /\ otp = "none"

Who == CHOOSE p \in Principals : p.id = call.who
At(names) == call.route \in names

----------------------------------------------------------------------------
\* The middleware

\* No credential at all is the principal of kind "public"; whether a key, a
\* session or a token still authenticates is the credential's own matter.
Authenticate(policy, p, valid) ==
  policy.skip \/ IF p.kind = "public" THEN policy.open ELSE valid

Authorize(policy, p) ==
  \/ policy.skip
  \/ p.kind = "public" /\ policy.open
  \/ p.kind = "merchant_key" /\ ("*" \in policy.merchant \/ policy.merchant \cap p.scopes # {})
  \/ p.kind = "customer" /\ policy.customer \cap p.scopes # {}
  \/ p.kind = "operator" /\ policy.roles # {}
     /\ p.roles \cap (policy.roles \cup {"SUPER_ADMIN"}) # {}

Process(route, p) ==
  /\ call = NoCall
  /\ \E valid \in BOOLEAN : Authenticate(Policies[route], p, valid)
  /\ Authorize(Policies[route], p)
  /\ call' = [route |-> route, who |-> p.id] /\ answer' = "none"
  /\ UNCHANGED <<row, fresh, otp>>

\* A call that is not let in: not authenticated, not authorized, or over the
\* rate limit, which any caller can be.
Refuse ==
  /\ call = NoCall
  /\ answer' = "refused"
  /\ UNCHANGED <<row, call, fresh, otp>>

----------------------------------------------------------------------------
\* How a handler ends

Ends(a) == answer' = a /\ call' = NoCall /\ UNCHANGED fresh

Show(allowed) ==
  Ends(IF allowed THEN "shown" ELSE "refused") /\ UNCHANGED <<row, otp>>

\* One page of a list: the row is on it or is filtered away.
Page(on) == Ends(IF on THEN "shown" ELSE "empty") /\ UNCHANGED <<row, otp>>

Change(allowed) ==
  Ends(IF allowed THEN "changed" ELSE "refused") /\ UNCHANGED <<row, otp>>

Insert(allowed, new) ==
  /\ row = NoRow
  /\ row' = IF allowed THEN new ELSE row
  /\ Ends(IF allowed THEN "changed" ELSE "refused")
  /\ UNCHANGED otp

\* A body that does not validate, a row that is not there, a service that refuses
JsonBody == call # NoCall /\ Ends("refused") /\ UNCHANGED <<row, otp>>

IsKey == Who.kind = "merchant_key"
OfMerchant(kind) == row.kind = kind /\ row.merchant = Who.merchant
OfKeyOrOperator(kind) == row.kind = kind /\ (IsKey => row.merchant = Who.merchant)

----------------------------------------------------------------------------
\* Payment intents and refunds

CreatePaymentIntent ==
  /\ At({"intents.create"})
  /\ \E named \in Merchants, c \in Customers \cup {NoOne}, high \in BOOLEAN :
       Insert(IsKey /\ named = Who.merchant, Row("intent", Who.merchant, c, high))

LoadIntentOfAnyone ==
  row.kind = "intent" /\ (Who.kind = "customer" => row.customer = Who.id)

LoadIntent ==
  /\ row.kind = "intent"
  /\ IsKey => row.merchant = Who.merchant
  /\ Who.kind = "customer" => row.customer = Who.id

GetPaymentIntent == At({"intents.get"}) /\ Show(LoadIntent)

ListPaymentIntents ==
  At({"intents.list"}) /\ row.kind = "intent" /\ Page(LoadIntent)

ListPaymentAttempts == At({"intents.attempts"}) /\ Show(LoadIntent)

\* The token presented is the customer's own or none; looking it up uses it up.
Verify(presented) == presented /\ otp = "valid"

ConfirmPaymentIntent ==
  /\ At({"intents.confirm"})
  /\ \E presented \in BOOLEAN :
       LET steps == Who.kind = "customer" /\ row.high
           asked == LoadIntent /\ steps
       IN /\ Ends(IF LoadIntent /\ (steps => Verify(presented))
                  THEN "changed" ELSE "refused")
          /\ otp' = IF asked /\ presented THEN "none" ELSE otp
          /\ UNCHANGED row

CapturePaymentIntent ==
  At({"intents.capture"})
    /\ Change(row.kind = "intent" /\ (Who.kind # "operator" => LoadIntent))

CancelPaymentIntent ==
  At({"intents.cancel"})
    /\ Change(row.kind = "intent" /\ (Who.kind # "operator" => LoadIntent))

\* The refund of a high intent stands for an amount at or above the threshold.
CreateRefund ==
  /\ At({"refunds.create"})
  /\ Change(/\ row.kind = "intent"
            /\ IsKey => LoadIntent
            /\ (Who.kind = "operator" /\ row.high) => fresh)

GetRefund == At({"refunds.get"}) /\ Show(OfKeyOrOperator("refund"))

ListRefunds == At({"refunds.list"}) /\ Page(OfKeyOrOperator("refund"))

----------------------------------------------------------------------------
\* Merchants and customers

CreateMerchant ==
  At({"merchants.create"})
    /\ \E m \in Merchants : Insert(TRUE, Row("merchant", m, NoOne, FALSE))

GetMerchant == At({"merchants.get"}) /\ Show(OfKeyOrOperator("merchant"))

ListMerchants == At({"merchants.list"}) /\ Page(row.kind = "merchant")

ListDinerMerchants == At({"diner.merchants"}) /\ Page(row.kind = "merchant")

CreateCustomer ==
  /\ At({"customers.create"})
  /\ \E named \in Merchants \cup {NoOne}, c \in Customers :
       Insert(IsKey => named \in {NoOne, Who.merchant},
              Row("customer", IF IsKey THEN Who.merchant ELSE named, c, FALSE))

LoadCustomer ==
  /\ row.kind = "customer"
  /\ Who.kind = "customer" => row.customer = Who.id
  /\ IsKey => row.merchant = Who.merchant

GetCustomer == At({"customers.get"}) /\ Show(LoadCustomer)

GetCustomerBalance == At({"customers.balance"}) /\ Show(LoadCustomer)

----------------------------------------------------------------------------
\* The merchant's portal: keys, dashboard, webhooks, links

CreateApiKey ==
  /\ At({"keys.create"})
  /\ \E named \in Merchants \cup {NoOne} :
       Insert(IsKey /\ named \in {NoOne, Who.merchant},
              Row("key", Who.merchant, NoOne, FALSE))

ListApiKeys == At({"keys.list"}) /\ Page(IsKey /\ OfMerchant("key"))

RotateApiKey == At({"keys.rotate"}) /\ Change(IsKey /\ OfMerchant("key"))

RevokeApiKey == At({"keys.revoke"}) /\ Change(IsKey /\ OfMerchant("key"))

MerchantDashboard == At({"dashboard"}) /\ Page(IsKey /\ OfMerchant("intent"))

DemoFullflow == At({"demo.flow"}) /\ Show(LoadIntent)

CreateWebhookEndpoint ==
  /\ At({"hooks.create"})
  /\ \E named \in Merchants \cup {NoOne} :
       Insert(named \in {NoOne, Who.merchant}, Row("hook", Who.merchant, NoOne, FALSE))

\* an operator has no merchant and is shown an empty page
ListWebhookEndpoints == At({"hooks.list"}) /\ Page(OfMerchant("hook"))

RotateWebhookSecret == At({"hooks.rotate"}) /\ Change(OfMerchant("hook"))

ListWebhookDeliveries == At({"hooks.deliveries"}) /\ Page(OfMerchant("hook"))

CreatePaymentLink ==
  At({"links.create"}) /\ Insert(TRUE, Row("link", Who.merchant, NoOne, FALSE))

ListPaymentLinks == At({"links.list"}) /\ Page(OfMerchant("link"))

GetPaymentLink == At({"links.get"}) /\ Show(OfMerchant("link"))

CancelPaymentLink == At({"links.cancel"}) /\ Change(OfKeyOrOperator("link"))

GetPublicPaymentLink == At({"public.link"}) /\ Show(row.kind = "link")

\* the intent it makes is the link's; the dynamic code it asks for may be refused
CreatePublicCheckoutIntent == At({"public.checkout"}) /\ Change(row.kind = "link")

PublicStatus == At({"public.status"}) /\ Page(FALSE)

----------------------------------------------------------------------------
\* Bangla QR

CheckQrOwnership == OfKeyOrOperator("qr")

IssueStaticQr ==
  /\ At({"qr.static"})
  /\ \E named \in Merchants :
       Insert(IsKey => named = Who.merchant, Row("qr", named, NoOne, FALSE))

ListMerchantQrs == At({"qr.list"}) /\ Page(CheckQrOwnership)

IssueDynamicQr == At({"qr.dynamic"}) /\ Change(OfKeyOrOperator("intent"))

GetMerchantQr == At({"qr.get"}) /\ Show(CheckQrOwnership)

RenderQrAsset == At({"qr.render"}) /\ Show(CheckQrOwnership)

QrLifecycle == At({"qr.lifecycle"}) /\ Change(CheckQrOwnership)

ResolveQr == At({"qr.resolve"}) /\ Insert(TRUE, Row("scan", NoOne, Who.id, FALSE))

PayQrResolution == At({"qr.pay"}) /\ Change(row.kind = "scan")

RunQrInteropTests == At({"qr.interop"}) /\ Page(FALSE)

QrDashboard == At({"qr.stats"}) /\ Page(FALSE)

----------------------------------------------------------------------------
\* Offers, subscriptions, disbursements: _merchant_id() of a merchant key only

CreateOffer ==
  At({"offers.create"}) /\ Insert(IsKey, Row("offer", Who.merchant, NoOne, FALSE))

OfferLifecycle == At({"offers.lifecycle"}) /\ Change(IsKey /\ OfMerchant("offer"))

ListOffers == At({"offers.list"}) /\ Page(IsKey /\ OfMerchant("offer"))

GetOffer == At({"offers.get"}) /\ Show(IsKey /\ OfMerchant("offer"))

EligibleOffers ==
  At({"offers.eligible"}) /\ Page(Who.kind = "customer" /\ row.kind = "offer")

CreateSubscription ==
  At({"subs.create"}) /\ Insert(IsKey, Row("sub", Who.merchant, NoOne, FALSE))

\* pause, resume, cancel
ChangeSubscription == At({"subs.change"}) /\ Change(IsKey /\ OfMerchant("sub"))

CreateMandate == At({"mandates.create"}) /\ Change(IsKey /\ OfMerchant("sub"))

ListSubscriptions == At({"subs.list"}) /\ Page(IsKey /\ OfMerchant("sub"))

GetSubscription == At({"subs.get"}) /\ Show(IsKey /\ OfMerchant("sub"))

ListCycles == At({"subs.cycles"}) /\ Show(IsKey /\ OfMerchant("sub"))

CreateBatch ==
  At({"batches.create"}) /\ Insert(TRUE, Row("batch", Who.merchant, NoOne, FALSE))

\* the step-up token names maker, merchant, batch and key, and none may differ
VerifySubmitStepUp(matches) == matches

SubmitBatch ==
  /\ At({"batches.submit"})
  /\ \E matches \in BOOLEAN : Change(VerifySubmitStepUp(matches) /\ OfMerchant("batch"))

CancelBatch == At({"batches.cancel"}) /\ Change(OfMerchant("batch"))

GetBatch == At({"batches.get"}) /\ Show(OfMerchant("batch"))

ListItems == At({"batches.items"}) /\ Show(OfMerchant("batch"))

DispatchBatch == At({"batches.dispatch"}) /\ Change(row.kind = "batch")

----------------------------------------------------------------------------
\* Operators: console, exports, participants, TOTP

ConsoleRead == At({"console"}) /\ Page(row.kind \in {"intent", "batch"})

CreateDossierExport ==
  At({"exports.create"}) /\ Insert(TRUE, Row("export", NoOne, NoOne, FALSE))

ListDossierExports == At({"exports.list"}) /\ Page(row.kind = "export")

GetDossierExport == At({"exports.get"}) /\ Show(row.kind = "export")

DownloadDossierExport == At({"exports.download"}) /\ Show(row.kind = "export")

\* _gate: PSO mode, an operator, the scope of the route or SUPER_ADMIN
Gate(scope) ==
  row.kind = "member" /\ Who.kind = "operator"
    /\ {"SUPER_ADMIN", scope} \cap (Who.roles \cup Who.scopes) # {}

RegisterDocument == At({"members.register"}) /\ Change(Gate("onboarding:write"))

VerifyDocument == At({"members.verify"}) /\ Change(Gate("onboarding:approve"))

RejectDocument == At({"members.reject"}) /\ Change(Gate("onboarding:approve"))

RecordMou == At({"members.mou"}) /\ Change(Gate("onboarding:approve"))

QueueConformanceRun == At({"members.run"}) /\ Change(Gate("onboarding:write"))

ListConformanceRuns == At({"members.runs"}) /\ Show(Gate("onboarding:read"))

GetConformanceRun == At({"members.result"}) /\ Show(Gate("onboarding:read"))

ActivateParticipant == At({"members.activate"}) /\ Change(Gate("onboarding:approve"))

OperatorTotpVerify ==
  /\ At({"totp.verify"})
  /\ answer' = "verified" /\ call' = NoCall /\ fresh' = TRUE
  /\ UNCHANGED <<row, otp>>

----------------------------------------------------------------------------
\* What happens beside the call

TotpAges == fresh /\ fresh' = FALSE /\ UNCHANGED <<row, call, answer, otp>>

IssueOtp ==
  otp # "valid" /\ otp' = "valid" /\ UNCHANGED <<row, call, answer, fresh>>

OtpExpires ==
  otp = "valid" /\ otp' = "expired" /\ UNCHANGED <<row, call, answer, fresh>>

----------------------------------------------------------------------------
PaymentHandlers ==
  \/ CreatePaymentIntent \/ GetPaymentIntent \/ ListPaymentIntents
  \/ ListPaymentAttempts \/ ConfirmPaymentIntent \/ CapturePaymentIntent
  \/ CancelPaymentIntent \/ CreateRefund \/ GetRefund \/ ListRefunds

DirectoryHandlers ==
  \/ CreateMerchant \/ GetMerchant \/ ListMerchants \/ ListDinerMerchants
  \/ CreateCustomer \/ GetCustomer \/ GetCustomerBalance

PortalHandlers ==
  \/ CreateApiKey \/ ListApiKeys \/ RotateApiKey \/ RevokeApiKey
  \/ MerchantDashboard \/ DemoFullflow
  \/ CreateWebhookEndpoint \/ ListWebhookEndpoints \/ RotateWebhookSecret
  \/ ListWebhookDeliveries
  \/ CreatePaymentLink \/ ListPaymentLinks \/ GetPaymentLink \/ CancelPaymentLink
  \/ GetPublicPaymentLink \/ CreatePublicCheckoutIntent \/ PublicStatus

QrHandlers ==
  \/ IssueStaticQr \/ ListMerchantQrs \/ IssueDynamicQr \/ GetMerchantQr
  \/ RenderQrAsset \/ QrLifecycle \/ ResolveQr \/ PayQrResolution
  \/ RunQrInteropTests \/ QrDashboard

ServiceHandlers ==
  \/ CreateOffer \/ OfferLifecycle \/ ListOffers \/ GetOffer \/ EligibleOffers
  \/ CreateSubscription \/ ChangeSubscription \/ CreateMandate \/ ListSubscriptions
  \/ GetSubscription \/ ListCycles
  \/ CreateBatch \/ SubmitBatch \/ CancelBatch \/ GetBatch \/ ListItems \/ DispatchBatch

OperatorHandlers ==
  \/ ConsoleRead \/ CreateDossierExport \/ ListDossierExports \/ GetDossierExport
  \/ DownloadDossierExport \/ RegisterDocument \/ VerifyDocument \/ RejectDocument
  \/ RecordMou \/ QueueConformanceRun \/ ListConformanceRuns \/ GetConformanceRun
  \/ ActivateParticipant \/ OperatorTotpVerify

RNext ==
  \/ \E route \in DOMAIN Policies, p \in Principals : Process(route, p)
  \/ Refuse
  \/ JsonBody
  \/ PaymentHandlers \/ DirectoryHandlers \/ PortalHandlers
  \/ QrHandlers \/ ServiceHandlers \/ OperatorHandlers
  \/ TotpAges \/ IssueOtp \/ OtpExpires

RSpec == RInit /\ [][RNext]_routes

----------------------------------------------------------------------------
\* Rows anybody who was handed their code may use, and shared catalogues
ByCode == {"public.link", "public.checkout", "qr.pay"}
Catalogue == {"diner.merchants", "offers.eligible"}

\* the row belongs to the caller, or the caller is an operator
Concerns(p, r) ==
  CASE p.kind = "merchant_key" -> r.merchant = p.merchant
    [] p.kind = "customer" -> r.customer = p.id
    [] p.kind = "operator" -> TRUE
    [] OTHER -> r.kind = "customer"

OnlyReads(p) ==
  \/ p.kind = "operator" /\ p.roles \subseteq {"READ_ONLY", "BB_INSPECTOR_READ_ONLY"}
  \/ p.kind = "merchant_key" /\ p.scopes \subseteq {"payment:read", "refund:read"}

\* Tenants stay apart at the edge (app.py, _load_intent and the ownership check
\* of every handler, policy.py's table): whatever a handler shows or changes is
\* the caller's own row, unless the caller is an operator or was handed the
\* row's code; a caller with read roles or read scopes changes nothing; a high
\* refund by an operator happens under a fresh TOTP and a high confirmation by a
\* customer under a valid OTP session, both at the moment of the change; and a
\* refused call leaves the row as it was.
CallsStayWithinBounds ==
  (call # NoCall /\ call' = NoCall) =>
    LET p == Who
        changed == answer' = "changed"
    IN /\ answer' \in {"shown", "changed"} =>
            (Concerns(p, row') \/ call.route \in ByCode \cup Catalogue)
       /\ changed => (~OnlyReads(p) \/ call.route \in ByCode)
       /\ (changed /\ row.kind = "intent" /\ row.high) =>
            /\ (p.kind = "operator" /\ call.route = "refunds.create") => fresh
            /\ p.kind = "customer" => otp = "valid"
       /\ ~changed => row' = row

=============================================================================
