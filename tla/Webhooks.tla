------------------------------ MODULE Webhooks ------------------------------
(***************************************************************************)
(* Messages to merchants and customers.  An outbox event is fanned out by  *)
(* bdpay.gateway.event_fanout into webhook deliveries                      *)
(* (bdpay.gateway.webhooks_out) and notification dispatches                *)
(* (bdpay.platform.notifications); each queue is drained by its own        *)
(* process_due, one drain at a time.  The signing secret of an endpoint    *)
(* rotates with a grace window.  Every store call commits by itself, so a  *)
(* crash keeps a prefix of a handler's writes.                             *)
(*                                                                         *)
(* One merchant and its endpoints.  Time is the flag `due' of a queue row, *)
(* raised when the row's next_attempt_at passes.                           *)
(*                                                                         *)
(* The second half is the other direction: the callbacks of rails.         *)
(***************************************************************************)
EXTENDS Naturals, Sequences, FiniteSets

CONSTANTS
    Hooks,        \* endpoint ids
    OutEvents,    \* event ids
    MaxActive,    \* MAX_ACTIVE_ENDPOINTS_PER_MERCHANT
    MaxPosts,     \* MAX_DELIVERY_ATTEMPTS
    MaxSends,     \* MAX_ATTEMPTS of a notification
    MaxSecretRotations, \* bound
    MaxMishaps    \* bound

ASSUME PostsAssumption == MaxPosts \in Nat \ {0}

VARIABLES
    endpoint,  \* webhook_endpoints: [active, secret, prev, grace]
    held,      \* the secret each receiver verifies with
    event,     \* per event: [kind, status] of its outbox row
    delivery,  \* webhook_deliveries by <<endpoint, event>>: [status, posts, due]
    note,      \* notification_dispatches by <<event, template>>: [status, sends, due]
    hookDrain, \* process_due of the deliveries: [todo, at, sig]
    noteDrain, \* process_due of the notifications: [todo, at]
    exhausted, \* webhook.delivery_exhausted events in the outbox
    accepted,  \* per delivery, 2xx answers of the receiver
    mishaps    \* crashes so far

wires == <<endpoint, held, event, delivery, note, hookDrain, noteDrain, exhausted,
           accepted, mishaps>>

DeliveryKeys == Hooks \X OutEvents
Templates == {"customer", "merchant", "webhook_exhausted"}
Dispatches == OutEvents \X Templates
None == <<>>

NoEndpoint == [active |-> FALSE, secret |-> 0, prev |-> 0, grace |-> FALSE]
NoDelivery == [status |-> "none", posts |-> 0, due |-> FALSE]
NoDispatch == [status |-> "none", sends |-> 0, due |-> FALSE]

OInit ==
    /\ endpoint = [h \in Hooks |-> NoEndpoint]
    /\ held = [h \in Hooks |-> 0]
    /\ event \in [OutEvents -> [kind : {"batch", "party", "qr"}, status : {"PENDING"}]]
    /\ delivery = [k \in DeliveryKeys |-> NoDelivery]
    /\ note = [k \in Dispatches |-> NoDispatch]
    /\ hookDrain = [todo |-> {}, at |-> None, sig |-> {}]
    /\ noteDrain = [todo |-> {}, at |-> None]
    /\ exhausted = {} /\ accepted = [k \in DeliveryKeys |-> 0] /\ mishaps = 0

(* ---- WebhookEndpointService --------------------------------------------- *)

Active == {h \in Hooks : endpoint[h].active}

InsertEndpoint(h) ==
    ~endpoint[h].active /\ endpoint' = [endpoint EXCEPT ![h] = [NoEndpoint EXCEPT !.active = TRUE]]

SaveEndpoint(h, record) == endpoint' = [endpoint EXCEPT ![h] = record]

RegisterEndpoint(h) ==
    /\ Cardinality(Active) < MaxActive
    /\ InsertEndpoint(h)
    /\ UNCHANGED <<held, event, delivery, note, hookDrain, noteDrain, exhausted, accepted, mishaps>>

RotateSecretInGrace(h) ==
    /\ endpoint[h].active /\ endpoint[h].secret < MaxSecretRotations
    /\ SaveEndpoint(h, [endpoint[h] EXCEPT !.secret = @ + 1, !.prev = endpoint[h].secret,
                                           !.grace = TRUE])
    /\ UNCHANGED <<held, event, delivery, note, hookDrain, noteDrain, exhausted, accepted, mishaps>>

(* rotate_secret: refused while an earlier grace window is open.             *)
RotateSecret(h) ==
    /\ endpoint[h].active /\ ~endpoint[h].grace /\ endpoint[h].secret < MaxSecretRotations
    /\ SaveEndpoint(h, [endpoint[h] EXCEPT !.secret = @ + 1, !.prev = endpoint[h].secret,
                                           !.grace = TRUE])
    /\ UNCHANGED <<held, event, delivery, note, hookDrain, noteDrain, exhausted, accepted, mishaps>>

(* signing_secrets: the current one, and the previous one inside the grace.  *)
SigningSecrets(h) ==
    {endpoint[h].secret} \cup (IF endpoint[h].grace THEN {endpoint[h].prev} ELSE {})

(* The merchant installs the new secret, at the latest when the grace ends.  *)
Install(h) ==
    /\ held[h] # endpoint[h].secret
    /\ held' = [held EXCEPT ![h] = endpoint[h].secret]
    /\ UNCHANGED <<endpoint, event, delivery, note, hookDrain, noteDrain, exhausted, accepted, mishaps>>

GraceEnds(h) ==
    /\ endpoint[h].grace /\ held[h] = endpoint[h].secret
    /\ endpoint' = [endpoint EXCEPT ![h].grace = FALSE]
    /\ UNCHANGED <<held, event, delivery, note, hookDrain, noteDrain, exhausted, accepted, mishaps>>

(* ---- ResilienceEventFanout ------------------------------------------------ *)

(* What a handler writes: the deliveries of dispatch_event, then the         *)
(* notifications.  A qr_payload.paid event only notifies.                    *)
HookWrites(e) == IF event[e].kind = "qr" THEN {} ELSE {<<h, e>> : h \in Active}
NoteWrites(e) ==
    CASE event[e].kind = "batch" -> {}
      [] event[e].kind = "party" -> {<<e, "customer">>}
      [] event[e].kind = "qr" -> {<<e, "customer">>, <<e, "merchant">>}

(* insert_delivery after find_delivery; dispatch after by_idempotency_key.   *)
InsertDelivery == [status |-> "PENDING", posts |-> 0, due |-> TRUE]

InsertDeliveries(new) ==
    delivery' = [k \in DeliveryKeys |-> IF k \in new /\ delivery[k].status = "none"
                                THEN InsertDelivery ELSE delivery[k]]

Dispatched(row) == IF row.status = "none" THEN [status |-> "QUEUED", sends |-> 0, due |-> TRUE]
                                          ELSE row

InsertNotes(new) ==
    note' = [k \in Dispatches |-> IF k \in new THEN Dispatched(note[k]) ELSE note[k]]

(* The outbox worker hands a pending event to the handler.                   *)
FanOut(e) ==
    /\ event[e].status = "PENDING"
    /\ InsertDeliveries(HookWrites(e)) /\ InsertNotes(NoteWrites(e))
    /\ event' = [event EXCEPT ![e].status = "PUBLISHED"]
    /\ UNCHANGED <<endpoint, held, hookDrain, noteDrain, exhausted, accepted, mishaps>>

(* A crash inside the handler, or before the row is marked: some of the      *)
(* deliveries, or all of them and some of the notifications, are written.    *)
FanOutCrashes(e) ==
    /\ event[e].status = "PENDING" /\ mishaps < MaxMishaps
    /\ \/ \E some \in SUBSET HookWrites(e) : InsertDeliveries(some) /\ UNCHANGED note
       \/ \E some \in SUBSET NoteWrites(e) :
             InsertDeliveries(HookWrites(e)) /\ InsertNotes(some)
    /\ hookDrain' = [todo |-> {}, at |-> None, sig |-> {}]
    /\ noteDrain' = [todo |-> {}, at |-> None]
    /\ mishaps' = mishaps + 1
    /\ UNCHANGED <<endpoint, held, event, exhausted, accepted>>

(* on_webhook_delivery_exhausted: an email, since the webhook is dead.       *)
EmailExhausted(k) ==
    /\ k \in exhausted /\ note[<<k[2], "webhook_exhausted">>].status = "none"
    /\ InsertNotes({<<k[2], "webhook_exhausted">>})
    /\ UNCHANGED <<endpoint, held, event, delivery, hookDrain, noteDrain, exhausted, accepted, mishaps>>

(* ---- WebhookDeliveryService.process_due ------------------------------------ *)

DueDeliveries == {k \in DeliveryKeys : delivery[k].status \in {"PENDING", "RETRYING"} /\ delivery[k].due}

ProcessDueHooks ==
    /\ hookDrain.todo = {} /\ hookDrain.at = None /\ DueDeliveries # {}
    /\ hookDrain' = [hookDrain EXCEPT !.todo = DueDeliveries]
    /\ UNCHANGED <<endpoint, held, event, delivery, note, noteDrain, exhausted, accepted, mishaps>>

(* The next row of the batch is signed and posted; the loop awaits.          *)
Post(k) ==
    /\ hookDrain.at = None /\ k \in hookDrain.todo
    /\ hookDrain' = [todo |-> hookDrain.todo \ {k}, at |-> k, sig |-> SigningSecrets(k[1])]
    /\ UNCHANGED <<endpoint, held, event, delivery, note, noteDrain, exhausted, accepted, mishaps>>

(* The receiver answers 2xx only to a signature it can verify.               *)
ReceiverAnswers(k, ok) == ok => held[k[1]] \in hookDrain.sig

SaveDelivery(k, status, due) ==
    delivery' = [delivery EXCEPT ![k] = [status |-> status, posts |-> @.posts + 1, due |-> due]]

(* _exhaust: the terminal status, then the event for the merchant's email.   *)
Exhaust(k) == SaveDelivery(k, "EXHAUSTED", FALSE) /\ exhausted' = exhausted \cup {k}

Posted(ok) ==
    LET k == hookDrain.at
    IN  /\ k # None /\ ReceiverAnswers(k, ok)
        /\ hookDrain' = [hookDrain EXCEPT !.at = None, !.sig = {}]
        /\ accepted' = [accepted EXCEPT ![k] = IF ok THEN @ + 1 ELSE @]
        /\ IF ok THEN SaveDelivery(k, "DELIVERED", FALSE) /\ UNCHANGED exhausted
           ELSE IF delivery[k].posts + 1 >= MaxPosts
                THEN Exhaust(k)
                ELSE SaveDelivery(k, "RETRYING", FALSE) /\ UNCHANGED exhausted
        /\ UNCHANGED <<endpoint, held, event, note, noteDrain, mishaps>>

RetryFallsDue(k) ==
    /\ delivery[k].status = "RETRYING" /\ ~delivery[k].due
    /\ delivery' = [delivery EXCEPT ![k].due = TRUE]
    /\ UNCHANGED <<endpoint, held, event, note, hookDrain, noteDrain, exhausted, accepted, mishaps>>

(* ---- NotificationService.process_due --------------------------------------- *)

DueNotes == {k \in Dispatches : note[k].status = "QUEUED" /\ note[k].due}

ProcessDueNotes ==
    /\ noteDrain.todo = {} /\ noteDrain.at = None /\ DueNotes # {}
    /\ noteDrain' = [noteDrain EXCEPT !.todo = DueNotes]
    /\ UNCHANGED <<endpoint, held, event, delivery, note, hookDrain, exhausted, accepted, mishaps>>

SaveNote(k, status, sends) ==
    note' = [note EXCEPT ![k] = [status |-> status, sends |-> sends, due |-> FALSE]]

(* SENDING is stored before the transport is called.                         *)
Send(k) ==
    /\ noteDrain.at = None /\ k \in noteDrain.todo
    /\ noteDrain' = [todo |-> noteDrain.todo \ {k}, at |-> k]
    /\ SaveNote(k, "SENDING", note[k].sends)
    /\ UNCHANGED <<endpoint, held, event, delivery, hookDrain, exhausted, accepted, mishaps>>

Sent(delivered) ==
    LET k == noteDrain.at
        status == IF delivered THEN "DELIVERED"
                  ELSE IF note[k].sends + 1 >= MaxSends THEN "FAILED" ELSE "QUEUED"
    IN  /\ k # None
        /\ noteDrain' = [noteDrain EXCEPT !.at = None]
        /\ SaveNote(k, status, note[k].sends + 1)
        /\ UNCHANGED <<endpoint, held, event, delivery, hookDrain, exhausted, accepted, mishaps>>

SendFallsDue(k) ==
    /\ note[k].status = "QUEUED" /\ ~note[k].due
    /\ note' = [note EXCEPT ![k].due = TRUE]
    /\ UNCHANGED <<endpoint, held, event, delivery, hookDrain, noteDrain, exhausted, accepted, mishaps>>

(* A crash while a post is outstanding, perhaps after the receiver took it,  *)
(* or after _exhaust saved the row and before it announced it; the drains    *)
(* start over and a row left at SENDING stays there.                         *)
DrainCrashes(took, saved) ==
    LET k == hookDrain.at
    IN  /\ k # None /\ mishaps < MaxMishaps
        /\ took => ~saved /\ ReceiverAnswers(k, TRUE)
        /\ saved => delivery[k].posts + 1 >= MaxPosts
        /\ accepted' = [accepted EXCEPT ![k] = IF took THEN @ + 1 ELSE @]
        /\ IF saved THEN SaveDelivery(k, "EXHAUSTED", FALSE) ELSE UNCHANGED delivery
        /\ hookDrain' = [todo |-> {}, at |-> None, sig |-> {}]
        /\ noteDrain' = [todo |-> {}, at |-> None]
        /\ mishaps' = mishaps + 1
        /\ UNCHANGED <<endpoint, held, event, note, exhausted>>

ONext ==
    \/ \E h \in Hooks : RegisterEndpoint(h) \/ RotateSecret(h) \/ Install(h) \/ GraceEnds(h)
    \/ \E e \in OutEvents : FanOut(e) \/ FanOutCrashes(e)
    \/ ProcessDueHooks \/ ProcessDueNotes
    \/ \E k \in DeliveryKeys : Post(k) \/ RetryFallsDue(k) \/ EmailExhausted(k)
    \/ \E k \in Dispatches : Send(k) \/ SendFallsDue(k)
    \/ \E ok \in BOOLEAN : Posted(ok) \/ Sent(ok)
    \/ \E took, saved \in BOOLEAN : DrainCrashes(took, saved)

OSpec == OInit /\ [][ONext]_wires
-----------------------------------------------------------------------------
(* A merchant that installs a new secret before the grace window closes can  *)
(* always verify what is signed now: rotate_secret never drops the secret    *)
(* the receiver still uses.  A receiver takes one event twice only over a    *)
(* crash; a delivery says DELIVERED only when it was taken, and EXHAUSTED    *)
(* only after its last post failed, which without a crash is announced.      *)
ReceiverIsServed ==
    /\ \A h \in Hooks : held[h] \in SigningSecrets(h)
    /\ \A k \in DeliveryKeys :
          /\ accepted[k] <= 1 + mishaps
          /\ delivery[k].status = "DELIVERED" => accepted[k] > 0
          /\ delivery[k].status = "EXHAUSTED" =>
                /\ delivery[k].posts = MaxPosts /\ accepted[k] <= mishaps
                /\ k \in exhausted \/ mishaps > 0
-----------------------------------------------------------------------------
(***************************************************************************)
(* Callbacks of the rails: the gateway route (bdpay.gateway.app            *)
(* inbound_webhook), the WebhookPipeline of bdpay.connectors.webhooks when *)
(* it is switched on, the durable sink (bdpay.gateway.webhook_sink) and    *)
(* the drain that hands its rows to the kernel                             *)
(* (bdpay.kernel.connector_inbound).  A delivery runs in some process,     *)
(* commits after every stored step, and may die between two of them; the   *)
(* rail may deliver the same content any number of times.                  *)
(***************************************************************************)
CONSTANTS
    Contents,    \* distinct callback bodies
    Deliveries,  \* HTTP deliveries
    DrainLimit,  \* rows one drain takes
    MaxHookDeaths, \* bound
    NoContent

VARIABLES
    piped,   \* gateway_webhook_pipeline
    inbound, \* webhook_inbound row per content: its status, or "none"
    reason,  \* its reject_reason
    results, \* connector_results rows of kind WEBHOOK per content
    sink,    \* connector_inbound_events in order: [content, status]
    dlv,     \* per delivery: [content, ok, at]
    hookDeaths

hooks == <<piped, inbound, reason, results, sink, dlv, hookDeaths>>

HInit ==
    /\ piped \in BOOLEAN
    /\ inbound = [c \in Contents |-> "none"] /\ reason = [c \in Contents |-> "none"]
    /\ results = [c \in Contents |-> 0] /\ sink = <<>> /\ hookDeaths = 0
    /\ dlv = [d \in Deliveries |-> [content |-> NoContent, ok |-> FALSE, at |-> "none"]]

InSink(c) == \E k \in DOMAIN sink : sink[k].content = c

(* PostgresWebhookSink.deliver: an insert that ignores a known event.       *)
Deliver(c) ==
    sink' = IF InSink(c) THEN sink ELSE Append(sink, [content |-> c, status |-> "RECEIVED"])

MovesTo(d, at) == dlv' = [dlv EXCEPT ![d].at = at]

(* _ALLOWED, the only status changes _advance makes.                        *)
Allowed == {<<"RECEIVED", "VERIFIED">>, <<"RECEIVED", "REJECTED">>, <<"VERIFIED", "PARSED">>,
            <<"VERIFIED", "DUPLICATE">>, <<"PARSED", "HANDED_OFF">>, <<"PARSED", "PARKED">>,
            <<"PARSED", "REJECTED">>, <<"HANDED_OFF", "PROCESSED">>, <<"PARKED", "PARSED">>,
            <<"PARKED", "REJECTED">>}

Advance(c, to) == <<inbound[c], to>> \in Allowed /\ inbound' = [inbound EXCEPT ![c] = to]

(* A delivery arrives; ok says whether its signature verifies.              *)
Arrives(d, c, ok) ==
    /\ dlv[d].at = "none"
    /\ dlv' = [dlv EXCEPT ![d] = [content |-> c, ok |-> ok,
                                  at |-> IF piped THEN "insert" ELSE "verify"]]
    /\ UNCHANGED <<piped, inbound, reason, results, sink, hookDeaths>>

(* The default route: verified, parsed and delivered, or refused.           *)
RouteDelivers(d, parses) ==
    /\ dlv[d].at = "verify"
    /\ IF dlv[d].ok /\ parses THEN Deliver(dlv[d].content) /\ MovesTo(d, "acked")
                              ELSE MovesTo(d, "refused") /\ UNCHANGED sink
    /\ UNCHANGED <<piped, inbound, reason, results, hookDeaths>>

IngestInsertResumes(d) ==
    LET c == dlv[d].content
    IN  /\ dlv[d].at = "insert"
        /\ IF inbound[c] = "none" THEN inbound' = [inbound EXCEPT ![c] = "RECEIVED"] /\ MovesTo(d, "check")
           ELSE /\ UNCHANGED inbound
                /\ MovesTo(d, IF dlv[d].ok /\ inbound[c] = "PROCESSED" THEN "handoff" ELSE "acked")
        /\ UNCHANGED <<piped, reason, results, sink, hookDeaths>>

(* ingest: the row is inserted before verification.  Of a content that has   *)
(* a row already the delivery is answered alike, and the row stays as it is. *)
IngestInsert(d) ==
    LET c == dlv[d].content
    IN  /\ dlv[d].at = "insert"
        /\ IF inbound[c] = "none" THEN inbound' = [inbound EXCEPT ![c] = "RECEIVED"] /\ MovesTo(d, "check")
           ELSE UNCHANGED inbound /\ MovesTo(d, "acked")
        /\ UNCHANGED <<piped, reason, results, sink, hookDeaths>>

IngestVerify(d) ==
    LET c == dlv[d].content
    IN  /\ dlv[d].at = "check"
        /\ IF dlv[d].ok THEN Advance(c, "VERIFIED") /\ MovesTo(d, "parse") /\ UNCHANGED reason
           ELSE /\ Advance(c, "REJECTED") /\ MovesTo(d, "acked")
                /\ reason' = [reason EXCEPT ![c] = "signature_unverifiable"]
        /\ UNCHANGED <<piped, results, sink, hookDeaths>>

IngestParse(d) ==
    /\ dlv[d].at = "parse"
    /\ Advance(dlv[d].content, "PARSED") /\ MovesTo(d, "parsed")
    /\ UNCHANGED <<piped, reason, results, sink, hookDeaths>>

(* parse_event raises, which rejects the row, or returns a result.           *)
IngestParsed(d, parses) ==
    LET c == dlv[d].content
    IN  /\ dlv[d].at = "parsed"
        /\ IF parses THEN MovesTo(d, "handoff") /\ UNCHANGED <<inbound, reason>>
           ELSE /\ Advance(c, "REJECTED") /\ MovesTo(d, "acked")
                /\ reason' = [reason EXCEPT ![c] = "parse_error"]
        /\ UNCHANGED <<piped, results, sink, hookDeaths>>

(* _handoff: the sink first, then the result row, then the two statuses.     *)
Handoff(d) ==
    /\ dlv[d].at = "handoff"
    /\ Deliver(dlv[d].content) /\ MovesTo(d, "record")
    /\ UNCHANGED <<piped, inbound, reason, results, hookDeaths>>

HandoffRecord(d) ==
    /\ dlv[d].at = "record"
    /\ results' = [results EXCEPT ![dlv[d].content] = @ + 1] /\ MovesTo(d, "handed")
    /\ UNCHANGED <<piped, inbound, reason, sink, hookDeaths>>

HandedOff(d) ==
    LET c == dlv[d].content
    IN  /\ dlv[d].at = "handed"
        /\ \/ inbound[c] = "PARSED" /\ Advance(c, "HANDED_OFF") /\ UNCHANGED dlv
           \/ inbound[c] = "HANDED_OFF" /\ Advance(c, "PROCESSED") /\ MovesTo(d, "acked")
        /\ UNCHANGED <<piped, reason, results, sink, hookDeaths>>

(* The process dies; the rail gets no answer.                                *)
DeliveryDies(d) ==
    /\ dlv[d].at \notin {"none", "acked", "refused", "dead"} /\ hookDeaths < MaxHookDeaths
    /\ MovesTo(d, "dead") /\ hookDeaths' = hookDeaths + 1
    /\ UNCHANGED <<piped, inbound, reason, results, sink>>

Received == {k \in DOMAIN sink : sink[k].status = "RECEIVED"}

(* drain_once: the oldest rows, each applied by the orchestrator, in one     *)
(* transaction; an applier that raises leaves all of them as they were.      *)
Claimed == {k \in Received : Cardinality({j \in Received : j <= k}) <= DrainLimit}

DrainOnce(status) ==
    /\ Received # {}
    /\ sink' = [k \in DOMAIN sink |->
                  IF k \in Claimed THEN [sink[k] EXCEPT !.status = status[k]] ELSE sink[k]]
    /\ UNCHANGED <<piped, inbound, reason, results, dlv, hookDeaths>>

Drain == \E status \in [Claimed -> {"DISPATCHED", "SKIPPED"}] : DrainOnce(status)

HNext ==
    \/ Drain
    \/ \E d \in Deliveries :
          \/ \E c \in Contents, ok \in BOOLEAN : Arrives(d, c, ok)
          \/ \E parses \in BOOLEAN : RouteDelivers(d, parses) \/ IngestParsed(d, parses)
          \/ IngestInsert(d) \/ IngestVerify(d) \/ IngestParse(d)
          \/ Handoff(d) \/ HandoffRecord(d) \/ HandedOff(d) \/ DeliveryDies(d)

HSpec == HInit /\ [][HNext]_hooks
-----------------------------------------------------------------------------
(* However often and in however many processes at once a callback is         *)
(* delivered, it enters the sink once and is recorded once, and only after a *)
(* verified delivery; a row that says PROCESSED has both.                    *)
CallbackCountsOnce ==
    \A c \in Contents :
       /\ \A k, l \in DOMAIN sink : sink[k].content = c /\ sink[l].content = c => k = l
       /\ results[c] <= 1
       /\ InSink(c) => \E d \in Deliveries : dlv[d].content = c /\ dlv[d].ok
       /\ inbound[c] = "PROCESSED" => InSink(c) /\ results[c] = 1
=============================================================================
