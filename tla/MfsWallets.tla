----------------------------- MODULE MfsWallets -----------------------------
(***************************************************************************)
(* The live wallet connectors (bKash, Nagad, Rocket) and the token cache   *)
(* of bKash.  Two independent subsystems, each with its own Next:          *)
(*                                                                         *)
(*  - the token cache: several coroutines run ensure_token at once, each   *)
(*    on its own copy of the mfs_token_states row, and write it back       *)
(*    after an await (bdpay/connectors/mfs/token_state.py);                *)
(*  - one connector_ref on one wallet: submit, execute, query_status,      *)
(*    reverse and the callback handler, against a rail that answers late,  *)
(*    loses answers, or answers a request whose caller was cancelled.      *)
(*                                                                         *)
(* The rail, the customer and the cancelling runner are external.          *)
(***************************************************************************)
EXTENDS Naturals, FiniteSets, Sequences

CONSTANTS Callers,      \* coroutines that ask for a token
          Calls,        \* connector calls in flight on the one reference
          MaxPays,      \* bound on the payments the rail opens for it
          MaxUpsets     \* bound on restarts, cancellations and lost answers

VARIABLES tokenRow,     \* the stored mfs_token_states row
          idToken,      \* is a token value in this process's memory
          refreshToken, \* is a refresh token in this process's memory
          caller,       \* what each coroutine of ensure_token is waiting for
          denied,       \* did _advance ever refuse a transition (ghost)
          wallet,       \* which connector the reference is on
          handle,       \* connector_mfs_payment_handles: the rail's payment
          idem,         \* recorded results by call kind
          call,         \* the calls in flight
          late,         \* requests the rail still holds for a cancelled call
          pays,         \* the rail: its payments for this reference
          told,         \* the last answer given to the kernel, if definite (ghost)
          upsets        \* how many faults have happened

tokens == <<tokenRow, idToken, refreshToken, caller, denied>>
payment == <<wallet, handle, idem, call, late, pays, told>>
wallets == <<tokens, payment, upsets>>

-----------------------------------------------------------------------------
(* The token cache *)

\* token_state._ALLOWED
Allowed == { <<"NO_TOKEN", "GRANTED">>, <<"NO_TOKEN", "GRANT_FAILED">>,
             <<"GRANTED", "REFRESHING">>, <<"REFRESHING", "GRANTED">>,
             <<"REFRESHING", "REFRESHING">>, <<"REFRESHING", "NO_TOKEN">>,
             <<"GRANTED", "EXPIRED">>, <<"EXPIRED", "GRANTED">>,
             <<"EXPIRED", "GRANT_FAILED">>, <<"GRANT_FAILED", "NO_TOKEN">> }

\* The row, its ages abstracted: is granted_at past the refresh point, is
\* refresh_expires_at past.
FreshRow == [state |-> "NO_TOKEN", aged |-> FALSE, lapsed |-> FALSE]

Idle == [at |-> "idle", row |-> FreshRow, failures |-> 0]

\* A connection per call: what a coroutine goes on with after an await is the
\* copy it loaded, whatever was saved meanwhile.
Loaded(c) == caller[c].row

Save(row) == tokenRow' = row

Advance(row, to) ==
    IF <<row.state, to>> \in Allowed
    THEN Save([row EXCEPT !.state = to]) /\ denied' = denied
    ELSE denied' = TRUE /\ UNCHANGED tokenRow

\* _store_tokens: the values stay in memory, the row gets fresh dates.
StoreTokens(row, withRefresh) ==
    /\ idToken' = TRUE
    /\ refreshToken' = (refreshToken \/ withRefresh)
    /\ Advance([row EXCEPT !.aged = FALSE,
                           !.lapsed = @ /\ ~withRefresh], "GRANTED")

Wait(c, at, row, failures) ==
    caller' = [caller EXCEPT ![c] = [at |-> at, row |-> row, failures |-> failures]]

RefreshDead(row) == row.lapsed \/ ~refreshToken

\* The end of _refresh_cycle: forget both values and grant anew.
RefreshGivenUp(c, row) ==
    /\ idToken' = FALSE
    /\ refreshToken' = FALSE
    /\ Advance(row, "NO_TOKEN")
    /\ Wait(c, "grant", [row EXCEPT !.state = "NO_TOKEN"], 0)

RefreshStarts(c, row) ==
    IF RefreshDead(row)
    THEN RefreshGivenUp(c, [row EXCEPT !.state = "REFRESHING"])
    ELSE /\ Wait(c, "refresh", [row EXCEPT !.state = "REFRESHING"], 0)
         /\ Save([row EXCEPT !.state = "REFRESHING"])
         /\ UNCHANGED <<idToken, refreshToken, denied>>

\* ensure_token up to its first await.  A GRANT_FAILED row raises, a GRANTED
\* row in date with its value in memory is answered: neither changes state.
EnsureToken(c) ==
    /\ caller[c].at = "idle"
    /\ LET row == tokenRow IN
       \/ /\ row.state = "NO_TOKEN"
          /\ Wait(c, "grant", row, 0)
          /\ UNCHANGED <<tokenRow, idToken, refreshToken, denied>>
       \/ /\ row.state = "EXPIRED"
          /\ Wait(c, "regrant", row, 0)
          /\ UNCHANGED <<tokenRow, idToken, refreshToken, denied>>
       \/ /\ row.state = "GRANTED" /\ ~row.aged /\ ~idToken
          /\ Advance(row, "EXPIRED")
          /\ Wait(c, "regrant", [row EXCEPT !.state = "EXPIRED"], 0)
          /\ UNCHANGED <<idToken, refreshToken>>
       \/ /\ row.state = "REFRESHING" \/ (row.state = "GRANTED" /\ row.aged)
          /\ RefreshStarts(c, row)
    /\ UNCHANGED <<payment, upsets>>

\* _full_grant and the grant of the EXPIRED branch, once the wire answered.
GrantReply(c) ==
    /\ caller[c].at \in {"grant", "regrant"}
    /\ \/ \E withRefresh \in BOOLEAN : StoreTokens(Loaded(c), withRefresh)
       \/ /\ idToken' = (idToken /\ caller[c].at = "regrant")
          /\ Advance(Loaded(c), "GRANT_FAILED")
          /\ UNCHANGED refreshToken
    /\ caller' = [caller EXCEPT ![c] = Idle]
    /\ UNCHANGED <<payment, upsets>>

\* One turn of the _refresh_cycle loop.
RefreshReply(c) ==
    /\ caller[c].at = "refresh"
    /\ \/ /\ refreshToken
          /\ \E withRefresh \in BOOLEAN : StoreTokens(Loaded(c), withRefresh)
          /\ caller' = [caller EXCEPT ![c] = Idle]
       \/ /\ caller[c].failures < 2
          /\ Advance(Loaded(c), "REFRESHING")
          /\ Wait(c, "refresh", caller[c].row, caller[c].failures + 1)
          /\ UNCHANGED <<idToken, refreshToken>>
       \/ /\ caller[c].failures = 2
          /\ RefreshGivenUp(c, Loaded(c))
    /\ UNCHANGED <<payment, upsets>>

HandleRail401 ==
    /\ tokenRow.state = "GRANTED"
    /\ idToken' = FALSE
    /\ Advance(tokenRow, "EXPIRED")
    /\ UNCHANGED <<refreshToken, caller, payment, upsets>>

Sweep ==
    /\ tokenRow.state = "GRANT_FAILED"
    /\ Advance(tokenRow, "NO_TOKEN")
    /\ UNCHANGED <<idToken, refreshToken, caller, payment, upsets>>

\* The clock: the token passes its fiftieth minute, the refresh token its
\* twenty-eighth day.
Ages ==
    /\ tokenRow.state = "GRANTED"
    /\ \/ ~tokenRow.aged /\ Save([tokenRow EXCEPT !.aged = TRUE])
       \/ ~tokenRow.lapsed /\ Save([tokenRow EXCEPT !.lapsed = TRUE])
    /\ UNCHANGED <<idToken, refreshToken, caller, denied, payment, upsets>>

\* A restart keeps the row and loses every value held in memory.
TokenRestart ==
    /\ upsets < MaxUpsets
    /\ upsets' = upsets + 1
    /\ idToken' = FALSE
    /\ refreshToken' = FALSE
    /\ caller' = [c \in Callers |-> Idle]
    /\ UNCHANGED <<tokenRow, denied, payment>>

TokenNext ==
    \/ \E c \in Callers : EnsureToken(c) \/ GrantReply(c) \/ RefreshReply(c)
    \/ HandleRail401
    \/ Sweep
    \/ Ages
    \/ TokenRestart

-----------------------------------------------------------------------------
(* One reference on one wallet *)

NoCall == [op |-> "idle", by |-> "none", pay |-> 0, reply |-> "none"]

Kinds == {"SUBMIT", "MANUAL", "REVERSE"}

\* IdempotencyStore.get / put: the first write wins.
Recorded(kind) == idem[kind]
Record(kind, result) ==
    idem' = [idem EXCEPT ![kind] = IF @ = "none" THEN result ELSE @]

\* MfsHandleStore.put / get
Remember(p) == handle' = p
PaymentIdFor == handle

Paid == \E p \in DOMAIN pays : pays[p] \in {"completed", "refunded"}

\* Only answers that claim something about the rail are kept, and of these the
\* last.
Definite == {"SUCCESS", "REVERSED", "REJECTED", "not_received"}
Tell(status, on) ==
    told' = IF status \in Definite
            THEN {[status |-> status, on |-> on, paid |-> Paid,
                   back |-> \E p \in DOMAIN pays : pays[p] = "refunded"]}
            ELSE {}

Send(c, op, by, p) ==
    call' = [call EXCEPT ![c] = [op |-> op, by |-> by, pay |-> p, reply |-> "none"]]

Answer(c, status) ==
    /\ call' = [call EXCEPT ![c] = NoCall]
    /\ Tell(status, "charge")

Free(c) == call[c].op = "idle"

\* submit of each connector up to its first request; a recorded result is
\* answered without one.
Opens(c, request) ==
    IF Recorded("SUBMIT") # "none"
    THEN Answer(c, Recorded("SUBMIT"))
    ELSE Send(c, request, "submit", 0) /\ UNCHANGED told
BkashSubmit(c) == wallet = "bkash" /\ Opens(c, "create")
NagadSubmit(c) == wallet = "nagad" /\ Opens(c, "initialize")
RocketSubmit(c) == wallet = "rocket" /\ Opens(c, "session")

\* The kernel dispatches one attempt of a reference at a time.
Submit(c) ==
    /\ Free(c)
    /\ \A d \in Calls : call[d].by # "submit"
    /\ BkashSubmit(c) \/ NagadSubmit(c) \/ RocketSubmit(c)
    /\ UNCHANGED <<tokens, wallet, handle, idem, late, pays, upsets>>

\* query_status up to its request: without a handle the payment was never
\* received.  bKash's submit and execute turn to it too.
Asks(c, request, by) ==
    IF PaymentIdFor = 0
    THEN Answer(c, "not_received")
    ELSE Send(c, request, by, PaymentIdFor) /\ UNCHANGED told
BkashQuery(c, by) == Asks(c, "status", by)
NagadQuery(c) == wallet = "nagad" /\ Asks(c, "verify", "query")
RocketQuery(c) == wallet = "rocket" /\ Asks(c, "validate", "query")

QueryStatus(c) ==
    /\ Free(c)
    /\ (wallet = "bkash" /\ BkashQuery(c, "query")) \/ NagadQuery(c) \/ RocketQuery(c)
    /\ UNCHANGED <<tokens, wallet, handle, idem, late, pays, upsets>>

\* execute of BkashPgwConnector up to its request.
Execute(c) ==
    /\ Free(c)
    /\ wallet = "bkash"
    /\ IF Recorded("MANUAL") # "none"
       THEN Answer(c, Recorded("MANUAL"))
       ELSE Asks(c, "execute", "execute")
    /\ UNCHANGED <<tokens, wallet, handle, idem, late, pays, upsets>>

\* reverse up to its request, as execute_reversal calls it: with the reference
\* of the charge.  Rocket asks by the reference and needs no handle.
Returns(c, known) ==
    IF Recorded("REVERSE") # "none"
    THEN Answer(c, Recorded("REVERSE"))
    ELSE IF known
         THEN Send(c, "refund", "reverse", PaymentIdFor) /\ UNCHANGED told
         ELSE Answer(c, "not_received")
BkashReverse(c) == wallet = "bkash" /\ Returns(c, PaymentIdFor # 0)
NagadReverse(c) == wallet = "nagad" /\ Returns(c, PaymentIdFor # 0)
RocketReverse(c) == wallet = "rocket" /\ Returns(c, TRUE)

Reverse(c) ==
    /\ Free(c)
    /\ BkashReverse(c) \/ NagadReverse(c) \/ RocketReverse(c)
    /\ UNCHANGED <<tokens, wallet, handle, idem, late, pays, upsets>>

\* reverse as process_refund calls it: with the reference of the refund, under
\* which no handle was ever put.
ReverseRefund(c) ==
    /\ Free(c)
    /\ Paid
    /\ IF wallet = "rocket"
       THEN Send(c, "refund", "reverse", 0) /\ UNCHANGED told
       ELSE Tell("not_received", "refund") /\ UNCHANGED call
    /\ UNCHANGED <<tokens, wallet, handle, idem, late, pays, upsets>>

\* The connectors' maps of the rail's payment states, one wording here.
StatusMap(state) == CASE state \in {"completed", "refunded"} -> "SUCCESS"
                      [] state = "failed" -> "REJECTED"
                      [] OTHER -> "PENDING"

\* bKash's answer to create.
CreateReply(c) ==
    /\ call[c].op = "create" /\ call[c].reply # "none"
    /\ \/ /\ call[c].reply = "ok"
          /\ Remember(call[c].pay)
          /\ call' = [call EXCEPT ![c].op = "recording"]
          /\ UNCHANGED <<idem, told>>
       \/ /\ call[c].reply = "exists"
          /\ BkashQuery(c, "submit")
          /\ UNCHANGED <<idem, handle>>
       \/ /\ call[c].reply = "rejected"
          /\ Record("SUBMIT", "REJECTED")
          /\ Answer(c, "REJECTED")
          /\ UNCHANGED handle
       \/ /\ call[c].reply \in {"error", "token", "lost"}
          /\ Answer(c, "FAILED")
          /\ UNCHANGED <<idem, handle>>
    /\ UNCHANGED <<tokens, wallet, late, pays, upsets>>

\* Nagad's answer to initialize leads to complete, whose answer leads to the
\* handle; an answer that does not verify is refused.
NagadReply(c) ==
    /\ call[c].op \in {"initialize", "complete"} /\ call[c].reply # "none"
    /\ \/ /\ call[c].op = "initialize" /\ call[c].reply = "ok"
          /\ Send(c, "complete", "submit", call[c].pay)
          /\ UNCHANGED <<handle, told>>
       \/ /\ call[c].op = "complete" /\ call[c].reply = "ok"
          /\ Remember(call[c].pay)
          /\ call' = [call EXCEPT ![c].op = "recording"]
          /\ UNCHANGED told
       \/ /\ call[c].reply # "ok"
          /\ Answer(c, "FAILED")
          /\ UNCHANGED handle
    /\ UNCHANGED <<tokens, wallet, idem, late, pays, upsets>>

\* Rocket's answer to create_session: anything but success is a recorded
\* rejection; a lost answer raises.
SessionReply(c) ==
    /\ call[c].op = "session" /\ call[c].reply # "none"
    /\ \/ /\ call[c].reply = "ok"
          /\ Remember(call[c].pay)
          /\ call' = [call EXCEPT ![c].op = "recording"]
          /\ UNCHANGED <<idem, told>>
       \/ /\ call[c].reply \in {"rejected", "error"}
          /\ Record("SUBMIT", "REJECTED")
          /\ Answer(c, "REJECTED")
          /\ UNCHANGED handle
       \/ /\ call[c].reply = "lost"
          /\ Answer(c, "FAILED")
          /\ UNCHANGED <<idem, handle>>
    /\ UNCHANGED <<tokens, wallet, late, pays, upsets>>

\* The second store call of a successful submit.
SubmitRecords(c) ==
    /\ call[c].op = "recording"
    /\ Record("SUBMIT", "PENDING")
    /\ Answer(c, "PENDING")
    /\ UNCHANGED <<tokens, wallet, handle, late, pays, upsets>>

\* execute after its await: a definite answer is recorded, an ambiguous one is
\* never sent again but queried, a mapped error is only returned.
ExecuteReply(c) ==
    /\ call[c].op = "execute" /\ call[c].reply # "none"
    /\ \/ /\ call[c].reply = "ok"
          /\ Record("MANUAL", "SUCCESS")
          /\ Answer(c, "SUCCESS")
       \/ /\ call[c].reply \in {"error", "lost"}
          /\ BkashQuery(c, "execute")
          /\ UNCHANGED idem
       \/ /\ call[c].reply = "rejected"
          /\ Answer(c, "REJECTED")
          /\ UNCHANGED idem
       \/ /\ call[c].reply \in {"refused", "token"}
          /\ Answer(c, "FAILED")
          /\ UNCHANGED idem
    /\ UNCHANGED <<tokens, wallet, handle, late, pays, upsets>>

\* query_status after its request; an answer that is lost or cannot be read
\* raises, a refused token is a refusal.
StatusReply(c) ==
    /\ call[c].op = "status" /\ call[c].reply # "none"
    /\ Answer(c, IF call[c].reply \in {"lost", "token"} THEN "FAILED"
                 ELSE StatusMap(call[c].reply))
    /\ UNCHANGED <<tokens, wallet, handle, idem, late, pays, upsets>>

VerifyReply(c) ==
    /\ call[c].op = "verify" /\ call[c].reply # "none"
    /\ Answer(c, IF call[c].reply = "lost" THEN "FAILED" ELSE StatusMap(call[c].reply))
    /\ UNCHANGED <<tokens, wallet, handle, idem, late, pays, upsets>>

ValidateReply(c) ==
    /\ call[c].op = "validate" /\ call[c].reply # "none"
    /\ Answer(c, IF call[c].reply = "lost" THEN "FAILED" ELSE StatusMap(call[c].reply))
    /\ UNCHANGED <<tokens, wallet, handle, idem, late, pays, upsets>>

\* reverse after its request: a success is recorded, anything else returned.
RefundReply(c) ==
    /\ call[c].op = "refund" /\ call[c].reply # "none"
    /\ IF call[c].reply = "ok"
       THEN Record("REVERSE", "REVERSED") /\ Answer(c, "REVERSED")
       ELSE Answer(c, "FAILED") /\ UNCHANGED idem
    /\ UNCHANGED <<tokens, wallet, handle, late, pays, upsets>>

\* A callback: a bad signature is refused, and what is handed on is never its
\* body but the rail's own answer for the remembered payment, PENDING without.
HandedOnBody(claim) == claim
HandedOn(claim) ==
    IF PaymentIdFor = 0 THEN "PENDING" ELSE StatusMap(pays[PaymentIdFor])
Ipn ==
    /\ \E claim \in {"SUCCESS", "REJECTED", "PENDING"} : Tell(HandedOn(claim), "charge")
    /\ UNCHANGED <<tokens, wallet, handle, idem, call, late, pays, upsets>>

-----------------------------------------------------------------------------
(* The rail, the customer, the runner and the process *)

\* What the rail may do with a request and answer to it: <<its payments after,
\* the reply, the payment named>>.  A refused token is refused before anything.
RailOutcomes(op, p) ==
    CASE op = "create" ->
           IF pays # << >>
           THEN {<<pays, "exists", 0>>, <<pays, "token", 0>>}
           ELSE {<<Append(pays, "initiated"), "ok", 1>>, <<pays, "rejected", 0>>,
                 <<pays, "error", 0>>, <<pays, "token", 0>>}
      [] op = "initialize" ->
           {<<pays, "error", 0>>} \cup
           (IF Len(pays) < MaxPays
            THEN {<<Append(pays, "opened"), "ok", Len(pays) + 1>>} ELSE {})
      [] op = "complete" ->
           {<<pays, "error", p>>, <<[pays EXCEPT ![p] = "initiated"], "ok", p>>}
      [] op = "session" ->
           {<<pays, "rejected", 0>>, <<pays, "error", 0>>} \cup
           (IF Len(pays) < MaxPays
            THEN {<<Append(pays, "initiated"), "ok", Len(pays) + 1>>} ELSE {})
      [] op = "execute" ->
           IF pays[p] = "approved"
           THEN {<<[pays EXCEPT ![p] = "completed"], "ok", p>>,
                 <<[pays EXCEPT ![p] = "completed"], "error", p>>,
                 <<[pays EXCEPT ![p] = "failed"], "rejected", p>>,
                 <<pays, "error", p>>, <<pays, "token", p>>}
           ELSE {<<pays, "refused", p>>}
      [] op = "status" -> {<<pays, pays[p], p>>, <<pays, "token", p>>}
      [] op \in {"verify", "validate"} -> {<<pays, pays[p], p>>}
      [] op = "refund" ->
           IF p # 0 /\ pays[p] = "completed"
           THEN {<<[pays EXCEPT ![p] = "refunded"], "ok", p>>}
           ELSE {<<pays, "refused", p>>}

OnWire(c) == call[c].op \notin {"idle", "recording"} /\ call[c].reply = "none"

\* The answer arrives, or is lost on the way back.
RailAnswers(c) ==
    /\ OnWire(c)
    /\ \E out \in RailOutcomes(call[c].op, call[c].pay) :
          /\ pays' = out[1]
          /\ \/ /\ call' = [call EXCEPT ![c].reply = out[2], ![c].pay = out[3]]
                /\ UNCHANGED upsets
             \/ /\ upsets < MaxUpsets
                /\ upsets' = upsets + 1
                /\ call' = [call EXCEPT ![c].reply = "lost"]
    /\ UNCHANGED <<tokens, wallet, handle, idem, late, told>>

\* A request that outlived its caller.
RailLate ==
    /\ \E r \in late :
          /\ late' = late \ {r}
          /\ \E out \in RailOutcomes(r.op, r.pay) : pays' = out[1]
    /\ UNCHANGED <<tokens, wallet, handle, idem, call, told, upsets>>

\* The customer is sent to the page of a submit that answered.
Customer ==
    /\ Recorded("SUBMIT") = "PENDING"
    /\ pays[handle] = "initiated"
    /\ \E next \in {IF wallet = "bkash" THEN "approved" ELSE "completed", "failed"} :
          pays' = [pays EXCEPT ![handle] = next]
    /\ UNCHANGED <<tokens, wallet, handle, idem, call, late, told, upsets>>

Left(c) == IF OnWire(c) THEN {[op |-> call[c].op, pay |-> call[c].pay]} ELSE {}

\* The runner's wait_for cancels a call that takes too long.
Cancel(c) ==
    /\ ~Free(c) /\ upsets < MaxUpsets
    /\ upsets' = upsets + 1
    /\ late' = late \cup Left(c)
    /\ call' = [call EXCEPT ![c] = NoCall]
    /\ UNCHANGED <<tokens, wallet, handle, idem, pays, told>>

\* The stores survive a restart, the calls do not.
ProcessRestart ==
    /\ upsets < MaxUpsets
    /\ upsets' = upsets + 1
    /\ late' = late \cup UNION {Left(c) : c \in Calls}
    /\ call' = [c \in Calls |-> NoCall]
    /\ UNCHANGED <<tokens, wallet, handle, idem, pays, told>>

WalletNext ==
    \/ \E c \in Calls :
          \/ Submit(c) \/ QueryStatus(c) \/ Execute(c) \/ Reverse(c)
          \/ ReverseRefund(c)
          \/ CreateReply(c) \/ NagadReply(c) \/ SessionReply(c)
          \/ SubmitRecords(c) \/ ExecuteReply(c) \/ StatusReply(c)
          \/ VerifyReply(c) \/ ValidateReply(c) \/ RefundReply(c) \/ RailAnswers(c) \/ Cancel(c)
    \/ Ipn
    \/ RailLate
    \/ Customer
    \/ ProcessRestart

-----------------------------------------------------------------------------

WInit ==
    /\ tokenRow = FreshRow
    /\ idToken = FALSE
    /\ refreshToken = FALSE
    /\ caller = [c \in Callers |-> Idle]
    /\ denied = FALSE
    /\ wallet \in {"bkash", "nagad", "rocket"}
    /\ handle = 0
    /\ idem = [k \in Kinds |-> "none"]
    /\ call = [c \in Calls |-> NoCall]
    /\ late = {}
    /\ pays = << >>
    /\ told = {}
    /\ upsets = 0

TokenSpec == WInit /\ [][TokenNext]_wallets
WalletSpec == WInit /\ [][WalletNext]_wallets

-----------------------------------------------------------------------------

\* Coroutines that interleave at the awaits of ensure_token never ask the
\* token table for a move it denies (the denial would escape as an error no
\* caller of submit handles); and no answer of a wallet connector, from a
\* direct call, a query after an ambiguous execute, a replay of a recorded
\* result or a callback, contradicts the rail at the moment it is given: a
\* payment called paid is paid, one called rejected or never received is not,
\* one called reversed has been given back.
WalletsTellTheTruth ==
    /\ ~denied
    /\ \A t \in told :
          /\ t.status = "SUCCESS" => t.paid
          /\ t.status = "REVERSED" => t.back
          /\ (t.status \in {"REJECTED", "not_received"} /\ t.on = "charge") => ~t.paid
=============================================================================
