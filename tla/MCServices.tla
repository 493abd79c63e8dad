----------------------------- MODULE MCServices -----------------------------
(***************************************************************************)
(* The services around a payment.  For merchants and customers: billing,   *)
(* offers, payment codes, the card vault, the interbank switch and the     *)
(* wallets, limits and routing, and the developers' sandbox.  For the      *)
(* regulator: onboarding of merchants, customers and participants,         *)
(* sanctions screening, monitoring, filings, dossiers and replay.  They    *)
(* share no state and a behaviour is about one of them, `part'.  Filings,  *)
(* participants, customers, merchants and dossiers have variables of their *)
(* own; for the others v1, v2, ... stand for the variables of the part at  *)
(* hand, in the order of its WITH clause, and are blank beyond them.       *)
(***************************************************************************)
EXTENDS Filings, Participants, Ekyc, Kyb, Dossiers

CONSTANT Parts

(* Two documents of the licence and one of another class. *)
ClassOfPaper == <<1, 1, 2>>

VARIABLES part, v1, v2, v3, v4, v5, v6, v7, v8, v9, v10, v11, v12, v13, v14, v15

slots == <<v1, v2, v3, v4, v5, v6, v7, v8, v9, v10, v11, v12, v13, v14, v15>>
services == <<part, slots, filings, party, ekyc, kyb, dossiers>>

Billing == INSTANCE Subscriptions WITH
    Cycles <- {1, 2}, Schedule <- 1, MaxCrashes <- 1,
    sub <- v1, overdue <- v2, fallen <- v3, cycle <- v4, intent <- v5, news <- v6,
    seen <- v7, crashes <- v8

Promo == INSTANCE Offers WITH
    Intents <- {1, 2}, Customers <- {"c"}, Caps <- {1, 2}, DayCap <- 1, OwnCap <- 2,
    Recredit <- TRUE, Days <- {1}, Net <- 1,
    offer <- v1, trading <- v2, lapsed <- v3, today <- v4, redeem <- v5, used <- v6,
    intentOf <- v7, bus <- v8, consumed <- v9, booked <- v10

PromoDays == INSTANCE Offers WITH
    Intents <- {1}, Customers <- {"c"}, Caps <- {2}, DayCap <- 1, OwnCap <- 2,
    Recredit <- TRUE, Days <- {1, 2}, Net <- 2,
    offer <- v1, trading <- v2, lapsed <- v3, today <- v4, redeem <- v5, used <- v6,
    intentOf <- v7, bus <- v8, consumed <- v9, booked <- v10

Safe == INSTANCE Vault WITH
    Custodians <- {1, 2}, Line <- <<1, 2, 1>>, Scheduled <- {"KEK", "DEK"}, Slots <- {1},
    MaxKeys <- 6, MaxIncidents <- 2, Cards <- {"a"}, Sessions <- {"s1"}, Calls <- {"x", "y"},
    MaxInvalid <- 1, NoSession <- "-",
    appointed <- v1, ceremony <- v2, keys <- v3, cipher <- v4, aliased <- v5,
    incidents <- v6, reruns <- v7, intake <- v8, cvv <- v9, sent <- v10, token <- v11,
    pan <- v12, egress <- v13, allowed <- v14, due <- v15

Codes == INSTANCE PayCodes WITH
    Payers <- {1, 2}, Scans <- {1, 2}, MaxFaults <- 2,
    link <- v1, lapsed <- v2, claims <- v3, paying <- v4, event <- v5, undone <- v6,
    merchant <- v7, code <- v8, dynamic <- v9, expired <- v10, order <- v11, notice <- v12,
    scan <- v13, made <- v14, faults <- v15

Interbank == INSTANCE Npsb WITH
    Refs <- {"r1"}, Calls <- {1, 2}, MaxScopes <- 2, MaxSends <- 4, MaxFaults <- 1,
    NoRef <- "-",
    session <- v1, stans <- v2, first <- v3, saf <- v4, undone <- v5, line <- v6,
    pending <- v7, replies <- v8, switch <- v9, trouble <- v10

Mfs == INSTANCE MfsWallets WITH
    Callers <- {1, 2}, Calls <- {1, 2}, MaxPays <- 1, MaxUpsets <- 1,
    tokenRow <- v1, idToken <- v2, refreshToken <- v3, caller <- v4, denied <- v5,
    wallet <- v6, handle <- v7, idem <- v8, call <- v9, late <- v10, pays <- v11,
    told <- v12, upsets <- v13

Admit == INSTANCE Admission WITH
    Intents <- {1, 2}, NoIntent <- 0, TxnCap <- 2, MonthCap <- 2, DayCap <- 2,
    DayCount <- 1, MonthLen <- 2, DayLen <- 1, Horizon <- 3, MaxTurns <- 1,
    Attempts <- {1}, Connectors <- {1, 2}, Dear <- {1}, Deferrable <- TRUE, MaxSamples <- 1,
    Probes <- {<<"down", 1>>, <<"degraded", 1>>, <<"up", 2>>},
    now <- v1, intent <- v2, lock <- v3, verdict <- v4, standing <- v5, turns <- v6,
    dispatchable <- v7, result <- v8, sample <- v9, policy <- v10, routed <- v11,
    decision <- v12

Trials == INSTANCE Sandbox WITH
    Signups <- {1, 2}, Tenants <- {1, 2}, Demos <- {1}, MaxOtpAttempts <- 2,
    MaxTroubles <- 1,
    signup <- v1, vault <- v2, mailed <- v3, stale <- v4, tenant <- v5, working <- v6,
    clock <- v7, shown <- v8, demo <- v9, troubles <- v10

Lists == INSTANCE Screening WITH
    Artifact <- << [size |-> 2, entry |-> "e1"], [size |-> 2, entry |-> "e2"] >>,
    Strong <- {"e1"}, MaxHits <- 1, MaxAlerts <- 1, MaxFaults <- 2, NoEntry <- "-",
    memory <- v1, version <- v2, whole <- v3, hit <- v4, excused <- v5, granted <- v6,
    frozen <- v7, alert <- v8, report <- v9, faults <- v10

Hits == INSTANCE Screening WITH
    Artifact <- << [size |-> 2, entry |-> "e1"] >>,
    Strong <- {"e1"}, MaxHits <- 2, MaxAlerts <- 1, MaxFaults <- 1, NoEntry <- "-",
    memory <- v1, version <- v2, whole <- v3, hit <- v4, excused <- v5, granted <- v6,
    frozen <- v7, alert <- v8, report <- v9, faults <- v10

Watch == INSTANCE Monitoring WITH
    Payments <- {1, 2, 3}, Large <- {3}, Packs <- {1, 2}, Window <- 2, MinCount <- 2,
    Aggregate <- 2, DayCount <- 2, Dormancy <- 1, Spike <- 1, Horizon <- 3, MaxTries <- 2,
    MaxTroubles <- 1,
    now <- v1, at <- v2, outbox <- v3, pack <- v4, key <- v5, boot <- v6, mind <- v7,
    alerts <- v8, judged <- v9, overlooked <- v10, troubles <- v11

Recount == INSTANCE Replay WITH
    N <- 3, AttributeClose <- TRUE, Requests <- {1},
    Modes <- {"WINDOW_REPLAY", "ACCOUNT_BALANCE", "ENTRY_SEQUENCE", "DISPUTE_TRAIL"},
    MaxUnwinds <- 1, MaxDrifts <- 1,
    chain <- v1, runs <- v2, replay <- v3, bundle <- v4, drifts <- v5

Untagged == INSTANCE Replay WITH
    N <- 3, AttributeClose <- FALSE, Requests <- {1},
    Modes <- {"WINDOW_REPLAY", "ACCOUNT_BALANCE", "ENTRY_SEQUENCE", "DISPUTE_TRAIL"},
    MaxUnwinds <- 1, MaxDrifts <- 1,
    chain <- v1, runs <- v2, replay <- v3, bundle <- v4, drifts <- v5

(* Blankk: the variables from vk on are unused. *)
Blank14 == v14 = 0 /\ v15 = 0
Blank13 == v13 = 0 /\ Blank14
Blank12 == v12 = 0 /\ Blank13
Blank11 == v11 = 0 /\ Blank12
Blank9 == v9 = 0 /\ v10 = 0 /\ Blank11
Blank6 == v6 = 0 /\ v7 = 0 /\ v8 = 0 /\ Blank9
Blank1 == v1 = 0 /\ v2 = 0 /\ v3 = 0 /\ v4 = 0 /\ v5 = 0 /\ Blank6

InitServices ==
    /\ part \in Parts /\ LInit /\ PInit /\ EInit /\ BInit /\ DInit
    /\ \/ part = "subscriptions" /\ Billing!SInit /\ Blank9
       \/ part = "offers" /\ Promo!FInit /\ Blank11
       \/ part = "offerdays" /\ PromoDays!FInit /\ Blank11
       \/ part = "keys" /\ Safe!VInit
       \/ part = "cards" /\ Safe!VInit
       \/ part = "links" /\ Codes!PInit
       \/ part = "qr" /\ Codes!PInit
       \/ part = "npsb" /\ Interbank!NInit /\ Blank11
       \/ part = "tokens" /\ Mfs!WInit /\ v6 = "bkash" /\ Blank14
       \/ part = "wallets" /\ Mfs!WInit /\ Blank14
       \/ part = "limits" /\ Admit!AInit /\ Blank13
       \/ part = "routing" /\ Admit!AInit /\ Blank13
       \/ part = "sandbox" /\ Trials!SInit /\ Blank11
       \/ part \in {"kyb", "ekyc", "members", "filings", "dossiers"} /\ Blank1
       \/ part = "lists" /\ Lists!SInit /\ Blank11
       \/ part = "screening" /\ Hits!SInit /\ Blank11
       \/ part = "monitoring" /\ Watch!MInit /\ Blank12
       \/ part = "replay" /\ Recount!RInit /\ Blank6
       \/ part = "untagged" /\ Untagged!RInit /\ Blank6

(* Keepk: the variables from vk on stay blank. *)
Keep14 == UNCHANGED <<v14, v15>>
Keep13 == UNCHANGED <<v13, v14, v15>>
Keep12 == UNCHANGED <<v12, v13, v14, v15>>
Keep11 == UNCHANGED <<v11, v12, v13, v14, v15>>
Keep9 == UNCHANGED <<v9, v10, v11, v12, v13, v14, v15>>
Keep6 == UNCHANGED <<v6, v7, v8, v9, v10, v11, v12, v13, v14, v15>>

(* A step of a part whose variables are the slots. *)
NextSlots ==
    \/ part = "subscriptions" /\ Billing!SNext /\ Keep9
    \/ part = "offers" /\ Promo!FNext /\ Keep11
    \/ part = "offerdays" /\ PromoDays!FNext /\ Keep11
    \/ part = "keys" /\ Safe!KeyNext
    \/ part = "cards" /\ Safe!CardNext
    \/ part = "links" /\ Codes!LinkNext
    \/ part = "qr" /\ Codes!QrNext
    \/ part = "npsb" /\ Interbank!NpsbNext /\ Keep11
    \/ part = "tokens" /\ Mfs!TokenNext /\ Keep14
    \/ part = "wallets" /\ Mfs!WalletNext /\ Keep14
    \/ part = "limits" /\ Admit!LimitNext /\ Keep13
    \/ part = "routing" /\ Admit!RouteNext /\ Keep13
    \/ part = "sandbox" /\ Trials!SNext /\ Keep11
    \/ part = "lists" /\ Lists!SNext /\ Keep11
    \/ part = "screening" /\ Hits!SNext /\ Keep11
    \/ part = "monitoring" /\ Watch!MNext /\ Keep12
    \/ part = "replay" /\ Recount!RNext /\ Keep6
    \/ part = "untagged" /\ Untagged!RNext /\ Keep6

NextServices ==
    /\ UNCHANGED part
    /\ \/ NextSlots /\ UNCHANGED <<filings, party, ekyc, kyb, dossiers>>
       \/ part = "ekyc" /\ ENext /\ UNCHANGED <<slots, filings, party, kyb, dossiers>>
       \/ part = "members" /\ PNext /\ UNCHANGED <<slots, filings, ekyc, kyb, dossiers>>
       \/ part = "filings" /\ LNext /\ UNCHANGED <<slots, party, ekyc, kyb, dossiers>>
       \/ part = "kyb" /\ BNext /\ UNCHANGED <<slots, filings, party, ekyc, dossiers>>
       \/ part = "dossiers" /\ DNext /\ UNCHANGED <<slots, filings, party, ekyc, kyb>>

SpecServices == InitServices /\ [][NextServices]_services
-----------------------------------------------------------------------------
(* Subscriptions.tla: one intent per billing attempt, and every cycle ends in one outcome. *)
CyclesAreAccounted == part = "subscriptions" => Billing!CyclesAreAccounted

(* Offers.tla: the counters of an offer are the redemptions that hold a slot. *)
SlotsAreConserved ==
    /\ part = "offers" => Promo!SlotsAreConserved
    /\ part = "offerdays" => PromoDays!SlotsAreConserved

(* Vault.tla: a key outlives what it encrypts, and card data its purpose by nothing. *)
VaultKeepsCards ==
    /\ part = "keys" => Safe!KeysOutliveCiphertexts
    /\ part = "cards" => Safe!CardDataIsBounded

(* PayCodes.tla: a single-use link and a dynamic code are charged once. *)
CodesChargeOnce == part \in {"links", "qr"} => Codes!CodesChargeOnce

(* Npsb.tla: what callers are told is what the switch did. *)
SwitchIsHeard == part = "npsb" => Interbank!SwitchIsHeard

(* MfsWallets.tla: a definite answer is what the wallet rail did. *)
WalletsTellTheTruth == part \in {"tokens", "wallets"} => Mfs!WalletsTellTheTruth

(* Admission.tla: payments stay within the caps, and a recorded decision explains a route. *)
AdmissionIsExplained ==
    /\ part = "limits" => Admit!CapsHold
    /\ part = "routing" => Admit!RouteIsExplained

(* Sandbox.tla: a sandbox tenant is provisioned whole, and once. *)
TenantsAreWhole == part = "sandbox" => Trials!TenantsAreWhole

(* Screening.tla: a sanctions hit is released by two people or kept frozen. *)
HitsAreHandled ==
    /\ part = "lists" => Lists!HitsAreHandled
    /\ part = "screening" => Hits!HitsAreHandled

(* Monitoring.tla: a structuring ring that was evaluated raised its alert. *)
RingIsCaught == part = "monitoring" => Watch!RingIsCaught

(* Replay.tla: a replay and a bundle report exactly the drift there is. *)
ReplayTellsDrift ==
    /\ part = "replay" => Recount!ReplayTellsDrift
    /\ part = "untagged" => Untagged!ReplayTellsDrift
=============================================================================
