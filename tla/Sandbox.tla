------------------------------- MODULE Sandbox -------------------------------
(***************************************************************************)
(* Self-serve registration of the public sandbox (bdpay/gateway/sandbox.py)*)
(* and the demo flows of the gateway that drive it.                        *)
(*                                                                         *)
(* A signup row goes CREATED -> VERIFIED -> PROVISIONED.  Verification     *)
(* compares a mailed code with a digest that lives only in the process;    *)
(* provisioning then drives the merchant onboarding service call by call   *)
(* and mints a test key.  Everything a request does is one synchronous     *)
(* stretch of the event loop, so requests do not interleave, but each      *)
(* store call commits by itself: a process that dies leaves a prefix.      *)
(*                                                                         *)
(* Two demo handlers reuse this: the full-flow seed signs a merchant up,   *)
(* replaces the clock of the shared onboarding and ledger services while   *)
(* the verification runs, and then pays and refunds; the diner payment     *)
(* pays an existing merchant.  They await the rail, so these parts do      *)
(* interleave with other requests.                                         *)
(***************************************************************************)
EXTENDS Naturals, Sequences, FiniteSets

CONSTANTS Signups,        \* registrations
          Tenants,        \* merchant identities a provisioning may take, 1..n
          Demos,          \* demo requests
          MaxOtpAttempts, \* MAX_OTP_ATTEMPTS
          MaxTroubles     \* deaths of the process and raising calls

VARIABLES signup,    \* sandbox_signups rows
          vault,     \* signups whose code digest the process holds
          mailed,    \* signups whose code was handed to the notification queue
          stale,     \* signups older than the time to live
          tenant,    \* per merchant identity: onboarding calls already committed
          working,   \* the provisioning in progress
          clock,     \* clock of the shared services: "wall" or "seed"
          shown,     \* merchant identities whose key secret was returned
          demo,      \* demo requests
          troubles

sandbox == <<signup, vault, mailed, stale, tenant, working, clock, shown, demo,
             troubles>>

-----------------------------------------------------------------------------
(* Rows and their states.                                                  *)

NoSignup == [state |-> "ABSENT", tries |-> 0, merchant |-> 0]

\* No provisioning is running.
Idle == [signup |-> {}, tenant |-> 0, demo |-> {}]

\* The calls _drive_kyb makes, in order; the last one mints the key.
KybCalls ==
    <<"submit_application", "upload_documents", "check_documents_complete",
      "add_ubo_node", "record_porichoy_result", "submit_for_review",
      "run_sanctions_review", "request_activation", "decide_activation",
      "sign_agreement", "mint">>

\* The merchant is ACTIVE once its agreement is signed.
Active(t) == t # 0 /\ tenant[t] >= Len(KybCalls) - 1

\* The minter refuses any environment but test before the key service is
\* touched, so a minted key is a test key.
Minted(t) == tenant[t] = Len(KybCalls)

SInit ==
    /\ signup = [s \in Signups |-> NoSignup]
    /\ vault = {} /\ mailed = {} /\ stale = {} /\ shown = {}
    /\ tenant = [t \in Tenants |-> 0]
    /\ working = Idle
    /\ clock = "wall"
    /\ demo = [d \in Demos |-> [at |-> "unasked", kind |-> "none", signup |-> {},
                                intent |-> "none", refund |-> "none"]]
    /\ troubles = 0

-----------------------------------------------------------------------------
(* The signup store and the vault.                                         *)

Insert(s) ==
    /\ signup[s].state = "ABSENT"
    /\ signup' = [signup EXCEPT ![s].state = "CREATED"]

Save(s, to) == signup' = [signup EXCEPT ![s].state = to]

CreatedBefore == {s \in stale : signup[s].state = "CREATED"}

Drop(s) == vault' = vault \ {s}

\* A death keeps the rows and loses what lives in the process.
Dies ==
    /\ troubles < MaxTroubles /\ troubles' = troubles + 1
    /\ vault' = {}
    /\ working' = Idle
    /\ clock' = "wall"
    /\ demo' = [d \in Demos |->
                  IF demo[d].at \in {"unasked", "done"} THEN demo[d]
                  ELSE [demo[d] EXCEPT !.at = "failed"]]

Lives == UNCHANGED troubles

-----------------------------------------------------------------------------
(* Requests.  `working = Idle' says that no synchronous stretch is open.   *)

\* What a signup leaves: the row, the digest, the queued mail.
SignsUp(s) ==
    /\ Insert(s)
    /\ vault' = vault \cup {s}
    /\ mailed' = mailed \cup {s}

Signup(s) ==
    /\ working = Idle
    /\ SignsUp(s)
    /\ Lives
    /\ UNCHANGED <<stale, tenant, working, clock, shown, demo>>

\* The row is committed and the process dies before the code is queued.
SignupTorn(s) ==
    /\ working = Idle
    /\ Insert(s)
    /\ Dies
    /\ UNCHANGED <<mailed, stale, tenant, shown>>

Expire(s) == Save(s, "EXPIRED") /\ Drop(s)

Revoked(s) == Save(s, "REVOKED") /\ Drop(s)

\* A matching code: VERIFIED is saved, the digest dropped, and the same
\* stretch goes on to provision a merchant identity of its own.
Matches(s, t, by) ==
    /\ tenant[t] = 0
    /\ Save(s, "VERIFIED")
    /\ Drop(s)
    /\ working' = [signup |-> {s}, tenant |-> t, demo |-> by]

\* A wrong code, or a digest that is gone, counts; the attempt that reaches
\* the limit revokes.
Mismatches(s) ==
    LET tries == signup[s].tries + 1 IN
    IF tries >= MaxOtpAttempts
    THEN /\ signup' = [signup EXCEPT ![s].tries = tries, ![s].state = "REVOKED"]
         /\ Drop(s)
    ELSE /\ signup' = [signup EXCEPT ![s].tries = tries]
         /\ UNCHANGED vault

Verify(s) ==
    /\ working = Idle
    /\ signup[s].state = "CREATED"
    /\ \/ s \in stale /\ Expire(s) /\ UNCHANGED working
       \/ /\ s \notin stale /\ s \in mailed /\ s \in vault
          /\ \E t \in Tenants : Matches(s, t, {})
       \/ s \notin stale /\ Mismatches(s) /\ UNCHANGED working
    /\ Lives
    /\ UNCHANGED <<mailed, stale, tenant, clock, shown, demo>>

\* The attempt that reaches the limit is saved and the process dies before
\* the revocation.
VerifyTorn(s) ==
    /\ working = Idle
    /\ signup[s].state = "CREATED" /\ s \notin stale
    /\ signup[s].tries + 1 >= MaxOtpAttempts
    /\ signup' = [signup EXCEPT ![s].tries = @ + 1]
    /\ Dies
    /\ UNCHANGED <<mailed, stale, tenant, shown>>

\* The retry after a failed provisioning takes a fresh merchant identity.
Provision(s) ==
    /\ working = Idle
    /\ signup[s].state = "VERIFIED"
    /\ \E t \in Tenants : /\ tenant[t] = 0
                          /\ working' = [signup |-> {s}, tenant |-> t, demo |-> {}]
    /\ Lives
    /\ UNCHANGED <<signup, vault, mailed, stale, tenant, clock, shown, demo>>

Revoke(s) ==
    /\ working = Idle
    /\ signup[s].state \in {"CREATED", "VERIFIED"}
    /\ Revoked(s)
    /\ Lives
    /\ UNCHANGED <<mailed, stale, tenant, working, clock, shown, demo>>

SweepExpiry ==
    /\ working = Idle
    /\ CreatedBefore # {}
    /\ signup' = [s \in Signups |-> IF s \in CreatedBefore
                                    THEN [signup[s] EXCEPT !.state = "EXPIRED"]
                                    ELSE signup[s]]
    /\ vault' = vault \ CreatedBefore
    /\ Lives
    /\ UNCHANGED <<mailed, stale, tenant, working, clock, shown, demo>>

-----------------------------------------------------------------------------
(* Provisioning, one committed call at a time.                             *)

\* Without the finally clause the seed's clock would stay.
ClockStays == UNCHANGED clock

\* The finally clause of the seed gives the shared services their clock back.
ClockBack == clock' = "wall"

\* The seed goes on behind a provisioning it asked for; a raise ends it.
DemoGoes(to) == demo' = [d \in Demos |-> IF d \in working.demo
                                         THEN [demo[d] EXCEPT !.at = to]
                                         ELSE demo[d]]

DriveKyb ==
    /\ working # Idle /\ ~Minted(working.tenant)
    /\ tenant' = [tenant EXCEPT ![working.tenant] = @ + 1]
    /\ Lives
    /\ UNCHANGED <<signup, vault, mailed, stale, working, clock, shown, demo>>

\* A call raises: the row stays VERIFIED with no merchant bound to it.
ProvisionFails ==
    /\ working # Idle /\ ~Minted(working.tenant)
    /\ troubles < MaxTroubles /\ troubles' = troubles + 1
    /\ working' = Idle
    /\ ClockBack
    /\ DemoGoes("failed")
    /\ UNCHANGED <<signup, vault, mailed, stale, tenant, shown>>

BindTenant(s, t) ==
    signup' = [signup EXCEPT ![s].state = "PROVISIONED", ![s].merchant = t]

Provisioned ==
    /\ working # Idle /\ Minted(working.tenant)
    /\ \E s \in working.signup : BindTenant(s, working.tenant)
    /\ shown' = shown \cup {working.tenant}
    /\ working' = Idle
    /\ ClockBack
    /\ DemoGoes("provisioned")
    /\ Lives
    /\ UNCHANGED <<vault, mailed, stale, tenant>>

\* The row is bound and the process dies before the secret is returned.
ProvisionedUnheard ==
    /\ working # Idle /\ Minted(working.tenant)
    /\ \E s \in working.signup : BindTenant(s, working.tenant)
    /\ Dies
    /\ UNCHANGED <<mailed, stale, tenant, shown>>

Crash ==
    /\ Dies
    /\ UNCHANGED <<signup, mailed, stale, tenant, shown>>

Age(s) ==
    /\ s \notin stale /\ signup[s].state = "CREATED"
    /\ stale' = stale \cup {s}
    /\ UNCHANGED <<signup, vault, mailed, tenant, working, clock, shown, demo,
                   troubles>>

-----------------------------------------------------------------------------
(* The demo handlers.                                                      *)

SwapClock == clock' = "seed"

\* The seed signs up, reads the code back out of the queue and verifies.
DemoSeed(d, s) ==
    /\ working = Idle
    /\ demo[d].at = "unasked" /\ signup[s].state = "ABSENT"
    /\ \E t \in Tenants :
          /\ tenant[t] = 0
          /\ signup' = [signup EXCEPT ![s].state = "VERIFIED"]
          /\ working' = [signup |-> {s}, tenant |-> t, demo |-> {d}]
    /\ mailed' = mailed \cup {s}
    /\ SwapClock
    /\ demo' = [demo EXCEPT ![d] = [@ EXCEPT !.at = "seeding", !.kind = "seed",
                                             !.signup = {s}]]
    /\ Lives
    /\ UNCHANGED <<vault, stale, tenant, shown>>

\* A diner pays a merchant that is ACTIVE.
DinerPay(d, s) ==
    /\ working = Idle
    /\ demo[d].at = "unasked" /\ Active(signup[s].merchant)
    /\ demo' = [demo EXCEPT ![d] = [@ EXCEPT !.at = "confirming", !.kind = "diner",
                                             !.signup = {s}, !.intent = "created"]]
    /\ Lives
    /\ UNCHANGED <<signup, vault, mailed, stale, tenant, working, clock, shown>>

\* Behind the provisioning the seed mints a portal key, activates a customer
\* and creates the intent, up to the await of the confirmation.
SeedIntent(d) ==
    /\ working = Idle
    /\ demo[d].at = "provisioned"
    /\ demo' = [demo EXCEPT ![d].at = "confirming", ![d].intent = "created"]
    /\ Lives
    /\ UNCHANGED <<signup, vault, mailed, stale, tenant, working, clock, shown>>

\* The confirmation answers; a capture of what is not authorised raises.  The
\* seed then opens a refund and awaits its processing.
DemoConfirmed(d, authorised) ==
    /\ working = Idle
    /\ demo[d].at = "confirming"
    /\ demo' = [demo EXCEPT ![d] =
         IF ~authorised THEN [@ EXCEPT !.at = "failed"]
         ELSE IF demo[d].kind = "diner"
         THEN [@ EXCEPT !.at = "done", !.intent = "captured"]
         ELSE [@ EXCEPT !.at = "refunding", !.intent = "captured",
                        !.refund = "initiated"]]
    /\ Lives
    /\ UNCHANGED <<signup, vault, mailed, stale, tenant, working, clock, shown>>

DemoRefunded(d, result) ==
    /\ working = Idle
    /\ demo[d].at = "refunding"
    /\ demo' = [demo EXCEPT ![d].at = "done", ![d].refund = result]
    /\ Lives
    /\ UNCHANGED <<signup, vault, mailed, stale, tenant, working, clock, shown>>

\* The summary the full-flow read gives of a seed.
DemoFlowStatus(d) ==
    IF demo[d].refund \in {"initiated", "settled"} THEN "PARTIALLY_REFUNDED"
    ELSE demo[d].intent

SNext ==
    \/ \E s \in Signups : \/ Signup(s) \/ SignupTorn(s) \/ Verify(s)
                          \/ VerifyTorn(s) \/ Provision(s) \/ Revoke(s) \/ Age(s)
    \/ SweepExpiry
    \/ DriveKyb \/ ProvisionFails \/ Provisioned \/ ProvisionedUnheard
    \/ Crash
    \/ \E d \in Demos : \/ \E s \in Signups : DemoSeed(d, s) \/ DinerPay(d, s)
                        \/ SeedIntent(d)
                        \/ \E ok \in BOOLEAN : DemoConfirmed(d, ok)
                        \/ \E r \in {"initiated", "settled", "failed"} :
                              DemoRefunded(d, r)

SSpec == SInit /\ [][SNext]_sandbox

-----------------------------------------------------------------------------
(* A signup is bound to a merchant exactly when it is PROVISIONED, the     *)
(* merchant is then ACTIVE with its key minted and bound to no other       *)
(* signup, and a secret is only ever shown for a bound merchant, wherever  *)
(* a call raised or the process died (provision: "no partial tenant").     *)
(* A code is accepted only while the row is CREATED: no digest survives    *)
(* the state, and none is left once the attempts are used up, even when    *)
(* the process dies between counting the last attempt and revoking.  A     *)
(* demo pays only a merchant that is bound, and the clock the seed puts    *)
(* under the shared services is gone whenever another request may run.     *)
TenantsAreWhole ==
    /\ \A s \in Signups :
          LET row == signup[s] IN
          /\ row.state = "PROVISIONED" => row.merchant \in Tenants /\ Minted(row.merchant)
          /\ row.state # "PROVISIONED" => row.merchant = 0
          /\ s \in vault => row.state = "CREATED" /\ row.tries < MaxOtpAttempts
          /\ \A other \in Signups \ {s} :
                row.merchant # 0 => signup[other].merchant # row.merchant
    /\ shown \subseteq {signup[s].merchant : s \in Signups}
    /\ working = Idle => clock = "wall"
    /\ \A d \in Demos : demo[d].intent # "none" =>
          \A s \in demo[d].signup : signup[s].state = "PROVISIONED"
    /\ \A d \in Demos : demo[d].at = "done" => DemoFlowStatus(d) # "created"
=============================================================================
