-------------------------------- MODULE Boot --------------------------------
(***************************************************************************)
(* How a process comes up and goes down: custody of the ledger's           *)
(* checkpoint key (bdpay.ledger.trust_registry), and the composition root  *)
(* that wires every service, refuses unsafe deployments, starts and stops  *)
(* the background workers (bdpay.app, bdpay.platform.config and            *)
(* .scheduler, GatewaySettings, SandboxPublicGuard).                       *)
(***************************************************************************)
EXTENDS Naturals, Sequences

CONSTANTS
    Instances,       \* processes that share one custody file
    MaxKeyRotations, \* bound: authorised key rotations
    MaxInstanceDeaths \* bound: processes that die and are started again

VARIABLES
    file,      \* the trust record: missing, opened but empty, or written; newest key last
    inst,      \* [at, key, trusted] of each instance
    signed,    \* keys under which checkpoints were written
    minted,    \* keys generated so far
    rotating,  \* the keys an operator's rotation has read, or none
    bootDeaths,
    env,       \* what the deployment configures
    phase,     \* where build_services, the application or its shutdown stands
    built,     \* the pieces of the container whose choice matters
    owned,     \* connections the container closes
    tasks,     \* names registered with a scheduler
    workers    \* background tasks that run

custody == <<file, inst, signed, minted, rotating, bootDeaths>>
container == <<env, phase, built, owned, tasks, workers>>
-----------------------------------------------------------------------------
(* Custody of the checkpoint signing key.                                   *)
NoInstance == [at |-> "down", key |-> 0, trusted |-> {}]

CustodyInit ==
    /\ file = [is |-> "missing", keys |-> <<>>] /\ inst = [i \in Instances |-> NoInstance]
    /\ signed = {} /\ minted = 0 /\ rotating = <<>> /\ bootDeaths = 0

Written(keys) == [is |-> "written", keys |-> keys]
Enrolled == {file.keys[n] : n \in DOMAIN file.keys}

Starts(i) ==
    /\ inst[i].at = "down"
    /\ inst' = [inst EXCEPT ![i].at = "read"]
    /\ UNCHANGED <<file, signed, minted, rotating, bootDeaths>>

(* active_signer, from the read of the record to the key it finds; a record *)
(* that is not JSON is an error, one that is missing is made.                *)
ReadCustody(i) ==
    /\ inst[i].at = "read"
    /\ \/ /\ file.is = "missing"
          /\ minted' = minted + 1
          /\ inst' = [inst EXCEPT ![i].at = "create", ![i].key = minted + 1]
       \/ /\ file.is = "empty"
          /\ inst' = [inst EXCEPT ![i] = [NoInstance EXCEPT !.at = "refused"]]
          /\ UNCHANGED minted
       \/ /\ file.is = "written"
          /\ inst' = [inst EXCEPT ![i].at = "trust", ![i].key = file.keys[Len(file.keys)]]
          /\ UNCHANGED minted
    /\ UNCHANGED <<file, signed, rotating, bootDeaths>>

(* _create_exclusive opens the record itself and writes it afterwards; the  *)
(* instance that loses the race reads the winner's.                          *)
CreateExclusive(i) ==
    /\ inst[i].at = "create"
    /\ \/ /\ file.is = "missing" /\ file' = [file EXCEPT !.is = "empty"]
          /\ inst' = [inst EXCEPT ![i].at = "fill"]
       \/ /\ file.is # "missing" /\ UNCHANGED file
          /\ inst' = [inst EXCEPT ![i].at = "read", ![i].key = 0]
    /\ UNCHANGED <<signed, minted, rotating, bootDeaths>>

FillCustody(i) ==
    /\ inst[i].at = "fill"
    /\ file' = Written(<<inst[i].key>>)
    /\ inst' = [inst EXCEPT ![i].at = "read"]
    /\ UNCHANGED <<signed, minted, rotating, bootDeaths>>

(* build_checkpoint_trust reads the record once more for the trusted set.   *)
Trusts(i) ==
    /\ inst[i].at = "trust"
    /\ inst' = [inst EXCEPT ![i].at = "up", ![i].trusted = Enrolled]
    /\ UNCHANGED <<file, signed, minted, rotating, bootDeaths>>

SignsCheckpoint(i) ==
    /\ inst[i].at = "up"
    /\ signed' = signed \cup {inst[i].key}
    /\ UNCHANGED <<file, inst, minted, rotating, bootDeaths>>

(* rotate reads the record, retires its key and replaces the record; an     *)
(* operator at a time, of a key that exists.                                 *)
RotateReads ==
    /\ rotating = <<>> /\ Enrolled # {} /\ Len(file.keys) <= MaxKeyRotations
    /\ rotating' = file.keys
    /\ UNCHANGED <<file, inst, signed, minted, bootDeaths>>

RotateReplaces ==
    /\ rotating # <<>>
    /\ minted' = minted + 1
    /\ file' = Written(Append(rotating, minted + 1)) /\ rotating' = <<>>
    /\ UNCHANGED <<inst, signed, bootDeaths>>

InstanceDies(i) ==
    /\ inst[i].at \notin {"down", "refused"} /\ bootDeaths < MaxInstanceDeaths
    /\ bootDeaths' = bootDeaths + 1 /\ inst' = [inst EXCEPT ![i] = NoInstance]
    /\ UNCHANGED <<file, signed, minted, rotating>>

CustodyNext ==
    \/ \E i \in Instances : \/ Starts(i) \/ ReadCustody(i) \/ CreateExclusive(i) \/ FillCustody(i)
                            \/ Trusts(i) \/ SignsCheckpoint(i) \/ InstanceDies(i)
    \/ RotateReads \/ RotateReplaces
-----------------------------------------------------------------------------
(* The composition root.                                                     *)
ExternalModes == {"SIMULATOR", "DISABLED", "SANDBOX", "PRODUCTION"}
Live == env.mode \in {"SANDBOX", "PRODUCTION"}
Entries == {"rail", "beftn", "goaml", "sms", "feed"}

(* Settings and the deployment document; entries are read in a live mode    *)
(* only, and sound says they are complete, certified and resolve.            *)
Settings ==
    {e \in [production : BOOLEAN, memory : BOOLEAN, mode : ExternalModes, named : SUBSET Entries, sound : BOOLEAN,
            public : BOOLEAN, cash : {"off", "on", "wired", "wired only"}] :
        e.mode \in {"SIMULATOR", "DISABLED"} => e.named = {} /\ e.sound}

BootInit ==
    /\ env \in Settings /\ phase = "settings" /\ owned = {} /\ tasks = {} /\ workers = {}
    /\ built = [portal |-> "none", feed |-> "none", runner |-> "none", beftn |-> "none",
                sms |-> "none", sandbox |-> FALSE, cash |-> FALSE]

BInit == CustodyInit /\ BootInit

To(next) == phase' = next
Kept == UNCHANGED <<env, workers>>
Unbuilt == UNCHANGED <<built, owned, tasks>>

(* A step of build_services that goes through, or raises: the factory       *)
(* raises with it and no process serves.                                     *)
Wires(step, next, may) ==
    /\ phase = step /\ Kept
    /\ IF may THEN To(next) ELSE To("refused") /\ Unbuilt

Own(connections) == owned' = IF env.memory THEN owned ELSE owned \cup connections

ReadSettings == Wires("settings", "books", env.cash # "wired only") /\ Unbuilt

(* The ledger and TCSA connections, after the checkpoint key.               *)
WireBooks(reachable) ==
    /\ Wires("books", "compliance", env.memory \/ reachable)
    /\ phase' = "compliance" => Own({"ledger", "tcsa"}) /\ UNCHANGED <<built, tasks>>

(* The compliance stores; the configured list and rule pack load or raise.  *)
LoadConfiguredRulePack(readable, sameKey) == readable /\ sameKey

WireCompliance(knownSource, readable, sameKey) ==
    /\ Wires("compliance", "reporting", knownSource /\ LoadConfiguredRulePack(readable, sameKey))
    /\ Unbuilt

(* What an entry of the document must have before its connector is built.   *)
LiveRegistrationConfig(id) == id \in env.named /\ env.sound
Piece == IF env.sound THEN "live" ELSE "unproven"

GoamlPortalBuilds == Live => LiveRegistrationConfig("goaml") /\ (env.memory => ~env.production)
FeedBuilds == Live /\ "feed" \in env.named => env.sound
FeedConfigured == Live /\ "feed" \in env.named

ComplianceTasks(feed) ==
    {"sanctions_rescreen", "ctr_daily_aggregate", "ctr_filing", "str_filing", "str_retry",
     "goaml_submit_sweep", "str_ack_confirm"}
        \cup (IF feed THEN {"sanctions_feed_poll", "sanctions_staleness"} ELSE {})

(* The document, the goAML portal and its filing store, the sanctions feed, *)
(* and the compliance scheduler.                                             *)
WireReporting ==
    /\ Wires("reporting", "kernel", GoamlPortalBuilds /\ FeedBuilds)
    /\ phase' = "kernel" =>
          /\ built' = [built EXCEPT !.portal = IF Live THEN Piece ELSE env.mode,
                                    !.feed = IF FeedConfigured THEN Piece ELSE "none"]
          /\ tasks' = tasks \cup ComplianceTasks(FeedConfigured) /\ UNCHANGED owned

(* A live runner wants at least one payment or settlement-file entry.       *)
RunnerBuilds == Live => env.named \cap {"rail", "beftn"} # {} /\ env.sound
BeftnConfigured == Live /\ "beftn" \in env.named

KernelTasks == {"ttl-sweep", "reversal-dispatch", "settlement-confirm-resume"}

WireKernel ==
    /\ Wires("kernel", "services", RunnerBuilds)
    /\ phase' = "services" =>
          /\ built' = [built EXCEPT !.runner = IF Live THEN Piece ELSE env.mode,
                                    !.beftn = IF BeftnConfigured THEN Piece ELSE "none"]
          /\ tasks' = tasks \cup KernelTasks /\ Own({"settlement"})

(* Offers to participants; the BEFTN return poll where a connector is.      *)
WireServices ==
    /\ Wires("services", "gateway", TRUE)
    /\ tasks' = tasks \cup (IF built.beftn # "none" THEN {"beftn_return_poll"} ELSE {})
    /\ UNCHANGED <<built, owned>>

(* GatewaySettings refuses weak secrets, cheap hashing and a shadow limiter *)
(* in production.                                                            *)
WireGateway(strong) ==
    /\ Wires("gateway", "channels", env.production => strong)
    /\ phase' = "channels" => Own({"api keys"}) /\ UNCHANGED <<built, tasks>>

SmsBuilds == Live /\ ~env.memory => LiveRegistrationConfig("sms")
NotificationPort == IF env.memory THEN "recording" ELSE IF Live THEN Piece ELSE env.mode

(* The bus and its consumers, notifications, webhooks, idempotency, limits. *)
WireChannels ==
    /\ Wires("channels", "surfaces", SmsBuilds)
    /\ phase' = "surfaces" =>
          /\ built' = [built EXCEPT !.sms = NotificationPort, !.cash = env.cash = "wired"]
          /\ Own({"notifications", "webhooks", "idempotency", "redis"}) /\ UNCHANGED tasks

(* Links, public pages and QR; a public sandbox refuses connectors that are *)
(* neither simulated nor disabled.                                           *)
SandboxRefuses == env.public /\ Live

WireSurfaces ==
    /\ Wires("surfaces", "inbound", ~SandboxRefuses)
    /\ phase' = "inbound" =>
          /\ built' = [built EXCEPT !.sandbox = env.public] /\ UNCHANGED <<owned, tasks>>

WireInbound ==
    /\ Wires("inbound", "guard", TRUE)
    /\ Own({"operators", "directory"})
    /\ tasks' = tasks \cup (IF env.memory THEN {} ELSE {"connector_inbound_drain"})
    /\ UNCHANGED built
-----------------------------------------------------------------------------
AlwaysRequired == ComplianceTasks(FALSE) \cup KernelTasks \cup {"connector_inbound_drain"}

EffectiveRequired ==
    AlwaysRequired
        \cup (IF built.feed # "none" THEN {"sanctions_feed_poll", "sanctions_staleness"} ELSE {})
        \cup (IF built.beftn # "none" THEN {"beftn_return_poll"} ELSE {})

(* ProductionCompositionGuard: process memory, a recording port, a ledger   *)
(* role that RLS does not bind, a simulator, missing release evidence, a    *)
(* task no scheduler has.                                                    *)
Offends(bound, ready) ==
    \/ env.memory \/ built.sms = "recording" \/ ~bound \/ built.runner = "SIMULATOR"
    \/ ~ready \/ ~(EffectiveRequired \subseteq tasks)

(* Only this refusal closes what was opened.                                 *)
AssertBootInvariants(bound, ready) ==
    /\ phase = "guard" /\ Kept /\ UNCHANGED <<built, tasks>>
    /\ IF env.production /\ Offends(bound, ready)
       THEN To("closed") /\ owned' = {}
       ELSE To("routes") /\ UNCHANGED owned

Schedulers ==
    {"outbox", "compliance", "kernel"}
        \cup (IF "connector_inbound_drain" \in tasks THEN {"inbound"} ELSE {})
        \cup (IF "beftn_return_poll" \in tasks THEN {"beftn"} ELSE {})

(* create_app's startup handler.                                             *)
StartBackgroundWorkers ==
    /\ phase = "routes" /\ To("serving") /\ workers' = Schedulers
    /\ UNCHANGED env /\ Unbuilt

TickDies(w, raises) ==
    /\ phase = "serving" /\ w \in workers
    /\ workers' = IF raises THEN workers \ {w} ELSE workers
    /\ UNCHANGED <<env, phase>> /\ Unbuilt

(* One pass of a worker; what a task raises ends with the task.             *)
RunDue(w, raises) ==
    /\ phase = "serving" /\ w \in workers
    /\ UNCHANGED container

(* The shutdown handler cancels one worker after the other, then closes.    *)
StopWorker(w) ==
    /\ phase \in {"serving", "stopping"} /\ w \in workers /\ To("stopping")
    /\ workers' = workers \ {w} /\ UNCHANGED env /\ Unbuilt

Close ==
    /\ phase = "stopping" /\ workers = {} /\ To("closed") /\ owned' = {}
    /\ UNCHANGED <<env, built, tasks, workers>>

BootNext ==
    \/ ReadSettings \/ \E x \in BOOLEAN : WireBooks(x)
    \/ \E x, y, z \in BOOLEAN : WireCompliance(x, y, z)
    \/ WireReporting \/ WireKernel \/ WireServices
    \/ \E x \in BOOLEAN : WireGateway(x)
    \/ WireChannels \/ WireSurfaces \/ WireInbound
    \/ \E x, y \in BOOLEAN : AssertBootInvariants(x, y)
    \/ StartBackgroundWorkers \/ \E w \in workers, x \in BOOLEAN : RunDue(w, x)
    \/ \E w \in workers : StopWorker(w) \/ Close

BNext == \/ CustodyNext /\ UNCHANGED container
         \/ BootNext /\ UNCHANGED custody

BSpec == BInit /\ [][BNext]_<<custody, container>>
-----------------------------------------------------------------------------
(* What is signed stays verifiable: every checkpoint was signed with a key  *)
(* that the record of custody holds, whichever instance made the record,    *)
(* raced for it, rotated it or died; an instance trusts its own key; and    *)
(* without a rotation there is one key, however many instances start.       *)
CustodyHolds ==
    /\ signed \subseteq Enrolled
    /\ \A i \in Instances : inst[i].at = "up" => inst[i].key \in inst[i].trusted \cap Enrolled
    /\ Len(file.keys) = 1 => \A k, l \in signed : k = l

(* A process that serves is whole.  In production its state is in Postgres, *)
(* its rails are not simulated and its messages are not merely recorded; in *)
(* a live mode nothing was built from an unproven entry; every task its     *)
(* configuration calls for is registered, and its worker runs however often *)
(* a task raised; cash is swept only where cash events arrive.  A process   *)
(* that stopped, or that the guard refused, holds nothing open.              *)
ServesWhole ==
    /\ phase = "serving" =>
          /\ env.production => ~env.memory /\ built.runner # "SIMULATOR" /\ built.sms # "recording"
          /\ Live => \A piece \in {"portal", "runner"} : built[piece] = "live"
          /\ "unproven" \notin {built.feed, built.beftn, built.sms}
          /\ built.sandbox => ~Live
          /\ env.production => AlwaysRequired \subseteq tasks
          /\ Live /\ "feed" \in env.named => {"sanctions_feed_poll", "sanctions_staleness"} \subseteq tasks
          /\ Live /\ "beftn" \in env.named => "beftn_return_poll" \in tasks
          /\ workers = Schedulers
          /\ built.cash => env.cash = "wired"
    /\ phase = "closed" => owned = {} /\ workers = {}

(* The process is whole: its key of custody and its wiring.                 *)
ProcessIsWhole == CustodyHolds /\ ServesWhole
=============================================================================
