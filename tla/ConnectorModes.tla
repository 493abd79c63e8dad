--------------------------- MODULE ConnectorModes ---------------------------
(***************************************************************************)
(* One connector's registry row through boots, mode changes, health        *)
(* samples, certification runs and the fail-closed sweeps                  *)
(* (bdpay.connectors.registry and .certification, the runner builders of   *)
(* bdpay.app, SandboxPublicGuard of bdpay.gateway.sandbox).                *)
(***************************************************************************)
EXTENDS Naturals

CONSTANTS
    AllowSimulator,  \* ALLOW_SIMULATOR
    MaxBoots         \* bound

VARIABLES
    simulatorOnly, \* the SANDBOX_PUBLIC deployment
    up,        \* the process serves
    reg,       \* [mode, prev, enabled, cert, health]
    creds,     \* the credential refs of the credentialed modes resolve
    run,       \* the certification run's status, or "none"
    backed,    \* what put the row where it is: boot, approval, promotion, none
    touched,   \* modes in which an adapter was called
    boots

mvars == <<simulatorOnly, up, reg, creds, run, backed, touched, boots>>

Credentialed == {"SANDBOX", "PRODUCTION"}

MInit ==
    /\ simulatorOnly \in BOOLEAN /\ up = FALSE /\ creds \in BOOLEAN /\ run = "none" /\ backed = {} /\ touched = {} /\ boots = 0
    /\ reg = [mode |-> "DISABLED", prev |-> "none", enabled |-> FALSE,
              cert |-> "NEVER_RUN", health |-> "UNKNOWN"]

(* register: a fresh row, enabled unless DISABLED.                          *)
RegisterRow(mode, cert) ==
    reg' = [mode |-> mode, prev |-> "none", enabled |-> mode # "DISABLED",
            cert |-> cert, health |-> "UNKNOWN"]

Boots(mode, cert) ==
    /\ ~up /\ boots < MaxBoots
    /\ boots' = boots + 1 /\ up' = TRUE /\ RegisterRow(mode, cert)
    /\ UNCHANGED <<simulatorOnly, creds, run, touched>>

(* The three runner builders.  A live one refuses to boot without a passed  *)
(* certification or with credentials that do not resolve.                   *)
BootSimulator ==
    /\ simulatorOnly \/ AllowSimulator
    /\ Boots("SIMULATOR", "NEVER_RUN") /\ backed' = {}

BootDisabled == Boots("DISABLED", "NEVER_RUN") /\ backed' = {}

BootLive(mode) ==
    /\ ~simulatorOnly /\ creds
    /\ Boots(mode, "PASSED") /\ backed' = {mode}

ProcessDies ==
    /\ up /\ up' = FALSE
    /\ UNCHANGED <<simulatorOnly, reg, creds, run, backed, touched, boots>>
-----------------------------------------------------------------------------
PromotionTarget == [m \in {"MANUAL_LOCAL", "SIMULATOR", "SANDBOX"} |->
                      CASE m = "MANUAL_LOCAL" -> "SIMULATOR"
                        [] m = "SIMULATOR" -> "SANDBOX"
                        [] m = "SANDBOX" -> "PRODUCTION"]

(* _apply: the row, with the mode it came from unless another is given.      *)
Apply(to, prev, enabled) ==
    reg' = [reg EXCEPT !.mode = to, !.prev = prev, !.enabled = enabled]

RowOnly == UNCHANGED <<simulatorOnly, up, creds, run, touched, boots>>

Promote(approved) ==
    /\ up /\ reg.mode \in DOMAIN PromotionTarget
    /\ LET target == PromotionTarget[reg.mode]
       IN  /\ reg.cert = "PASSED"
           /\ target \in Credentialed => creds
           /\ target = "PRODUCTION" => approved
           /\ Apply(target, reg.mode, reg.enabled)
           /\ backed' = backed \cup {target}
    /\ RowOnly

Demote(to) ==
    /\ up /\ reg.mode = "PRODUCTION"
    /\ Apply(to, reg.mode, reg.enabled) /\ RowOnly /\ UNCHANGED backed

Disable ==
    /\ up /\ reg.mode # "DISABLED"
    /\ Apply("DISABLED", reg.mode, FALSE) /\ RowOnly /\ UNCHANGED backed

ReEnableAnyMode ==
    /\ up /\ reg.mode = "DISABLED" /\ reg.prev \notin {"none", "DISABLED"}
    /\ Apply("PRODUCTION", "DISABLED", TRUE) /\ RowOnly /\ UNCHANGED backed

(* re_enable: back to the stored mode, whose credentials must resolve.       *)
ReEnable ==
    /\ up /\ reg.mode = "DISABLED" /\ reg.prev \notin {"none", "DISABLED"}
    /\ reg.prev \in Credentialed => creds
    /\ Apply(reg.prev, "DISABLED", TRUE) /\ RowOnly /\ UNCHANGED backed

(* sweep_credentials: a miss disables, and never downgrades to SIMULATOR.    *)
SweepCredentials ==
    /\ up /\ reg.mode \in Credentialed /\ ~creds
    /\ Apply("DISABLED", reg.mode, FALSE) /\ RowOnly /\ UNCHANGED backed

(* SandboxPublicGuard.sweep.                                                 *)
SweepSandbox ==
    /\ up /\ simulatorOnly /\ reg.mode \notin {"SIMULATOR", "DISABLED"}
    /\ Apply("DISABLED", reg.mode, FALSE) /\ RowOnly /\ UNCHANGED backed

CredentialsChange == creds' = ~creds /\ UNCHANGED <<simulatorOnly, up, reg, run, backed, touched, boots>>
-----------------------------------------------------------------------------
(* CertificationHarness.run saves its record when created, when running and *)
(* with the verdict; two passes of the checks must agree.                    *)
CertificationStarts ==
    /\ up /\ run # "RUNNING"
    /\ run' = "RUNNING" /\ UNCHANGED <<simulatorOnly, up, reg, creds, backed, touched, boots>>

CertificationEnds(passes, agree, raises) ==
    /\ up /\ run = "RUNNING"
    /\ run' = IF raises THEN "ERRORED" ELSE IF passes /\ agree THEN "PASSED" ELSE "FAILED"
    /\ UNCHANGED <<simulatorOnly, up, reg, creds, backed, touched, boots>>

SetCertification ==
    /\ up /\ run \in {"PASSED", "FAILED"}
    /\ reg' = [reg EXCEPT !.cert = run] /\ RowOnly /\ UNCHANGED backed

BumpAdapterVersion ==
    /\ up /\ reg' = [reg EXCEPT !.cert = "STALE"] /\ RowOnly /\ UNCHANGED backed

RecordHealth(healthy, degraded) ==
    /\ up /\ (degraded => healthy)
    /\ reg' = [reg EXCEPT !.health = IF degraded THEN "DEGRADED"
                                     ELSE IF healthy THEN "HEALTHY" ELSE "UNHEALTHY"]
    /\ RowOnly /\ UNCHANGED backed

(* A call reaches an adapter: the row's mode decides which, and a           *)
(* simulator-only runner refuses every other.                                *)
Reaches ==
    /\ up /\ reg.mode # "DISABLED" /\ reg.enabled
    /\ simulatorOnly => reg.mode = "SIMULATOR"
    /\ touched' = touched \cup {reg.mode}
    /\ UNCHANGED <<simulatorOnly, up, reg, creds, run, backed, boots>>

MNext ==
    \/ BootSimulator \/ BootDisabled \/ \E mode \in Credentialed : BootLive(mode)
    \/ ProcessDies \/ Disable \/ ReEnable \/ SweepCredentials \/ SweepSandbox \/ CredentialsChange
    \/ \E x \in BOOLEAN : Promote(x)
    \/ \E to \in {"SANDBOX", "SIMULATOR", "MANUAL_LOCAL"} : Demote(to)
    \/ CertificationStarts \/ SetCertification \/ BumpAdapterVersion \/ Reaches
    \/ \E x, y, z \in BOOLEAN : CertificationEnds(x, y, z)
    \/ \E x, y \in BOOLEAN : RecordHealth(x, y)

MSpec == MInit /\ [][MNext]_mvars
-----------------------------------------------------------------------------
(* A connector is live only because a certified boot or an approved, and    *)
(* certified, promotion made it so since the process started -- disabling,  *)
(* the sweeps and re-enabling never carry it higher than that -- it is      *)
(* DISABLED exactly when it is not enabled, and a public sandbox never      *)
(* calls another adapter than the simulator.                                 *)
LiveIsBacked ==
    /\ up /\ reg.mode \in Credentialed =>
          (reg.mode \in backed \/ (reg.mode = "SANDBOX" /\ "PRODUCTION" \in backed))
    /\ up => (reg.mode = "DISABLED" <=> ~reg.enabled)
    /\ simulatorOnly => touched \subseteq {"SIMULATOR"}
=============================================================================
