----------------------------- MODULE Credentials -----------------------------
(***************************************************************************)
(* Who may call the gateway: the API keys of a merchant                    *)
(* (bdpay.gateway.apikeys over PostgresApiKeyRepository) and the two       *)
(* factor sign-in of an operator (bdpay.gateway.operators over             *)
(* PostgresOperatorStore).  A key operation reads the key in one           *)
(* transaction and writes it in another, and the workers of the gateway    *)
(* run them at once.  A sign-in is one synchronous call; a crash inside it *)
(* keeps the writes it has made.  Clock conditions are flags that          *)
(* time-passing actions flip.                                              *)
(***************************************************************************)
EXTENDS Naturals

CONSTANTS
    ApiKeys,      \* api key ids
    GatewayWorkers, \* gateway workers
    Codes,        \* backup codes of the operator
    Sessions,     \* session ids
    MaxFailures,  \* totp_max_failures
    MaxSecrets,   \* bound on the secrets made
    NoKey

(* Codes and ids are real ones, not the words this module uses for none.      *)
ASSUME CredentialsAssumption == NoKey \notin ApiKeys /\ Codes \cap {"totp", "none"} = {}

VARIABLES
    key,      \* api_keys: [status, secret, successor, grace, root]
    work,     \* per worker: [op, key, read]
    secrets,  \* secrets made so far
    failures, \* operator_auth_failures: [attempts, inWindow, locked]
    enrolled, \* backup_code_hashes
    session,  \* operator_sessions: [status, by]
    keyring   \* the secret last handed to the merchant for each key

access == <<key, work, secrets, failures, enrolled, session, keyring>>

NoRecord == [status |-> "none", secret |-> 0, successor |-> NoKey, grace |-> FALSE, root |-> NoKey]
NoSession == [status |-> "none", by |-> "none"]
Idle == [op |-> "idle", key |-> NoKey, read |-> NoRecord]

KInit ==
    /\ key = [k \in ApiKeys |-> NoRecord] /\ work = [w \in GatewayWorkers |-> Idle] /\ secrets = 0
    /\ failures = [attempts |-> 0, inWindow |-> FALSE, locked |-> FALSE]
    /\ enrolled = {} /\ session = [s \in Sessions |-> NoSession]
    /\ keyring = [k \in ApiKeys |-> 0]

(* ---- ApiKeyService ---------------------------------------------------------- *)

InsertRecord(k, root) ==
    [key EXCEPT ![k] = [NoRecord EXCEPT !.status = "ACTIVE", !.secret = secrets + 1, !.root = root]]

NewSecret(k) == secrets < MaxSecrets /\ secrets' = secrets + 1
                /\ keyring' = [keyring EXCEPT ![k] = secrets + 1]

CreateKey(k) ==
    /\ key[k].status = "none"
    /\ NewSecret(k) /\ key' = InsertRecord(k, k)
    /\ UNCHANGED <<work, failures, enrolled, session>>

(* The read of rotate_key, rotate_secret and revoke, each with its refusal.   *)
Reads(w, k, op) ==
    /\ work[w] = Idle
    /\ key[k].status \in (IF op = "revoke" THEN {"ACTIVE", "ROTATION_PENDING"} ELSE {"ACTIVE"})
    /\ work' = [work EXCEPT ![w] = [op |-> op, key |-> k, read |-> key[k]]]
    /\ UNCHANGED <<key, secrets, failures, enrolled, session, keyring>>

ReadRotateKey(w, k) == Reads(w, k, "rotate_key")
ReadRotateSecret(w, k) == Reads(w, k, "rotate_secret")
ReadRevoke(w, k) == Reads(w, k, "revoke")

Done(w) == work' = [work EXCEPT ![w] = Idle]

RotateKeyAtomicBlind(w, new) ==
    LET k == work[w].key
    IN  /\ work[w].op = "rotate_key" /\ key[new].status = "none"
        /\ NewSecret(new)
        /\ key' = [InsertRecord(new, key[k].root) EXCEPT
                     ![k].status = "ROTATION_PENDING", ![k].successor = new, ![k].grace = TRUE]
        /\ Done(w) /\ UNCHANGED <<failures, enrolled, session>>

(* rotate_key_atomic, under the row lock: still ACTIVE, without a successor,  *)
(* and with the secret that was read.                                         *)
RotateKeyAtomic(w, new) ==
    LET k == work[w].key
    IN  /\ work[w].op = "rotate_key" /\ key[new].status = "none"
        /\ key[k].status = "ACTIVE" /\ key[k].successor = NoKey
        /\ key[k].secret = work[w].read.secret
        /\ NewSecret(new)
        /\ key' = [InsertRecord(new, key[k].root) EXCEPT
                     ![k].status = "ROTATION_PENDING", ![k].successor = new, ![k].grace = TRUE]
        /\ Done(w) /\ UNCHANGED <<failures, enrolled, session>>

RotateKeyRefused(w) ==
    LET k == work[w].key
    IN  /\ work[w].op = "rotate_key"
        /\ \/ key[k].status # "ACTIVE" \/ key[k].successor # NoKey
           \/ key[k].secret # work[w].read.secret
        /\ Done(w) /\ UNCHANGED <<key, secrets, failures, enrolled, session, keyring>>

(* rotate_secret_atomic: the conditional update of the key in place.          *)
RotateSecretAtomic(w) ==
    LET k == work[w].key
    IN  /\ work[w].op = "rotate_secret"
        /\ IF key[k].status = "ACTIVE" /\ key[k].successor = NoKey
           THEN NewSecret(k) /\ key' = [key EXCEPT ![k].secret = secrets + 1]
           ELSE UNCHANGED <<key, secrets, keyring>>
        /\ Done(w) /\ UNCHANGED <<failures, enrolled, session>>

(* revoke_key and revoke: every column that save writes comes from the read.  *)
SaveRevoked(w) ==
    LET k == work[w].key
    IN  /\ work[w].op = "revoke"
        /\ key' = [key EXCEPT ![k].status = "REVOKED", ![k].successor = work[w].read.successor,
                              ![k].grace = work[w].read.grace]
        /\ Done(w) /\ UNCHANGED <<secrets, failures, enrolled, session, keyring>>

RotationGraceEnds(k) ==
    /\ key[k].grace /\ key' = [key EXCEPT ![k].grace = FALSE]
    /\ UNCHANGED <<work, secrets, failures, enrolled, session, keyring>>

(* _usable, for the keys candidates_by_prefix returns.                        *)
Usable(k) == \/ key[k].status = "ACTIVE"
             \/ key[k].status = "ROTATION_PENDING" /\ key[k].grace

(* authenticate_bearer and authenticate_hmac: the key a secret is good for.   *)
Authenticates(secret, k) == Usable(k) /\ key[k].secret = secret

(* ---- OperatorAuthService ------------------------------------------------------ *)

SaveFailureState(attempts, inWindow, locked) ==
    failures' = [attempts |-> attempts, inWindow |-> inWindow, locked |-> locked]

SaveEnrollment(codes) == enrolled' = codes

InsertSession(s, by) ==
    session[s].status = "none" /\ session' = [session EXCEPT ![s] = [status |-> "ACTIVE", by |-> by]]

SaveSession(s, status) == session' = [session EXCEPT ![s].status = status]

(* enroll_totp makes new codes, so codes that were used never come back.      *)
EnrollTotp ==
    /\ enrolled = {} /\ \A s \in Sessions : session[s] = NoSession
    /\ SaveEnrollment(Codes)
    /\ UNCHANGED <<key, work, secrets, failures, session, keyring>>

(* _record_failure: a new window, or one more failure in the running one.     *)
RecordFailure ==
    LET attempts == IF failures.inWindow THEN failures.attempts + 1 ELSE 1
    IN  /\ ~failures.locked /\ failures.attempts <= MaxFailures
        /\ SaveFailureState(attempts, TRUE, attempts >= MaxFailures)
        /\ UNCHANGED <<key, work, secrets, enrolled, session, keyring>>

(* verify_totp with a right answer: the failures are cleared, a backup code   *)
(* is removed, and then the session is stored; crashed says that the process  *)
(* dies before that last step.                                                *)
VerifyTotp(s, code, crashed) ==
    /\ ~failures.locked /\ code \in enrolled \cup {"totp"}
    /\ SaveFailureState(0, FALSE, FALSE)
    /\ SaveEnrollment(enrolled \ {code})
    /\ IF crashed THEN UNCHANGED session ELSE InsertSession(s, code)
    /\ UNCHANGED <<key, work, secrets, keyring>>

WindowPasses ==
    /\ failures.inWindow /\ failures' = [failures EXCEPT !.inWindow = FALSE]
    /\ UNCHANGED <<key, work, secrets, enrolled, session, keyring>>

LockPasses ==
    /\ failures.locked /\ failures' = [failures EXCEPT !.locked = FALSE]
    /\ UNCHANGED <<key, work, secrets, enrolled, session, keyring>>

(* authenticate_session finds the session expired or idle.                    *)
AuthenticateSession(s) ==
    /\ session[s].status = "ACTIVE" /\ SaveSession(s, "TERMINATED")
    /\ UNCHANGED <<key, work, secrets, failures, enrolled, keyring>>

Logout(s) ==
    /\ session[s].status = "ACTIVE" /\ SaveSession(s, "TERMINATED")
    /\ UNCHANGED <<key, work, secrets, failures, enrolled, keyring>>

KeyNext ==
    \/ \E k \in ApiKeys :
          \/ CreateKey(k) \/ RotationGraceEnds(k)
          \/ \E w \in GatewayWorkers : \/ ReadRotateKey(w, k) \/ ReadRotateSecret(w, k)
                                \/ ReadRevoke(w, k) \/ RotateKeyAtomic(w, k)
    \/ \E w \in GatewayWorkers : RotateKeyRefused(w) \/ RotateSecretAtomic(w) \/ SaveRevoked(w)

OperatorNext ==
    \/ EnrollTotp \/ RecordFailure \/ WindowPasses \/ LockPasses
    \/ \E s \in Sessions :
          \/ \E code \in Codes \cup {"totp"}, crashed \in BOOLEAN : VerifyTotp(s, code, crashed)
          \/ AuthenticateSession(s) \/ Logout(s)

KSpec == KInit /\ [][KeyNext \/ OperatorNext]_access
KeySpec == KInit /\ [][KeyNext]_access
OperatorSpec == KInit /\ [][OperatorNext]_access
-----------------------------------------------------------------------------
(* However rotations, in-place rotations and revocations of a key run        *)
(* together: of the keys that descend from one another at most one is        *)
(* ACTIVE, the secret the merchant was given last is the one a usable key is *)
(* checked against, and a key that was replaced names its successor.  A      *)
(* backup code opens one session, even over a crash.                         *)
CredentialsStayExact ==
    /\ \A k, l \in ApiKeys :
          key[k].status = "ACTIVE" /\ key[l].status = "ACTIVE" /\ key[k].root = key[l].root => k = l
    /\ \A k \in ApiKeys : /\ Usable(k) => Authenticates(keyring[k], k)
                       /\ key[k].status = "ROTATION_PENDING" => key[key[k].successor].root = key[k].root
    /\ \A c \in Codes : /\ \A s, t \in Sessions : session[s].by = c /\ session[t].by = c => s = t
                        /\ c \in enrolled => \A s \in Sessions : session[s].by # c
=============================================================================
