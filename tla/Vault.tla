------------------------------- MODULE Vault -------------------------------
(***************************************************************************)
(* The tokenization vault (bdpay.vault), one process whose stores live in  *)
(* its memory.  Two parts that are checked apart.                          *)
(*                                                                         *)
(* Keys (KeyManager): custodians, ceremonies, rotation, compromise,        *)
(* destruction, re-encryption runs and the pepper migration.  Every call   *)
(* is synchronous, so a call is one step; what can go wrong is a long      *)
(* sequence of legal calls.  A key names the KEK it is wrapped under and a *)
(* ciphertext names its DEK; opening either needs the right one.           *)
(*                                                                         *)
(* Cards (VaultService): intake sessions, tokens, the CVV store, the       *)
(* egress to the acquirer and the maintenance sweep.  An egress awaits the *)
(* acquirer, and everything else may happen meanwhile.                     *)
(*                                                                         *)
(* Clock conditions are flags that time-passing actions set.  The material *)
(* cache of KeyManager only ever holds what an unwrap returned and is not  *)
(* modelled.  No PII_KEY is ever created, so that kind is left out.        *)
(***************************************************************************)
EXTENDS Naturals, Sequences, FiniteSets, FiniteSetsExt, TLC

CONSTANTS
    Custodians,  \* 1..n: people who may be appointed, in the order of their ids
    Line,        \* Line[c]: reporting line of custodian c
    Scheduled,   \* kinds whose rotation operators schedule; the others rotate on compromise
    Slots,       \* ceremonies open at once
    MaxKeys,     \* bound on the keys made
    MaxIncidents, \* bound on the compromises declared
    Cards,       \* card numbers
    Sessions,    \* intake sessions
    Calls,       \* detokenize-egress calls in flight
    MaxInvalid,  \* MAX_VALIDATION_FAILURES
    NoSession

VARIABLES
    appointed,   \* key_custodians
    ceremony,    \* key_ceremonies: [status, kind, named, quorum, shares]
    keys,        \* vault_keys in the order they were saved
    cipher,      \* encrypted_pans: token <<card, pepper>> |-> DEK
    aliased,     \* token_aliases: tokens that have a successor
    incidents,   \* compromises declared
    reruns,      \* reencryption_runs: [old, new, status, passed]
    intake,      \* intake_sessions: [status, failures]
    cvv,         \* the SAD store: per session none, live or stale
    sent,        \* ghost: times the CVV of a session left for the acquirer
    token,       \* card_tokens: status per card
    pan,         \* encrypted_pans of this part: none, kept or doomed
    egress,      \* per call: the card it has sent, or idle
    allowed,     \* the ALLOWED detokenization_audit row: none, stored or cleared
    due          \* what the clock has passed

keyVars == <<appointed, ceremony, keys, incidents, cipher, aliased, reruns>>
cardVars == <<intake, cvv, sent, token, pan, egress, allowed, due>>

NoCeremony == [status |-> "none", kind |-> "none", named |-> {}, quorum |-> 0, shares |-> {}]
NoIntake == [status |-> "none", failures |-> 0]
IdleCall == "idle"

VInit ==
    /\ appointed = {} /\ ceremony = [s \in Slots |-> NoCeremony]
    /\ keys = <<>> /\ incidents = 0 /\ cipher = <<>> /\ aliased = {} /\ reruns = <<>>
    /\ intake = [s \in Sessions |-> NoIntake] /\ cvv = [s \in Sessions |-> "none"]
    /\ sent = [s \in Sessions |-> 0]
    /\ token = [c \in Cards |-> "none"] /\ pan = [c \in Cards |-> "none"]
    /\ egress = [x \in Calls |-> IdleCall] /\ allowed = "none" /\ due = {}

(* ==== Keys =================================================================== *)

(* ---- stores and material ----------------------------------------------------- *)

(* KeyStore.active: the first saved key of the kind that is ACTIVE, else 0.      *)
Active(kind) ==
    LET found == {k \in DOMAIN keys : keys[k].kind = kind /\ keys[k].status = "ACTIVE"}
    IN  IF found = {} THEN 0 ELSE Min(found)

ByDek(k) == {t \in DOMAIN cipher : cipher[t] = k}

(* _unwrap_material: DEK and PEPPER open under the ACTIVE KEK only.             *)
Unwraps(k) == keys[k].under # 0 => keys[k].under = Active("KEK")

(* key_material: a COMPROMISED key opens for re-encryption only.                *)
Opens(k, forced) ==
    /\ keys[k].status # "DESTROYED"
    /\ keys[k].status = "COMPROMISED" => forced
    /\ Unwraps(k)

NewKey(kind, under, sworn) ==
    [kind |-> kind, status |-> "ACTIVE", under |-> under, sworn |-> sworn]

(* _activate: the new key is ACTIVE; the one it displaces is DEPRECATED if it   *)
(* was ACTIVE, and stays COMPROMISED otherwise.                                 *)
Activate(ks, new, old) ==
    Append([ks EXCEPT ![old].status = IF @ = "ACTIVE" THEN "DEPRECATED" ELSE @], new)

(* ---- custodians and ceremonies -------------------------------------------------- *)

AppointCustodian(c) ==
    /\ c \notin appointed
    /\ appointed' = appointed \union {c}
    /\ UNCHANGED <<ceremony, keys, cipher, aliased, reruns, incidents>>

(* The guards of open_ceremony on the custodians it names.                      *)
MayHoldCeremony(named, quorum) ==
    /\ 2 <= quorum /\ quorum <= Cardinality(named) /\ Cardinality(named) <= 5
    /\ named \subseteq appointed
    /\ \A a, b \in named : a # b => Line[a] # Line[b]

Opened(kind, named, quorum) ==
    [NoCeremony EXCEPT !.status = "DRAFT", !.kind = kind, !.named = named, !.quorum = quorum]

OpenCeremony(s, kind, named) ==
    /\ ceremony[s].status = "none" /\ keys # <<>>
    /\ MayHoldCeremony(named, 2)
    /\ ceremony' = [ceremony EXCEPT ![s] = Opened(kind, named, 2)]
    /\ UNCHANGED <<appointed, keys, cipher, aliased, reruns, incidents>>

Unfinished(s) == ceremony[s].status \notin {"none", "EXECUTED", "ABORTED"}

(* An executed or aborted ceremony refuses every later call: its slot is free.  *)
Close(s) == [ceremony EXCEPT ![s] = NoCeremony]

(* _expire_ceremony_if_due, which attest_share and rotate_key run first, once   *)
(* the seven days are over.                                                     *)
ExpireCeremony(s) ==
    /\ Unfinished(s)
    /\ ceremony' = Close(s)
    /\ UNCHANGED <<appointed, keys, cipher, aliased, reruns, incidents>>

AttestShare(s, c) ==
    /\ ceremony[s].status \in {"DRAFT", "SHARES_PENDING"}
    /\ c \in ceremony[s].named \ ceremony[s].shares
    /\ LET shares == ceremony[s].shares \union {c}
       IN  ceremony' = [ceremony EXCEPT
             ![s].shares = shares,
             ![s].status = IF Cardinality(shares) >= ceremony[s].quorum
                           THEN "QUORUM_REACHED" ELSE "SHARES_PENDING"]
    /\ UNCHANGED <<appointed, keys, cipher, aliased, reruns, incidents>>

AbortCeremony(s) ==
    /\ Unfinished(s)
    /\ ceremony' = Close(s)
    /\ UNCHANGED <<appointed, keys, cipher, aliased, reruns, incidents>>

(* Whether the 72 hours after the quorum are over is left open: a ceremony past *)
(* them only waits to be aborted or to expire.                                  *)
Executable(s, kind) ==
    ceremony[s].status = "QUORUM_REACHED" /\ ceremony[s].kind = kind

(* ---- provisioning and rotation ---------------------------------------------------- *)

(* provision_initial_keys, each layer with a ceremony of its own that the same  *)
(* two custodians attest.                                                       *)
ProvisionInitialKeys(named) ==
    /\ keys = <<>> /\ MayHoldCeremony(named, 2) /\ Cardinality(named) = 2
    /\ keys' = <<NewKey("KEK", 0, named), NewKey("DEK", 1, named), NewKey("PEPPER", 1, named),
                 NewKey("EGRESS_HMAC", 0, named)>>
    /\ UNCHANGED <<appointed, ceremony, cipher, aliased, reruns, incidents>>

Rotatable(k) == keys[k].status \in {"ACTIVE", "COMPROMISED"}

RotateRest(s) == ceremony' = Close(s) /\ UNCHANGED <<appointed, cipher, aliased, incidents>>

RotateEgressKey(s, k) ==
    /\ keys[k].kind = "EGRESS_HMAC" /\ Rotatable(k) /\ Executable(s, "EGRESS_HMAC")
    /\ Len(keys) < MaxKeys
    /\ keys' = Activate(keys, NewKey("EGRESS_HMAC", 0, ceremony[s].shares), k)
    /\ reruns' = reruns /\ RotateRest(s)

CreateReencryptionRun(old, new) ==
    Append(reruns, [old |-> old, new |-> new, status |-> "PENDING", passed |-> {}])

RotateWrappedKind(s, k) ==
    /\ keys[k].kind \in {"DEK", "PEPPER"} /\ Rotatable(k) /\ Executable(s, keys[k].kind)
    /\ Active("KEK") # 0 /\ Len(keys) < MaxKeys
    /\ keys' = Activate(keys, NewKey(keys[k].kind, Active("KEK"), ceremony[s].shares), k)
    /\ reruns' = IF keys[k].kind = "DEK" THEN CreateReencryptionRun(k, Len(keys) + 1) ELSE reruns
    /\ RotateRest(s)

Wrapped(ks) == {j \in DOMAIN ks : ks[j].kind \in {"DEK", "PEPPER"}
                                  /\ ks[j].status \in {"ACTIVE", "DEPRECATED"}}

(* The first key the rotated KEK cannot open, 0 when there is none.             *)
Stuck(ks, kek) ==
    LET other == {j \in Wrapped(ks) : ks[j].under # kek}
    IN  IF other = {} THEN 0 ELSE Min(other)

(* _rotate_kek: the wrapped keys are rewrapped one after the other.  A key that *)
(* the rotated KEK does not open raises: the new KEK is ACTIVE already, the     *)
(* keys before it are rewrapped, and the ceremony is not executed.              *)
RotateKek(s, k) ==
    /\ keys[k].kind = "KEK" /\ Rotatable(k) /\ Executable(s, "KEK") /\ Len(keys) < MaxKeys
    /\ LET new == Len(keys) + 1
           ks == Activate(keys, NewKey("KEK", 0, ceremony[s].shares), k)
           stuck == Stuck(ks, k)
       IN  /\ keys' = [j \in DOMAIN ks |->
                         IF j \in Wrapped(ks) /\ (stuck = 0 \/ j < stuck)
                         THEN [ks[j] EXCEPT !.under = new] ELSE ks[j]]
           /\ ceremony' = IF stuck = 0 THEN Close(s) ELSE ceremony
    /\ UNCHANGED <<appointed, cipher, aliased, reruns, incidents>>

(* _pick_disjoint_custodians takes the first two, by id, of different lines.    *)
PickDisjointCustodians ==
    LET first == Min(appointed)
        others == {c \in appointed : Line[c] # Line[first]}
    IN  {first, Min(others)}

DeclareCompromise(s, k) ==
    /\ keys[k].status \in {"ACTIVE", "DEPRECATED"} /\ ceremony[s].status = "none"
    /\ incidents < MaxIncidents /\ incidents' = incidents + 1
    /\ keys' = [keys EXCEPT ![k].status = "COMPROMISED"]
    /\ ceremony' = [ceremony EXCEPT ![s] = Opened(keys[k].kind, PickDisjointCustodians, 2)]
    /\ UNCHANGED <<appointed, cipher, aliased, reruns>>

StillReferencedNever(k) == FALSE

StillReferenced(k) == keys[k].kind = "DEK" /\ ByDek(k) # {}

(* The 35 days a DEPRECATED key is held for the backups may be over or not.     *)
DestroyKey(k) ==
    /\ keys[k].status \in {"DEPRECATED", "COMPROMISED"}
    /\ ~StillReferenced(k)
    /\ keys' = [keys EXCEPT ![k].status = "DESTROYED", ![k].under = 0]
    /\ UNCHANGED <<appointed, ceremony, cipher, aliased, reruns, incidents>>

(* ---- ciphertexts --------------------------------------------------------------------- *)

(* _tokenize, the part that makes a ciphertext: under the ACTIVE pepper and DEK. *)
Encrypt(card) ==
    LET p == Active("PEPPER") d == Active("DEK")
    IN  /\ p # 0 /\ d # 0 /\ Opens(p, FALSE) /\ Opens(d, FALSE)
        /\ <<card, p>> \notin DOMAIN cipher
        /\ cipher' = (<<card, p>> :> d) @@ cipher
        /\ UNCHANGED <<appointed, ceremony, keys, aliased, reruns, incidents>>

(* advance_reencryption_run with a batch of one: the next row after the cursor. *)
(* It is COMPLETED once no row is left under the old key.                       *)
AdvanceReencryptionRun(r) ==
    LET job == reruns[r]
        next == ByDek(job.old) \ job.passed
    IN  /\ job.status \in {"PENDING", "RUNNING"}
        /\ Opens(job.old, TRUE) /\ Opens(job.new, FALSE)
        /\ cipher' = IF next = {} THEN cipher ELSE [cipher EXCEPT ![CHOOSE t \in next : TRUE] = job.new]
        /\ reruns' = [reruns EXCEPT ![r] =
                        IF \E t \in DOMAIN cipher : cipher'[t] = job.old THEN [job EXCEPT !.status = "RUNNING"]
                        ELSE [job EXCEPT !.status = "COMPLETED", !.passed = {}]]
        /\ UNCHANGED <<appointed, ceremony, keys, aliased, incidents>>

(* migrate_pepper for one token: a clone under the new pepper and the DEK of    *)
(* the old row.  Where the id of the clone sorts against the cursor of a        *)
(* running re-encryption is chance; at or before it, the run has passed it.     *)
MigratePepper(t, p) ==
    LET clone == <<t[1], p, incidents>>
    IN  /\ keys[p].kind = "PEPPER" /\ p # t[2] /\ t \in DOMAIN cipher /\ t \notin aliased
        /\ Opens(p, FALSE) /\ Opens(cipher[t], TRUE)
        /\ aliased' = aliased \union {t}
        /\ cipher' = IF clone \in DOMAIN cipher THEN cipher ELSE (clone :> cipher[t]) @@ cipher
        /\ \E behind \in SUBSET {r \in DOMAIN reruns : reruns[r].status = "RUNNING"} :
             reruns' = [r \in DOMAIN reruns |->
                          IF r \in behind THEN [reruns[r] EXCEPT !.passed = @ \union {clone}]
                          ELSE reruns[r]]
        /\ UNCHANGED <<appointed, ceremony, keys, incidents>>

KeyNext ==
    /\ \/ \E c \in Custodians : AppointCustodian(c)
       \/ \E named \in SUBSET Custodians : ProvisionInitialKeys(named)
       \/ \E s \in Slots :
            \/ \E kind \in Scheduled, named \in SUBSET Custodians : OpenCeremony(s, kind, named)
            \/ \E c \in Custodians : AttestShare(s, c)
            \/ AbortCeremony(s) \/ ExpireCeremony(s)
            \/ \E k \in DOMAIN keys :
                 \/ RotateEgressKey(s, k) \/ RotateWrappedKind(s, k) \/ RotateKek(s, k)
                 \/ DeclareCompromise(s, k)
       \/ \E k \in DOMAIN keys : DestroyKey(k)
       \/ \E c \in Cards : Encrypt(c)
       \/ \E r \in DOMAIN reruns : AdvanceReencryptionRun(r)
       \/ \E t \in DOMAIN cipher, p \in DOMAIN keys : MigratePepper(t, p)
    /\ UNCHANGED cardVars

KeySpec == VInit /\ [][KeyNext]_<<keyVars, cardVars>>

(* ---- properties of the keys ------------------------------------------------------------ *)

(* A stored ciphertext never outlives its key: whatever order rotations,        *)
(* compromises, re-encryption batches, pepper migrations and destructions come  *)
(* in, the DEK a row names is not DESTROYED.  And every key stands on the       *)
(* shares of at least two custodians of different reporting lines.              *)
KeysOutliveCiphertexts ==
    /\ \A t \in DOMAIN cipher : keys[cipher[t]].status # "DESTROYED"
    /\ \A k \in DOMAIN keys :
         Cardinality({Line[c] : c \in keys[k].sworn}) >= 2

(* ==== Cards ================================================================== *)

(* ---- the CVV store ------------------------------------------------------------ *)

Purge(s) == [cvv EXCEPT ![s] = "none"]

(* alive: not past the end of the session, which is before 30 minutes.          *)
Alive(s) == cvv[s] # "none" /\ <<"session", s>> \notin due

(* consume: the entry is dropped, opened or not.                                *)
Consume(s) == Purge(s)

(* A rotation of the DEK: entries sealed before it no longer open.              *)
DekRotates ==
    /\ \E s \in Sessions : cvv[s] = "live"
    /\ cvv' = [s \in Sessions |-> IF cvv[s] = "live" THEN "stale" ELSE cvv[s]]
    /\ UNCHANGED <<intake, sent, token, pan, egress, allowed, due>>

(* ---- tokens --------------------------------------------------------------------- *)

Terminal == {"EXPIRED", "RETIRED"}
Usable == {"PENDING_FIRST_AUTH", "ACTIVE"}

(* _tokenize: the token of a card number that is known is returned as it is.    *)
Tokenize(c) ==
    /\ token' = [token EXCEPT ![c] = IF @ = "none" THEN "PENDING_FIRST_AUTH" ELSE @]
    /\ pan' = [pan EXCEPT ![c] = IF token[c] = "none" THEN "kept" ELSE @]

ImportToken(c) ==
    /\ Tokenize(c)
    /\ UNCHANGED <<intake, cvv, sent, egress, allowed, due>>

(* _set_destroy_after, and the same lines of retire_token.                      *)
Doom(cards) == [c \in Cards |-> IF c \in cards /\ pan[c] # "none" THEN "doomed" ELSE pan[c]]

RetireToken(c) ==
    /\ token[c] \notin Terminal \union {"none"}
    /\ token' = [token EXCEPT ![c] = "RETIRED"] /\ pan' = Doom({c})
    /\ UNCHANGED <<intake, cvv, sent, egress, allowed, due>>

(* retire_token with the reason "compromise".                                   *)
SuspendToken(c) ==
    /\ token[c] \in Usable
    /\ token' = [token EXCEPT ![c] = "SUSPENDED"]
    /\ UNCHANGED <<intake, cvv, sent, pan, egress, allowed, due>>

ReinstateToken(c) ==
    /\ token[c] = "SUSPENDED" /\ <<"expiry", c>> \notin due
    /\ token' = [token EXCEPT ![c] = "ACTIVE"]
    /\ UNCHANGED <<intake, cvv, sent, pan, egress, allowed, due>>

(* ---- intake sessions -------------------------------------------------------------- *)

CreateIntakeSession(s) ==
    /\ intake[s].status = "none"
    /\ intake' = [intake EXCEPT ![s].status = "CREATED"]
    /\ UNCHANGED <<cvv, sent, token, pan, egress, allowed, due>>

VoidIntakeSession(s) ==
    /\ intake[s].status = "CREATED"
    /\ intake' = [intake EXCEPT ![s].status = "VOIDED"] /\ cvv' = Purge(s)
    /\ UNCHANGED <<sent, token, pan, egress, allowed, due>>

(* _load_intake_session on a session whose time is over.                        *)
ExpireSession(s) ==
    /\ intake[s].status = "CREATED" /\ <<"session", s>> \in due
    /\ intake' = [intake EXCEPT ![s].status = "EXPIRED"] /\ cvv' = Purge(s)
    /\ UNCHANGED <<sent, token, pan, egress, allowed, due>>

Loads(s) == intake[s].status = "CREATED" /\ <<"session", s>> \notin due

(* _intake_validation_failure: the first failure past the limit voids.          *)
RejectCard(s) ==
    /\ Loads(s)
    /\ intake' = [intake EXCEPT ![s].failures = @ + 1,
                               ![s].status = IF intake[s].failures + 1 > MaxInvalid THEN "VOIDED" ELSE @]
    /\ cvv' = IF intake[s].failures + 1 > MaxInvalid THEN Purge(s) ELSE cvv
    /\ UNCHANGED <<sent, token, pan, egress, allowed, due>>

CardIntake(s, c, withCvv) ==
    /\ Loads(s) /\ <<"expiry", c>> \notin due
    /\ Tokenize(c)
    /\ cvv' = IF withCvv THEN [cvv EXCEPT ![s] = "live"] ELSE cvv
    /\ intake' = [intake EXCEPT ![s].status = "CONSUMED"]
    /\ UNCHANGED <<sent, egress, allowed, due>>

(* ---- egress -------------------------------------------------------------------------- *)

(* The guards of detokenize_egress: no ALLOWED row of the connector_ref yet     *)
(* (with one, the stored answer is replayed or the call denied), a usable token *)
(* and, when the template asks for it, a CVV.  Denials change the audit only.   *)
MayEgress(c, s) ==
    /\ allowed = "none"
    /\ token[c] \in Usable
    /\ s # NoSession => Alive(s)

(* From there to the await: the ciphertext is opened and the CVV taken from the *)
(* store.  A stale CVV is dropped and the call denied.                          *)
EgressStart(x, c, s) ==
    /\ egress[x] = IdleCall /\ MayEgress(c, s) /\ pan[c] # "none"
    /\ IF s = NoSession THEN UNCHANGED <<cvv, sent>>
       ELSE /\ cvv' = Consume(s)
            /\ sent' = [sent EXCEPT ![s] = IF cvv[s] = "live" THEN @ + 1 ELSE @]
    /\ egress' = IF s # NoSession /\ cvv[s] = "stale" THEN egress
                 ELSE [egress EXCEPT ![x] = c]
    /\ UNCHANGED <<intake, token, pan, allowed, due>>

(* The acquirer answers, with a status of 2xx or another.  The first ALLOWED    *)
(* row is the one replays are served from.                                      *)
EgressAnswered(x, success) ==
    LET c == egress[x]
    IN  /\ c # IdleCall
        /\ allowed' = IF allowed = "none" THEN "stored" ELSE allowed
        /\ token' = IF success /\ token[c] = "PENDING_FIRST_AUTH" THEN [token EXCEPT ![c] = "ACTIVE"] ELSE token
        /\ egress' = [egress EXCEPT ![x] = IdleCall]
        /\ UNCHANGED <<intake, cvv, sent, pan, due>>

(* EgressTimeoutError and EgressUnreachableError leave a denial only.           *)
EgressFails(x) ==
    /\ egress[x] # IdleCall
    /\ egress' = [egress EXCEPT ![x] = IdleCall]
    /\ UNCHANGED <<intake, cvv, sent, token, pan, allowed, due>>

(* ---- the sweep --------------------------------------------------------------------------- *)

Replay == <<"replay", NoSession>>

SweptToken(c) ==
    IF token[c] \in Terminal \union {"none"} THEN token[c]
    ELSE IF <<"grace", c>> \in due THEN "EXPIRED"
    ELSE IF token[c] = "PENDING_FIRST_AUTH" /\ <<"unused", c>> \in due THEN "RETIRED"
    ELSE token[c]

MaintenanceSweep ==
    LET swept == {c \in Cards : SweptToken(c) # token[c]}
        gone == {c \in Cards : pan[c] = "doomed" /\ <<"hold", c>> \in due /\ c \notin swept}
    IN  /\ due # {}
        /\ intake' = [s \in Sessions |-> IF intake[s].status = "CREATED" /\ <<"session", s>> \in due
                                         THEN [intake[s] EXCEPT !.status = "EXPIRED"] ELSE intake[s]]
        /\ cvv' = [s \in Sessions |-> IF <<"session", s>> \in due THEN "none" ELSE cvv[s]]
        /\ token' = [c \in Cards |-> SweptToken(c)]
        /\ pan' = [c \in Cards |-> IF c \in gone THEN "none" ELSE Doom(swept)[c]]
        /\ allowed' = IF Replay \in due THEN "cleared" ELSE allowed
        /\ UNCHANGED <<sent, egress, due>>

(* The clock passes the end of a session, the expiry of a card, its month of    *)
(* grace, the 90 days of a token never used, the 90 days a ciphertext is held   *)
(* and the 24 hours of a replay.                                                *)
ClockPasses(what) ==
    /\ what \notin due /\ due' = due \union {what}
    /\ \A s \in Sessions : what = <<"session", s>> => intake[s].status \in {"CREATED", "CONSUMED"}
    /\ \A c \in Cards :
         /\ what = <<"grace", c>> => <<"expiry", c>> \in due
         /\ what = <<"unused", c>> => token[c] = "PENDING_FIRST_AUTH"
         /\ what = <<"hold", c>> => pan[c] = "doomed"
    /\ what = Replay => allowed = "stored"
    /\ UNCHANGED <<intake, cvv, sent, token, pan, egress, allowed>>

Moments == {<<"session", s>> : s \in Sessions} \union {Replay}
           \union {<<what, c>> : what \in {"expiry", "grace", "unused", "hold"}, c \in Cards}

CardNext ==
    /\ \/ \E s \in Sessions :
            \/ CreateIntakeSession(s) \/ VoidIntakeSession(s) \/ ExpireSession(s) \/ RejectCard(s)
            \/ \E c \in Cards, withCvv \in BOOLEAN : CardIntake(s, c, withCvv)
       \/ \E c \in Cards : ImportToken(c) \/ RetireToken(c) \/ SuspendToken(c) \/ ReinstateToken(c)
       \/ \E x \in Calls :
            \/ \E c \in Cards, s \in Sessions \union {NoSession} : EgressStart(x, c, s)
            \/ \E success \in BOOLEAN : EgressAnswered(x, success)
            \/ EgressFails(x)
       \/ DekRotates \/ MaintenanceSweep
       \/ \E what \in Moments : ClockPasses(what)
    /\ UNCHANGED keyVars

CardSpec == VInit /\ [][CardNext]_<<keyVars, cardVars>>

(* ---- properties of the cards ------------------------------------------------------------- *)

(* Card data is used and kept only as long as it may be, under concurrent       *)
(* egresses, sweeps and retirements: a CVV leaves for the acquirer at most      *)
(* once, and only of a session that was consumed; a token that is over has no   *)
(* ciphertext without an end date; and a ciphertext is gone only when its token *)
(* is over, so a usable token can always be sent.                               *)
CardDataIsBounded ==
    /\ \A s \in Sessions :
         /\ sent[s] <= 1
         /\ sent[s] = 1 => intake[s].status = "CONSUMED" /\ cvv[s] = "none"
         /\ cvv[s] # "none" => intake[s].status = "CONSUMED"
    /\ \A c \in Cards :
         /\ token[c] \in Terminal <=> pan[c] = "doomed" \/ (pan[c] = "none" /\ token[c] # "none")
         /\ token[c] \in Usable => pan[c] = "kept"
=============================================================================
