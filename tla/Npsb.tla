-------------------------------- MODULE Npsb --------------------------------
(***************************************************************************)
(* The ISO 8583 link to the NPSB switch (connectors/rails/npsb.py): one    *)
(* session (sign-on, echo, cutover, sign-off), STANs counted per (date,    *)
(* sign-on) scope in the database, answers matched to requests by message  *)
(* type and STAN alone, and the store-and-forward queue of reversals.      *)
(* Nothing under src calls the session operations, so they are taken at    *)
(* any time.                                                               *)
(***************************************************************************)
EXTENDS Naturals, FiniteSets, Sequences, Functions

CONSTANTS
  Refs,       \* connector_refs of the payments
  Calls,      \* calls the process can have in flight
  MaxScopes,  \* bound on sign-ons and business dates
  MaxSends,   \* bound on STANs taken in all
  MaxFaults,  \* bound on lost messages, MAC failures and restarts
  NoRef

VARIABLES
  session,  \* NpsbSession, in memory
  stans,    \* connector_npsb_stan_counters: scope -> last STAN taken
  first,    \* the payments with a row in connector_npsb_stan_allocations
  saf,      \* connector_npsb_saf_items
  undone,   \* _reversed_refs, in memory
  line,     \* the exchanges in flight
  pending,  \* TcpNpsbTransport._pending: the call an answer is handed to
  replies,  \* answers of the switch on their way
  switch,   \* what the switch did, and what the callers were told
  trouble   \* faults so far

npsb == <<session, stans, first, saf, undone, line, pending, replies, switch, trouble>>

----------------------------------------------------------------------------
(* Sessions and STANs                                                      *)

SessionTable ==
  { <<"SIGNED_OFF", "sign_on", "SIGN_ON_SENT">>,
    <<"SIGN_ON_SENT", "sign_on_ack", "SIGNED_ON">>,
    <<"SIGN_ON_SENT", "sign_on_failed", "SIGNED_OFF">>,
    <<"SIGNED_ON", "echo_ok", "SIGNED_ON">>,
    <<"SIGNED_ON", "echo_missed", "ECHO_MISSED">>,
    <<"ECHO_MISSED", "echo_ok", "SIGNED_ON">>,
    <<"ECHO_MISSED", "echo_missed", "ECHO_MISSED">>,
    <<"ECHO_MISSED", "third_miss", "SIGNED_OFF">>,
    <<"SIGNED_ON", "cutover_window", "CUTOVER_IN_PROGRESS">>,
    <<"CUTOVER_IN_PROGRESS", "cutover_ack", "SIGNED_ON">>,
    <<"SIGNED_ON", "sign_off", "SIGNED_OFF">> }

SignedOff == [state |-> "SIGNED_OFF", missed |-> 0, date |-> 1, count |-> 0]

Admits(s) == s.state \in {"SIGNED_ON", "ECHO_MISSED"}

Dispatchable == Admits(session)

\* A denied trigger raises and leaves the session as it is.
Advance(s, trigger) ==
  LET to == { t \in SessionTable : t[1] = s.state /\ t[2] = trigger }
  IN IF to = {} THEN s ELSE [s EXCEPT !.state = (CHOOSE t \in to : TRUE)[3]]

Scope(s) == <<s.date, s.count>>

Scopes == { s \in (1..MaxScopes) \X (0..MaxScopes) : s[1] + s[2] <= MaxScopes + 1 }

Opened == session.date + session.count - (IF session.state = "CUTOVER_IN_PROGRESS" THEN 0 ELSE 1)

Stan(scope) == stans[scope] + 1

Taken == FoldFunction(+, 0, stans)

Idle == [kind |-> "idle", ref |-> NoRef, stan |-> 0, scope |-> <<1, 0>>, rest |-> <<>>]

\* A call takes the first free place.
Free(c) == line[c] = Idle /\ \A d \in Calls : d < c => line[d] # Idle

ResponseType(kind) ==
  CASE kind \in {"pay", "ask"} -> "0210"
    [] kind = "undo" -> "0430"
    [] OTHER -> "0810"

Fault == trouble < MaxFaults /\ trouble' = trouble + 1

NInit ==
  /\ session = SignedOff
  /\ stans = [s \in Scopes |-> 0]
  /\ first = {}
  /\ saf = [r \in Refs |-> "none"]
  /\ undone = {}
  /\ line = [c \in Calls |-> Idle]
  /\ pending = {}
  /\ replies = {}
  /\ switch = [paid |-> {}, undone |-> {}, told |-> {}, sent |-> [r \in Refs |-> 0]]
  /\ trouble = 0

----------------------------------------------------------------------------
(* One exchange: a STAN is taken, the answer's key registered (an older    *)
(* call under the same key loses its place) and the request written.       *)

\* What the switch does with a request that reaches it.  It answers "00",
\* or another code and does nothing.
SwitchHears(kind, ref, stan, scope, wire) ==
  \E ok \in BOOLEAN :
    /\ kind = "ask" => ok = (ref \in switch.paid)
    /\ kind \in {"on", "echo", "cut", "off"} => ok      \* refusing is not answering
    /\ replies' = wire \cup { [type |-> ResponseType(kind), stan |-> stan, scope |-> scope, ok |-> ok] }
    /\ switch' = [switch EXCEPT
         !.paid = IF ok /\ kind = "pay" THEN @ \cup {ref} ELSE @,
         !.undone = IF ok /\ kind = "undo" THEN @ \cup {ref} ELSE @,
         !.sent = IF kind = "pay" THEN [@ EXCEPT ![ref] = @ + 1] ELSE @]

\* A request the switch never sees was written all the same.
Lost(kind, ref, wire) ==
  /\ replies' = wire
  /\ switch' = IF kind = "pay" THEN [switch EXCEPT !.sent[ref] = @ + 1] ELSE switch

\* A newer call takes the place of an older one under the same key.
Register(held, c, type, stan) ==
  { p \in held : p.type # type \/ p.stan # stan } \cup { [type |-> type, stan |-> stan, call |-> c] }

Send(c, s, kind, ref, rest, held, wire) ==
  LET scope == Scope(s)
      stan == Stan(scope)
  IN /\ Taken < MaxSends
     /\ stans' = [stans EXCEPT ![scope] = stan]
     /\ line' = [line EXCEPT ![c] = [kind |-> kind, ref |-> ref, stan |-> stan,
                                     scope |-> scope, rest |-> rest]]
     /\ pending' = Register(held, c, ResponseType(kind), stan)
     /\ \/ SwitchHears(kind, ref, stan, scope, wire) /\ UNCHANGED trouble
        \/ Lost(kind, ref, wire) /\ Fault

Exchange(c, s, kind, ref) == Send(c, s, kind, ref, <<>>, pending, replies)

\* The call ends: its key is dropped, whoever holds it by now.
Ended(c) ==
  { p \in pending : p.type # ResponseType(line[c].kind) \/ p.stan # line[c].stan }

Hangs(c) ==
  /\ line' = [line EXCEPT ![c] = Idle]
  /\ pending' = Ended(c)

----------------------------------------------------------------------------
(* Network management                                                      *)

\* sign_on counts and opens the new scope before the table may refuse it.
SignOn(c) ==
  LET s == [session EXCEPT !.count = @ + 1]
  IN /\ Free(c) /\ Opened < MaxScopes
     /\ session' = Advance(s, "sign_on")
     /\ IF session.state = "SIGNED_OFF"
        THEN Exchange(c, s, "on", NoRef) /\ UNCHANGED <<first, saf, undone>>
        ELSE UNCHANGED <<stans, first, saf, undone, line, pending, replies, switch, trouble>>

EchoCycle(c) ==
  /\ Free(c) /\ Dispatchable
  /\ Exchange(c, session, "echo", NoRef)
  /\ UNCHANGED <<session, first, saf, undone>>

Cutover(c) ==
  /\ Free(c) /\ session.state = "SIGNED_ON" /\ Opened < MaxScopes
  /\ session' = Advance(session, "cutover_window")
  /\ Exchange(c, session, "cut", NoRef)
  /\ UNCHANGED <<first, saf, undone>>

SignOff(c) ==
  /\ Free(c) /\ session.state = "SIGNED_ON"
  /\ session' = Advance(session, "sign_off")
  /\ Exchange(c, session, "off", NoRef)
  /\ UNCHANGED <<first, saf, undone>>

EchoMissed(s) ==
  LET counted == [s EXCEPT !.missed = @ + 1]
  IN IF s.state = "SIGNED_ON" THEN Advance(counted, "echo_missed")
     ELSE IF counted.missed >= 3 THEN Advance(counted, "third_miss")
     ELSE Advance(counted, "echo_missed")

\* The session after a network-management exchange, answered "00" or not.
Managed(kind, ok) ==
  CASE kind = "on" ->
         IF ok THEN [Advance(session, "sign_on_ack") EXCEPT !.missed = 0]
         ELSE Advance(session, "sign_on_failed")
    [] kind = "echo" ->
         IF ~ok THEN EchoMissed(session)
         ELSE IF Dispatchable THEN [Advance(session, "echo_ok") EXCEPT !.missed = 0]
         ELSE session
    [] kind = "cut" ->
         IF ok THEN [Advance(session, "cutover_ack") EXCEPT !.date = @ + 1]
         ELSE [session EXCEPT !.state = "SIGNED_OFF"]
    [] OTHER -> session

----------------------------------------------------------------------------
(* Payments and reversals                                                  *)

\* save is an upsert of the whole item, the caller's copy of "acked" included.
Save(queue, ref, state) == [queue EXCEPT ![ref] = state]

Recorded(ref) == ref \in undone \/ saf[ref] = "acked"

\* Mutant: the allocation of an earlier attempt is not looked up.
SubmitAgain(c, ref) ==
  /\ Free(c) /\ Dispatchable
  /\ first' = first \cup {ref}
  /\ Exchange(c, session, "pay", ref)
  /\ UNCHANGED <<session, saf, undone>>

\* The allocation is durable before the 0200 is written; a ref that has one
\* is asked about and never sent again.
Submit(c, ref) ==
  /\ Free(c) /\ ref \notin first /\ Dispatchable
  /\ first' = first \cup {ref}
  /\ \/ Exchange(c, session, "pay", ref)
     \/ /\ Fault /\ Taken < MaxSends        \* mac_unavailable
        /\ stans' = [stans EXCEPT ![Scope(session)] = @ + 1]
        /\ UNCHANGED <<line, pending, replies, switch>>
  /\ UNCHANGED <<session, saf, undone>>

QueryStatus(c, ref) ==
  /\ Free(c) /\ ref \in first /\ ~Recorded(ref) /\ Dispatchable
  /\ Exchange(c, session, "ask", ref)
  /\ UNCHANGED <<session, first, saf, undone>>

Reverse(c, ref) ==
  /\ Free(c) /\ ref \in first /\ ~Recorded(ref)
  /\ saf' = Save(saf, ref, "queued")
  /\ IF Dispatchable
     THEN Exchange(c, session, "undo", ref)
     ELSE UNCHANGED <<stans, line, pending, replies, switch, trouble>>
  /\ UNCHANGED <<session, first, undone>>

\* drain_store_and_forward goes on with the copies it read when it began;
\* queue and wire are the items and the answers after the one just ended.
Drain(c, s, rest, queue, wire) ==
  IF rest = <<>> \/ ~Admits(s)
  THEN /\ Hangs(c) /\ saf' = queue /\ replies' = wire
       /\ UNCHANGED <<stans, switch, trouble>>
  ELSE /\ saf' = Save(queue, Head(rest), "queued")
       /\ Send(c, s, "undo", Head(rest), Tail(rest), Ended(c), wire)

\* The queue in some order of arrival.
Pending == { q \in UNION { [1..n -> Refs] : n \in 0..Cardinality(Refs) } :
               /\ \A i, j \in DOMAIN q : q[i] = q[j] => i = j
               /\ { q[i] : i \in DOMAIN q } = { r \in Refs : saf[r] = "queued" } }

----------------------------------------------------------------------------
(* Answers                                                                 *)

\* An answer is handed to the call registered under its type and STAN.  The
\* RRN (year, day, hour, STAN) is compared for 0210s only.
Answered(c, a) ==
  /\ a \in replies
  /\ [type |-> a.type, stan |-> a.stan, call |-> c] \in pending
  /\ line[c] # Idle

ManagementAnswered(c) ==
  \E a \in replies :
    /\ Answered(c, a) /\ a.type = "0810"
    /\ session' = Managed(line[c].kind, a.ok)
    /\ IF line[c].kind = "on" /\ a.ok
       THEN \E q \in Pending : Drain(c, session', q, saf, replies \ {a})
       ELSE /\ Hangs(c) /\ replies' = replies \ {a}
            /\ UNCHANGED <<stans, saf, switch, trouble>>
    /\ UNCHANGED <<first, undone>>

FinancialAnswered(c) ==
  \E a \in replies, sameHour \in BOOLEAN :
    /\ Answered(c, a) /\ a.type = "0210"
    /\ a.scope = line[c].scope => sameHour
    /\ a.scope[1] # line[c].scope[1] => ~sameHour
    /\ switch' = IF a.ok /\ sameHour THEN [switch EXCEPT !.told = @ \cup {line[c].ref}] ELSE switch
    /\ Hangs(c) /\ replies' = replies \ {a}
    /\ UNCHANGED <<session, stans, first, saf, undone, trouble>>

\* _send_reversal's last part: acknowledged only by an 0430 with this STAN.
AckedBy(a) == a.type = "0430" /\ a.ok

ReversalAnswered(c) ==
  \E a \in replies :
    /\ Answered(c, a) /\ a.type = "0430"
    /\ Drain(c, session, line[c].rest,
             Save(saf, line[c].ref, IF AckedBy(a) THEN "acked" ELSE "queued"), replies \ {a})
    /\ undone' = IF AckedBy(a) THEN undone \cup {line[c].ref} ELSE undone
    /\ UNCHANGED <<session, first>>

\* An answer nobody waits for goes to the inbound sink.
Unclaimed ==
  \E a \in replies :
    /\ ~ \E p \in pending : p.type = a.type /\ p.stan = a.stan
    /\ replies' = replies \ {a}
    /\ UNCHANGED <<session, stans, first, saf, undone, line, pending, switch, trouble>>

\* The wait ends without an answer, or the answer's MAC does not verify.
TimesOut(c) ==
  /\ line[c] # Idle
  /\ IF line[c].kind = "undo"
     THEN /\ Drain(c, session, line[c].rest, Save(saf, line[c].ref, "queued"), replies)
          /\ UNCHANGED session
     ELSE /\ session' = Managed(line[c].kind, FALSE)
          /\ Hangs(c)
          /\ UNCHANGED <<stans, saf, replies, switch, trouble>>
  /\ UNCHANGED <<first, undone>>

\* The process restarts: the session, the line and _reversed_refs are gone.
Reboot ==
  /\ Fault
  /\ session' = [SignedOff EXCEPT !.date = session.date]
  /\ undone' = {}
  /\ line' = [c \in Calls |-> Idle]
  /\ pending' = {}
  /\ replies' = {}
  /\ UNCHANGED <<stans, first, saf, switch>>

NpsbNext ==
  \/ \E c \in Calls :
       \/ SignOn(c) \/ EchoCycle(c) \/ Cutover(c) \/ SignOff(c)
       \/ \E r \in Refs : Submit(c, r) \/ QueryStatus(c, r) \/ Reverse(c, r)
       \/ ManagementAnswered(c) \/ FinancialAnswered(c) \/ ReversalAnswered(c)
       \/ TimesOut(c)
  \/ Unclaimed \/ Reboot

NpsbSpec == NInit /\ [][NpsbNext]_npsb

\* STANs repeat: two scopes of one adapter have been used.
Reused == \E s, t \in Scopes : s # t /\ stans[s] > 0 /\ stans[t] > 0

\* Across restarts and retries a payment's 0200 is written once; a reversal
\* accepted from a caller has its durable row, and only an answered 0430 takes
\* the row off the queue.  A payment reported good, or a reversal taken for
\* acknowledged, was answered so by the switch, unless STANs have been used
\* again after a later sign-on or cutover.
SwitchIsHeard ==
  \A r \in Refs :
    /\ switch.sent[r] <= 1
    /\ r \in switch.undone => saf[r] # "none"
    /\ ~Reused => /\ Recorded(r) => r \in switch.undone
                  /\ r \in switch.told => r \in switch.paid
=============================================================================
