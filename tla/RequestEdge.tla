---------------------------- MODULE RequestEdge ----------------------------
(***************************************************************************)
(* The gateway's edge pipeline for mutating requests that carry one        *)
(* Idempotency-Key (bdpay.gateway.app GatewayMiddleware over the Postgres  *)
(* store of bdpay.gateway.pg): the fixed-window rate limit, the            *)
(* reservation, the handler, and the stored response.  Requests are        *)
(* handled by any number of processes, a process may die anywhere, and     *)
(* every store call is a transaction of its own.                           *)
(***************************************************************************)
EXTENDS Naturals, FiniteSets

CONSTANTS
    Calls,        \* requests that carry the key
    Bodies,       \* canonical request bodies
    RateLimit,    \* requests per window of the route group
    FailOpen,     \* what the limiter does when its store fails
    MaxExpiries,  \* bound: reservations that outlive their TTL
    MaxWindows,   \* bound: rate-limit windows
    NoReservation, NoRequest

Reservations == [state : {"IN_FLIGHT", "COMPLETED"}, hash : Bodies,
                 res : {"none", "small", "large"}, by : Calls]

(* Finitely many requests, and a row that is told from no row.              *)
ASSUME EdgeAssumption ==
    IsFiniteSet(Calls) /\ RateLimit \in Nat /\ NoReservation \notin Reservations

VARIABLES
    reservation,  \* the idempotency_keys row of the scope
    overdue,      \* the row's expires_at has passed
    body,         \* the body of each request
    request,      \* [at, res, by]: where a request is, and whose response it got
    hits,         \* the counter of the current window
    admitted,     \* requests admitted in the window while the counter store worked
    expiries, windows

edge == <<reservation, overdue, body, request, hits, admitted, expiries, windows>>

EInit ==
    /\ reservation = NoReservation /\ overdue = FALSE
    /\ body \in [Calls -> Bodies]
    /\ request = [c \in Calls |-> [at |-> "sent", res |-> "none", by |-> NoRequest]]
    /\ hits = 0 /\ admitted = {} /\ expiries = 0 /\ windows = 1

Move(c, at, res, by) == request' = [request EXCEPT ![c] = [at |-> at, res |-> res, by |-> by]]

(* check: the counter is incremented first, whatever is then decided.       *)
CheckLimit(c) ==
    /\ request[c].at = "sent"
    /\ hits' = hits + 1
    /\ IF hits' <= RateLimit
       THEN Move(c, "admitted", "none", NoRequest) /\ admitted' = admitted \cup {c}
       ELSE Move(c, "answered", "limited", NoRequest) /\ admitted' = admitted
    /\ UNCHANGED <<reservation, overdue, body, expiries, windows>>

(* check, when the counter store raises: the configured policy decides.     *)
LimiterDown(c) ==
    /\ request[c].at = "sent"
    /\ IF FailOpen THEN Move(c, "admitted", "none", NoRequest)
                   ELSE Move(c, "answered", "limited", NoRequest)
    /\ UNCHANGED <<reservation, overdue, body, hits, admitted, expiries, windows>>

NextWindow ==
    /\ windows < MaxWindows
    /\ windows' = windows + 1 /\ hits' = 0 /\ admitted' = {}
    /\ UNCHANGED <<reservation, overdue, body, request, expiries>>

(* reserve: an expired row is deleted and the insert takes its place; any    *)
(* other row makes the insert do nothing.                                    *)
ReserveInsert(c) ==
    /\ request[c].at = "admitted"
    /\ IF reservation = NoReservation \/ overdue
       THEN /\ reservation' = [state |-> "IN_FLIGHT", hash |-> body[c], res |-> "none", by |-> c]
            /\ overdue' = FALSE
            /\ Move(c, "running", "none", c)
       ELSE Move(c, "conflicted", "none", NoRequest) /\ UNCHANGED <<reservation, overdue>>
    /\ UNCHANGED <<body, hits, admitted, expiries, windows>>

(* reserve after the conflict: what is there by now decides.  A row that     *)
(* has gone meanwhile counts as in flight, and a completed one replays only  *)
(* for the same body and a stored response.                                  *)
ReserveRead(c) ==
    /\ request[c].at = "conflicted"
    /\ CASE reservation = NoReservation -> Move(c, "answered", "processing", NoRequest)
         [] reservation # NoReservation /\ reservation.state = "IN_FLIGHT" -> Move(c, "answered", "processing", NoRequest)
         [] reservation # NoReservation /\ reservation.state # "IN_FLIGHT" /\ reservation.hash # body[c] ->
               Move(c, "answered", "mismatch", NoRequest)
         [] reservation # NoReservation /\ reservation.state # "IN_FLIGHT" /\ reservation.hash = body[c] ->
               IF reservation.res = "large" THEN Move(c, "answered", "too_large", NoRequest)
                                    ELSE Move(c, "answered", "replay", reservation.by)
    /\ UNCHANGED <<reservation, overdue, body, hits, admitted, expiries, windows>>

(* The route handler ends: with a response below 500, one too large to be    *)
(* stored, or a failure.                                                     *)
HandlerEnds(c, res) ==
    /\ request[c].at = "running"
    /\ Move(c, "finishing", res, c)
    /\ UNCHANGED <<reservation, overdue, body, hits, admitted, expiries, windows>>

(* complete: only the scope is looked at; without a row the request fails.   *)
Complete(c) ==
    /\ request[c].at = "finishing" /\ request[c].res # "failed"
    /\ IF reservation = NoReservation THEN Move(c, "answered", "failed", NoRequest) /\ reservation' = reservation
       ELSE /\ reservation' = [reservation EXCEPT !.state = "COMPLETED", !.res = request[c].res, !.by = c]
            /\ Move(c, "answered", "fresh", c)
    /\ UNCHANGED <<overdue, body, hits, admitted, expiries, windows>>

ReleaseAlsoRefused(c) ==
    /\ request[c].at = "finishing"
    /\ reservation' = IF reservation # NoReservation /\ reservation.state = "IN_FLIGHT" THEN NoReservation ELSE reservation
    /\ overdue' = (overdue /\ reservation' # NoReservation)
    /\ Move(c, "answered", IF request[c].res = "failed" THEN "failed" ELSE "fresh", c)
    /\ UNCHANGED <<body, hits, admitted, expiries, windows>>

(* release: a failure drops the reservation so that the client can retry.    *)
Release(c) ==
    /\ request[c].at = "finishing" /\ request[c].res = "failed"
    /\ reservation' = IF reservation # NoReservation /\ reservation.state = "IN_FLIGHT" THEN NoReservation ELSE reservation
    /\ overdue' = (overdue /\ reservation' # NoReservation)
    /\ Move(c, "answered", "failed", NoRequest)
    /\ UNCHANGED <<body, hits, admitted, expiries, windows>>

(* The process dies; the row, if there is one, stays.                        *)
CallDies(c) ==
    /\ request[c].at \in {"running", "finishing"}
    /\ Move(c, "dead", "none", NoRequest)
    /\ UNCHANGED <<reservation, overdue, body, hits, admitted, expiries, windows>>

(* A day passes, which no request at work on the row outlives.               *)
TtlPasses ==
    /\ reservation # NoReservation /\ ~overdue /\ expiries < MaxExpiries
    /\ \A c \in Calls : request[c].at \notin {"running", "finishing"}
    /\ overdue' = TRUE /\ expiries' = expiries + 1
    /\ UNCHANGED <<reservation, body, request, hits, admitted, windows>>

ENext ==
    \/ NextWindow \/ TtlPasses
    \/ \E c \in Calls :
          \/ CheckLimit(c) \/ LimiterDown(c) \/ ReserveInsert(c) \/ ReserveRead(c)
          \/ \E res \in {"small", "large", "failed"} : HandlerEnds(c, res)
          \/ Complete(c) \/ Release(c) \/ CallDies(c)

ESpec == EInit /\ [][ENext]_edge
-----------------------------------------------------------------------------
Answered(c, res) == request[c].at = "answered" /\ request[c].res = res

(* A key acts once and answers alike: a second request is executed to an     *)
(* answer only after the reservation expired, a replay repeats the answer of *)
(* an executed request with the same body, and a window of a working counter *)
(* admits no more than its limit -- through releases, crashes, and rows that *)
(* vanish between the conflict and the read.                                 *)
OneAnswerPerKey ==
    /\ Cardinality({c \in Calls : Answered(c, "fresh")}) <= 1 + expiries
    /\ \A c \in Calls :
          Answered(c, "replay") => body[request[c].by] = body[c] /\ Answered(request[c].by, "fresh")
    /\ Cardinality(admitted) <= RateLimit
=============================================================================
