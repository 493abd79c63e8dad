----------------------------- MODULE MCPlatform -----------------------------
(***************************************************************************)
(* The platform under the business: the outbox, the gateway's edge, the    *)
(* connectors, webhooks in and out, credentials and the process itself.    *)
(* The components share no state; `part' says which of them a behaviour is *)
(* about, and the others rest in one of their initial states.              *)
(***************************************************************************)
EXTENDS Outbox, Routes, RequestEdge, ConnectorModes, Webhooks, Credentials, Boot,
        ConnectorRunner

CONSTANTS app, Parts

VARIABLE part

platform == <<part, vars, routes, edge, mvars, hooks, wires, access, custody, container, rvars>>

(* Every process runs under the one worker id the composition root passes. *)
MCWorkerId == [w \in Workers |-> app]

(* Callers of the gateway: a merchant's full key and one that only reads, a *)
(* customer, operators of three ranks and nobody in particular.             *)
AllScopes ==
    {"payment:read", "payment:write", "refund:read", "refund:write", "customer:read",
     "customer:write", "apikey:read", "apikey:write", "qr:read", "qr:write", "webhook:read",
     "webhook:write", "offers:read", "offers:write", "subscriptions:read",
     "subscriptions:write", "disbursements:read", "disbursements:write"}
Principal(kind, id, merchant, scopes, roles) ==
    [kind |-> kind, id |-> id, merchant |-> merchant, scopes |-> scopes, roles |-> roles]
MCPrincipals ==
    {Principal("merchant_key", "ka", "A", AllScopes, {}),
     Principal("merchant_key", "kr", "A", {"payment:read", "refund:read"}, {}),
     Principal("customer", "u", "-",
               {"payment:read", "payment:write", "customer:read", "wallet:read"}, {}),
     Principal("operator", "super", "-", {}, {"SUPER_ADMIN"}),
     Principal("operator", "ops", "-", {}, {"PAYMENT_OPS"}),
     Principal("operator", "reader", "-", {}, {"READ_ONLY"}),
     Principal("public", "nobody", "-", {}, {})}

(* One of the initial states of a component that is not at work.            *)
Resting ==
    /\ part # "routes" => row = NoRow
    /\ part # "edge" => body = [c \in Calls |-> CHOOSE b \in Bodies : TRUE]
    /\ part # "modes" => simulatorOnly = FALSE /\ creds = FALSE
    /\ part # "callbacks" => piped = FALSE
    /\ part # "webhooks" => event = [e \in OutEvents |-> [kind |-> "batch", status |-> "PENDING"]]
    /\ part # "boot" => env = CHOOSE e \in Settings : TRUE

InitPlatform ==
    /\ part \in Parts /\ Resting
    /\ Init /\ RInit /\ EInit /\ MInit /\ HInit /\ OInit /\ KInit /\ BInit /\ CInit

NextPlatform ==
    /\ UNCHANGED part
    /\ \/ part = "outbox" /\ Next
          /\ UNCHANGED <<routes, edge, mvars, hooks, wires, access, custody, container, rvars>>
       \/ part = "routes" /\ RNext
          /\ UNCHANGED <<vars, edge, mvars, hooks, wires, access, custody, container, rvars>>
       \/ part = "edge" /\ ENext
          /\ UNCHANGED <<vars, routes, mvars, hooks, wires, access, custody, container, rvars>>
       \/ part = "modes" /\ MNext
          /\ UNCHANGED <<vars, routes, edge, hooks, wires, access, custody, container, rvars>>
       \/ part = "callbacks" /\ HNext
          /\ UNCHANGED <<vars, routes, edge, mvars, wires, access, custody, container, rvars>>
       \/ part = "webhooks" /\ ONext
          /\ UNCHANGED <<vars, routes, edge, mvars, hooks, access, custody, container, rvars>>
       \/ part = "keys" /\ KeyNext
          /\ UNCHANGED <<vars, routes, edge, mvars, hooks, wires, custody, container, rvars>>
       \/ part = "operators" /\ OperatorNext
          /\ UNCHANGED <<vars, routes, edge, mvars, hooks, wires, custody, container, rvars>>
       \/ part = "custody" /\ CustodyNext
          /\ UNCHANGED <<vars, routes, edge, mvars, hooks, wires, access, container, rvars>>
       \/ part = "boot" /\ BootNext
          /\ UNCHANGED <<vars, routes, edge, mvars, hooks, wires, access, custody, rvars>>
       \/ part = "runner" /\ CNext
          /\ UNCHANGED <<vars, routes, edge, mvars, hooks, wires, access, custody, container>>

SpecPlatform == InitPlatform /\ [][NextPlatform]_platform
-----------------------------------------------------------------------------
(* Routes.tla: tenants, roles and second factors hold at every handler.     *)
TenantsStayApart == [][CallsStayWithinBounds]_platform
=============================================================================
