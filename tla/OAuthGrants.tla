---------------------------- MODULE OAuthGrants -----------------------------
(***************************************************************************)
(* Client registrations, approvals and one-time authorization codes of the *)
(* OAuth service.  Registrations and codes live in memory, approved        *)
(* clients also in a file; a request validates against what is registered  *)
(* when it arrives and is approved by the user later, when the             *)
(* registration may be gone.                                               *)
(***************************************************************************)
EXTENDS Naturals, FiniteSets

CONSTANTS Clients,     \* client identities
          Codes,       \* authorization codes that may be drawn
          MaxClients,  \* oauth_max_dynamic_clients
          MaxCodes,    \* oauth_max_pending_codes
          MaxRestarts, \* bound: restarts of Control
          NoClient     \* stands for no client

ASSUME FiniteCodes == IsFiniteSet(Codes)
ASSUME NoClientAssumption == NoClient \notin Clients
ASSUME MaxCodesAssumption == MaxCodes \in Nat

VARIABLES
    client,     \* in memory: "none", "pending" or "approved", and past its TTL
    stored,     \* the clients in the registry file
    forms,      \* clients with a validated request that waits for the user
    code,       \* each pending code: its client, "none" if the code is not pending
    staleCodes, \* codes past their TTL
    accepting,  \* "open", "stopping" or "closed"
    granted,    \* history: tokens issued, per code
    allowed,    \* history: clients the user ever approved
    restarts    \* restarts so far

oauthvars == <<client, stored, forms, code, staleCodes, accepting, granted, allowed, restarts>>

Unregistered == [status |-> "none", old |-> FALSE]

OAuthInit ==
    /\ client = [c \in Clients |-> Unregistered] /\ stored = {} /\ forms = {}
    /\ code = [k \in Codes |-> NoClient] /\ staleCodes = {} /\ accepting = "open"
    /\ granted = [k \in Codes |-> 0] /\ allowed = {} /\ restarts = 0

Open == accepting = "open"
RegisteredClients == {c \in Clients : client[c].status # "none"}
Pending == {k \in Codes : code[k] # NoClient}

\* _prune_clients and _prune_codes
PrunedClients == [c \in Clients |-> IF client[c].status = "pending" /\ client[c].old
                                    THEN Unregistered ELSE client[c]]
PrunedCodes == [k \in Codes |-> IF k \in staleCodes THEN NoClient ELSE code[k]]

\* register_dynamic_client: a matching registration is reused.
RegisterClient(c) ==
    /\ Open
    /\ IF PrunedClients[c].status = "none"
       THEN /\ Cardinality({d \in Clients : PrunedClients[d].status = "pending"}) < MaxClients
            /\ client' = [PrunedClients EXCEPT ![c] = [status |-> "pending", old |-> FALSE]]
       ELSE client' = PrunedClients
    /\ UNCHANGED <<stored, forms, code, staleCodes, accepting, granted, allowed, restarts>>

\* validate_authorization_request, for the form and again for its submission.
Validate(c) ==
    /\ Open /\ PrunedClients[c].status # "none"
    /\ client' = PrunedClients /\ forms' = forms \cup {c}
    /\ UNCHANGED <<stored, code, staleCodes, accepting, granted, allowed, restarts>>

\* issue_authorization_response: the code's place is reserved, the client is
\* approved and persisted, then the code is stored.  A full store, a client that
\* is gone or a registry that cannot be written refuse the request.
Issue(c) ==
    /\ c \in forms /\ forms' = forms \ {c} /\ Open
    /\ \/ /\ Cardinality({k \in Codes : PrunedCodes[k] # NoClient}) < MaxCodes
          /\ c \in RegisteredClients /\ allowed' = allowed \cup {c}
          /\ \/ /\ client[c].status = "pending"
                /\ stored' = {d \in RegisteredClients : client[d].status = "approved"} \cup {c}
             \/ client[c].status = "approved" /\ UNCHANGED stored
          /\ client' = [client EXCEPT ![c].status = "approved"]
          /\ \E k \in Codes : /\ PrunedCodes[k] = NoClient /\ granted[k] = 0
                              /\ code' = [PrunedCodes EXCEPT ![k] = c]
                              /\ staleCodes' = staleCodes \ {k}
       \/ code' = PrunedCodes /\ UNCHANGED <<client, stored, allowed, staleCodes>>
    /\ UNCHANGED <<accepting, granted, restarts>>

\* Variant: a code that was exchanged stays.
Exchange_KeepsCode(k, c, proved) ==
    /\ Open /\ PrunedCodes[k] = c /\ c # NoClient /\ proved
    /\ code' = PrunedCodes /\ granted' = [granted EXCEPT ![k] = @ + 1]
    /\ UNCHANGED <<client, stored, forms, staleCodes, accepting, allowed, restarts>>

\* exchange_authorization_code, by a holder of the verifier or by someone else.
\* A request that does not match leaves the code for the one that does.
Exchange(k, c, proved) ==
    /\ Open /\ PrunedCodes[k] # NoClient
    /\ IF PrunedCodes[k] = c /\ proved
       THEN /\ code' = [PrunedCodes EXCEPT ![k] = NoClient]
            /\ granted' = [granted EXCEPT ![k] = @ + 1]
       ELSE code' = PrunedCodes /\ UNCHANGED granted
    /\ UNCHANGED <<client, stored, forms, staleCodes, accepting, allowed, restarts>>

Age ==
    /\ \/ \E c \in RegisteredClients : /\ client' = [client EXCEPT ![c].old = TRUE]
                                      /\ UNCHANGED staleCodes
       \/ \E k \in Pending : staleCodes' = staleCodes \cup {k} /\ UNCHANGED client
    /\ UNCHANGED <<stored, forms, code, accepting, granted, allowed, restarts>>

StopAdmission ==
    /\ Open /\ accepting' = "stopping"
    /\ UNCHANGED <<client, stored, forms, code, staleCodes, granted, allowed, restarts>>

Close ==
    /\ accepting # "closed" /\ accepting' = "closed"
    /\ client' = [c \in Clients |-> Unregistered] /\ code' = [k \in Codes |-> NoClient]
    /\ UNCHANGED <<stored, forms, staleCodes, granted, allowed, restarts>>

\* A restart, orderly or not: what is left is the registry.
Restart ==
    /\ restarts < MaxRestarts /\ restarts' = restarts + 1
    /\ client' = [c \in Clients |-> IF c \in stored
                      THEN [status |-> "approved", old |-> FALSE] ELSE Unregistered]
    /\ code' = [k \in Codes |-> NoClient] /\ forms' = {} /\ staleCodes' = {}
    /\ accepting' = "open" /\ UNCHANGED <<stored, granted, allowed>>

OAuthNext ==
    \/ Age \/ StopAdmission \/ Close \/ Restart
    \/ \E c \in Clients : \/ RegisterClient(c) \/ Validate(c) \/ Issue(c)
                          \/ \E k \in Codes, proved \in BOOLEAN : Exchange(k, c, proved)

OAuthSpec == OAuthInit /\ [][OAuthNext]_oauthvars

-----------------------------------------------------------------------------
(* Properties                                                                *)

\* A code buys one token at most, and pending codes stay within their limit
\* however requests, expiries and restarts interleave.
CodesAreSpentOnce ==
    /\ \A k \in Codes : granted[k] <= 1 /\ (granted[k] = 1 => code[k] = NoClient)
    /\ Cardinality(Pending) <= MaxCodes

\* Only a client the user approved has a code, and it is in the registry by
\* then: no restart forgets a client that may hold a token, or remembers one
\* that was never approved.
ApprovalIsDurable ==
    /\ \A k \in Pending : code[k] \in stored
    /\ stored = allowed
    /\ \A c \in RegisteredClients : client[c].status = "approved" => c \in stored

OAuthInv == CodesAreSpentOnce /\ ApprovalIsDurable
=============================================================================
