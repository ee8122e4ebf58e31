---------------------------- MODULE LegacyAccess ----------------------------
(***************************************************************************)
(* The gateway of the multi-service deployment and the services behind it  *)
(* that keep accounts: the auth service and the user service; and the rate *)
(* limiter that is there for services to share.  The gateway only knows    *)
(* the answers of the two, which keep tables of their own, so that a       *)
(* behaviour is one of the four.                                           *)
(***************************************************************************)
EXTENDS Gateway, Accounts, Directory, SharedWindow

VARIABLE part         \* whose behaviour this is

vars == <<part, gatewayVars, accountVars, directoryVars, windowVars>>

Init ==
    /\ part \in {"gateway", "auth", "users", "limiter"}
    /\ GatewayInit /\ AccountsInit /\ DirectoryInit /\ WindowInit
    /\ part # "gateway" => load = CHOOSE l \in DOMAIN Loads : TRUE
    /\ part # "auth" => mode = "local" /\ account = "none"

OnGateway(A) == part = "gateway" /\ A /\ UNCHANGED <<part, accountVars, directoryVars, windowVars>>
OnAuth(A)    == part = "auth" /\ A /\ UNCHANGED <<part, gatewayVars, directoryVars, windowVars>>
OnUsers(A)   == part = "users" /\ A /\ UNCHANGED <<part, gatewayVars, accountVars, windowVars>>
OnLimiter(A) == part = "limiter" /\ A /\ UNCHANGED <<part, gatewayVars, accountVars, directoryVars>>

Next == OnGateway(GatewayNext) \/ OnAuth(AccountsNext) \/ OnUsers(DirectoryNext) \/ OnLimiter(WindowNext)

\* The event loop runs every request of the gateway that can go on, and each of
\* its calls of a service has a timeout.  Nothing ends a stream, and nothing
\* is asked of the others in the end.
Fairness == \A r \in Requests : WF_vars(OnGateway(Serve(r)))

Spec == Init /\ [][Next]_vars /\ Fairness

TypeOK == GatewayTypeOK /\ AccountsTypeOK /\ DirectoryTypeOK /\ WindowTypeOK

\* Types; streams tell their end, accounts are linked to Keycloak, an email or
\* slug has one row, and the shared limiter lets no more members of a key's set
\* through than its limit (requests of the same clock are one member, and those
\* that pass because Redis fails are none).  Calls about other users and about
\* organizations are made for administrators only.
AccessInv ==
    /\ TypeOK
    /\ ForeignIsForAdmins /\ DoneIsSent
    /\ LinkedToKeycloak
    /\ OneRowPerKey
    /\ LimitsHold
=============================================================================
