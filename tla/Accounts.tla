------------------------------ MODULE Accounts ------------------------------
(***************************************************************************)
(* The auth service: registration, login, refresh and logout of one user,  *)
(* against Keycloak or against its own table, with refresh tokens in Redis.*)
(* Every request may run with others, between any two of its calls to      *)
(* Keycloak, to the database and to Redis.                                 *)
(*                                                                         *)
(* A password that is wrong, an access token, the expiry of tokens after   *)
(* days and the attributes of an account are left out.                     *)
(***************************************************************************)
EXTENDS Naturals, FiniteSets

CONSTANTS
    Calls,          \* requests
    MaxTokens       \* bound on the refresh tokens that are issued

ASSUME AccountsAssumption == MaxTokens \in Nat

Tokens == 1..MaxTokens

VARIABLES
    mode,        \* keycloak_enabled: "keycloak" or "local"
    identity,    \* the account in Keycloak
    account,     \* the row of users, "linked" when it has a keycloak_id
    inserting,   \* the request whose transaction has inserted the row
    live,        \* the refresh tokens that are valid
    issued,      \* the number of tokens issued so far, up to MaxTokens
    parent,      \* the token each was exchanged for, or 0
    ended,       \* tokens that a logout found valid and has deleted
    overlapped,  \* those of them that a request was exchanging at that time
    service      \* each request of the service

accountVars == <<mode, identity, account, inserting, live, issued, parent, ended, overlapped, service>>

logouts == <<ended, overlapped>>

Nobody == "nobody"

ASSUME NobodyAssumption == Nobody \notin Calls

NoService == [op |-> "none", at |-> "new", token |-> 0, answer |-> "none"]

\* A row without a link was made before Keycloak was enabled.
AccountsInit ==
    /\ mode \in {"keycloak", "local"}
    /\ identity = "none" /\ account \in {"none", "local"} /\ inserting = Nobody
    /\ live = {} /\ issued = 0 /\ parent = [t \in Tokens |-> 0] /\ ended = {} /\ overlapped = {}
    /\ service = [c \in Calls |-> NoService]

Go(c, at) == service' = [service EXCEPT ![c].at = at]
Reply(c, answer) == service' = [service EXCEPT ![c] = [@ EXCEPT !.at = "answered", !.answer = answer]]

\* A valid token more, which belongs to request c.
Issue(c, others, from, at, answer) ==
    /\ issued < MaxTokens
    /\ issued' = issued + 1
    /\ live' = others \union {issued + 1}
    /\ parent' = [parent EXCEPT ![issued + 1] = from]
    /\ service' = [service EXCEPT ![c] = [@ EXCEPT !.at = at, !.answer = answer, !.token = issued + 1]]

---------------------------------------------------------------------------
\* A request comes.
Request(c) ==
    /\ service[c].at = "new"
    /\ \/ \E op \in {"register", "login"} :
            service' = [service EXCEPT ![c] = [@ EXCEPT !.op = op, !.at =
                IF mode = "keycloak" THEN op ELSE IF op = "register" THEN "checking" ELSE "looking"]]
       \/ \E op \in {"refresh", "logout"}, t \in 1..issued :
            service' = [service EXCEPT ![c] = [@ EXCEPT !.op = op, !.at = op, !.token = t]]
    /\ UNCHANGED <<mode, identity, account, inserting, live, issued, parent, logouts>>

\* register creates the user in Keycloak, whose error may come after it has.
CreateIdentity(c) ==
    /\ service[c].at = "register"
    /\ \/ identity # "none" /\ Reply(c, "409") /\ UNCHANGED identity
       \/ identity = "none" /\ identity' = "plain" /\ Go(c, "assigning")
       \/ identity' \in {identity, IF identity = "none" THEN "plain" ELSE identity} /\ Reply(c, "503")
    /\ UNCHANGED <<mode, account, inserting, live, issued, parent, logouts>>

\* assign_role, which passes over a role that the realm does not have.
AssignRole(c) ==
    /\ service[c].at = "assigning"
    /\ \/ identity' \in {identity, "roled"} /\ Go(c, "checking")
       \/ identity' \in {identity, "roled"} /\ Reply(c, "503")
    /\ UNCHANGED <<mode, account, inserting, live, issued, parent, logouts>>

\* UserRepository.create: the check, the insertion, which waits for one that is
\* not committed and fails on one that is, and the commit of the service.
CheckUnique(c) ==
    /\ service[c].at = "checking"
    /\ IF account # "none" THEN Reply(c, "409") ELSE Go(c, "flushing")
    /\ UNCHANGED <<mode, identity, account, inserting, live, issued, parent, logouts>>
Insert(c) ==
    /\ service[c].at = "flushing" /\ inserting = Nobody
    /\ \/ account # "none" /\ Reply(c, "500") /\ UNCHANGED inserting
       \/ account = "none" /\ inserting' = c /\ Go(c, "committing")
    /\ UNCHANGED <<mode, identity, account, live, issued, parent, logouts>>
CommitRow(c) ==
    /\ service[c].at = "committing"
    /\ inserting' = Nobody
    /\ \/ /\ account' = IF mode = "keycloak" THEN "linked" ELSE "local"
          /\ Reply(c, "ok")
       \/ Reply(c, "500") /\ UNCHANGED account
    /\ UNCHANGED <<mode, identity, live, issued, parent, logouts>>

---------------------------------------------------------------------------
\* login with the own table.
LoginLocal(c) ==
    /\ service[c].at = "looking"
    /\ \/ account # "local" /\ Reply(c, "401") /\ UNCHANGED <<live, issued, parent>>
       \/ account = "local" /\ Issue(c, live, 0, "answered", "ok")
       \/ account = "local" /\ Reply(c, "500") /\ UNCHANGED <<live, issued, parent>>
    /\ UNCHANGED <<mode, identity, account, inserting, logouts>>

\* login with Keycloak: the row is read before the password goes to Keycloak,
\* and the first login makes the row, or links it.
LookUp(c) ==
    /\ service[c].at = "login"
    /\ Go(c, CASE account = "none" -> "asking, no row" [] account = "local" -> "asking, no link"
               [] OTHER -> "asking")
    /\ UNCHANGED <<mode, identity, account, inserting, live, issued, parent, logouts>>
AskKeycloak(c) ==
    /\ service[c].at \in {"asking", "asking, no row", "asking, no link"}
    /\ \/ identity = "none" /\ Reply(c, "401") /\ UNCHANGED <<live, issued, parent>>
       \/ Reply(c, "503") /\ UNCHANGED <<live, issued, parent>>
       \/ /\ identity # "none"
          /\ CASE service[c].at = "asking" -> Issue(c, live, 0, "answered", "ok")
               [] service[c].at = "asking, no row" -> Issue(c, live, 0, "checking", "none")
               [] OTHER -> Issue(c, live, 0, "linking", "none")
    /\ UNCHANGED <<mode, identity, account, inserting, logouts>>
Link(c) ==
    /\ service[c].at = "linking"
    /\ \/ account' = "linked" /\ Reply(c, "ok")
       \/ Reply(c, "500") /\ UNCHANGED account
    /\ UNCHANGED <<mode, identity, inserting, live, issued, parent, logouts>>

---------------------------------------------------------------------------
\* refresh_tokens: Keycloak exchanges a token in one step and may keep the old
\* one valid; the own tokens are read, deleted and replaced one after the other.
RefreshKeycloak(c) ==
    /\ service[c].at = "refresh" /\ mode = "keycloak"
    /\ \/ service[c].token \notin live /\ Reply(c, "401") /\ UNCHANGED <<live, issued, parent>>
       \/ /\ service[c].token \in live
          /\ \E others \in {live, live \ {service[c].token}} :
                Issue(c, others, service[c].token, "answered", "ok")
       \/ Reply(c, "503") /\ UNCHANGED <<live, issued, parent>>
    /\ UNCHANGED <<mode, identity, account, inserting, logouts>>
ReadToken(c) ==
    /\ service[c].at = "refresh" /\ mode = "local"
    /\ \/ service[c].token \in live /\ Go(c, "revoking")
       \/ service[c].token \notin live /\ Reply(c, "401")
       \/ Reply(c, "500")
    /\ UNCHANGED <<mode, identity, account, inserting, live, issued, parent, logouts>>
\* Mutant of Revoke: the old token is kept.
Revoke_Kept(c) ==
    /\ service[c].at = "revoking"
    /\ \/ Go(c, "replacing")
       \/ Reply(c, "500")
    /\ UNCHANGED <<mode, identity, account, inserting, live, issued, parent, logouts>>

\* An error of Redis may come before the token is deleted or after.
Revoke(c) ==
    /\ service[c].at = "revoking"
    /\ \/ live' = live \ {service[c].token} /\ Go(c, "replacing")
       \/ live' \in {live, live \ {service[c].token}} /\ Reply(c, "500")
    /\ UNCHANGED <<mode, identity, account, inserting, issued, parent, logouts>>
Replace(c) ==
    /\ service[c].at = "replacing"
    /\ \/ Issue(c, live, service[c].token, "answered", "ok")
       \/ Reply(c, "500") /\ UNCHANGED <<live, issued, parent>>
    /\ UNCHANGED <<mode, identity, account, inserting, logouts>>

\* Whoever has read a token and goes on to replace it.
Exchanging(t) == \E c \in Calls : service[c].token = t /\ service[c].at \in {"revoking", "replacing"}

\* logout deletes the token.  An error of Keycloak is logged and answered alike,
\* one of Redis is not.
Logout(c) ==
    LET t == service[c].token IN
    /\ service[c].at = "logout"
    /\ \/ /\ live' = live \ {t}
          /\ ended' = ended \union ({t} \intersect live)
          /\ overlapped' = IF t \in live /\ Exchanging(t) THEN overlapped \union {t} ELSE overlapped
          /\ Reply(c, "ok")
       \/ mode = "keycloak" /\ UNCHANGED <<live, logouts>> /\ Reply(c, "ok")
       \/ mode = "local" /\ live' \in {live, live \ {t}} /\ UNCHANGED logouts /\ Reply(c, "500")
    /\ UNCHANGED <<mode, identity, account, inserting, issued, parent>>

AccountsNext == \E c \in Calls :
    \/ Request(c) \/ CreateIdentity(c) \/ AssignRole(c) \/ CheckUnique(c) \/ Insert(c) \/ CommitRow(c)
    \/ LoginLocal(c) \/ LookUp(c) \/ AskKeycloak(c) \/ Link(c)
    \/ RefreshKeycloak(c) \/ ReadToken(c) \/ Revoke(c) \/ Replace(c) \/ Logout(c)

---------------------------------------------------------------------------
AccountsTypeOK ==
    /\ mode \in {"keycloak", "local"} /\ identity \in {"none", "plain", "roled"}
    /\ account \in {"none", "local", "linked"} /\ inserting \in Calls \union {Nobody}
    /\ issued \in 0..MaxTokens /\ live \subseteq 1..issued /\ ended \subseteq 1..issued /\ overlapped \subseteq ended
    /\ parent \in [Tokens -> 0..MaxTokens]
    /\ \A c \in Calls : service[c].token \in 0..issued
    /\ inserting = Nobody <=> \A c \in Calls : service[c].at # "committing"

\* A row that is linked has its account in Keycloak, whatever failed while it
\* was made, and a registration or login with Keycloak that was answered with
\* success has left a row that is linked: the next login finds its user, also
\* when the registration that made the account in Keycloak had failed.
LinkedToKeycloak ==
    /\ account = "linked" => identity # "none"
    /\ \A c \in Calls : mode = "keycloak" /\ service[c].op \in {"register", "login"}
                            /\ service[c].answer = "ok" => account = "linked"

\* Rotation: a token that was exchanged for another is not valid any more, so
\* that no exchange that reads it later gets anything for it.  Two that both
\* read it before either deletes it each get a valid token.
RotatedIsSpent ==
    mode = "local" => \A t \in live : \A u \in 1..issued : parent[u] # t

\* A token that a logout has found and deleted is not valid any more, and none
\* comes of it afterwards but for a request that was exchanging it at that time.
LoggedOutIsOut ==
    mode = "local" => \A t \in ended :
        /\ t \notin live
        /\ t \notin overlapped => \A u \in 1..issued : parent[u] # t

\* An own refresh token that was exchanged, or ended by a logout, is not valid
\* again: a request gets another one for it only if it had read it before.
SpentStaysSpent == RotatedIsSpent /\ LoggedOutIsOut
=============================================================================
