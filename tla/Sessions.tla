------------------------------ MODULE Sessions ------------------------------
(***************************************************************************)
(* Accounts and login sessions of the supported runtime: registration,     *)
(* login, logout and the two reads of current_user in                      *)
(* backend/runtime/main.py, and what administrators do to members.         *)
(*                                                                         *)
(* A step is the code between two awaits that let another request run.  A  *)
(* handler acts on the rows that it has read: seen is the account of its   *)
(* user, found the account of the member that it changes.  Writes of one   *)
(* handler go in one transaction, which SQLite does not interleave with    *)
(* another.                                                                *)
(*                                                                         *)
(* Abstractions.  An account is its email address, so that the unique      *)
(* index makes it exist once; OrgOf[u] is the organization that it is      *)
(* created in.  A session is its token.  Passwords are right: a wrong one  *)
(* changes nothing.  raced, granted, staleOrgs and staleSessions are       *)
(* history: they change no step.                                           *)
(***************************************************************************)
EXTENDS Naturals

CONSTANTS
    Users,         \* accounts that may come to exist
    NoUser,        \* the absence of one
    Orgs,          \* organizations
    OrgOf,         \* OrgOf[u] : the organization of account u
    Roles,         \* the roles that are told apart
    Tokens,        \* session tokens that may be drawn
    Requests       \* requests served at one time

ASSUME NoUserAssumption == NoUser \notin Users
ASSUME OrgOfAssumption  == OrgOf \in [Users -> Orgs]
ASSUME RolesAssumption  == "admin" \in Roles /\ "none" \notin Roles

VARIABLES
    account,       \* account[u] : the row of u, with role "none" without one
    session,       \* session[t] : the user of the row of token t, or NoUser
    issued,        \* tokens drawn so far
    expired,       \* tokens whose eight hours are over
    req,           \* req[r] : where request r is and what it has read
    granted,       \* granted[t] : the account that the issuer of t had seen
    staleOrgs,     \* organizations changed by an overtaken administrator
    staleSessions  \* tokens issued by an overtaken login

overtaken == <<staleOrgs, staleSessions>>
history   == <<granted, overtaken>>
vars      == <<account, session, issued, expired, req, history>>

Accounts == [role : Roles \union {"none"}, active : BOOLEAN]
Patches  == [role : Roles, active : BOOLEAN]
Handlers == {"logout", "add", "update"}
\* Where a handler acts on an account that it has read.
Acting   == {"hash", "patch"} \union Handlers
Held     == [pc : {"idle", "user"} \union Acting, op : Handlers,
             token : Tokens \union {NoUser}, user : Users \union {NoUser},
             seen : Accounts, member : Users \union {NoUser},
             found : Accounts, patch : Patches, raced : BOOLEAN]

NoAccount == [role |-> "none", active |-> FALSE]
Idle == [pc |-> "idle", op |-> "logout", token |-> NoUser, user |-> NoUser,
         seen |-> NoAccount, member |-> NoUser, found |-> NoAccount,
         patch |-> [role |-> "admin", active |-> TRUE], raced |-> FALSE]

TypeOK ==
    /\ account \in [Users -> Accounts]
    /\ session \in [Tokens -> Users \union {NoUser}]
    /\ issued \in SUBSET Tokens
    /\ expired \in SUBSET Tokens
    /\ req \in [Requests -> Held]
    /\ granted \in [Tokens -> Accounts]
    /\ staleOrgs \in SUBSET Orgs
    /\ staleSessions \in SUBSET Tokens

Init ==
    /\ account = [u \in Users |-> NoAccount]
    /\ session = [t \in Tokens |-> NoUser]
    /\ issued = {}
    /\ expired = {}
    /\ req = [r \in Requests |-> Idle]
    /\ granted = [t \in Tokens |-> NoAccount]
    /\ staleOrgs = {}
    /\ staleSessions = {}

Exists(u)   == account[u].role # "none"
Members(o)  == {u \in Users : OrgOf[u] = o /\ Exists(u)}
Admin(u)    == account[u] = [role |-> "admin", active |-> TRUE]
At(r, pc)   == req[r].pc = pc
Hold(r, h)  == req' = [req EXCEPT ![r] = h]
Return(r)   == Hold(r, Idle)

-----------------------------------------------------------------------------
(* Registration, login and logout.                                         *)

\* issue_session: a fresh token; the row of the old cookie and rows that
\* have expired go in the same transaction.  row is the account as seen.
Issue(t, u, old, row) ==
    /\ t \notin issued
    /\ issued' = issued \union {t}
    /\ session' = [s \in Tokens |-> IF s = t THEN u
                                    ELSE IF s \in {old} \union expired THEN NoUser
                                    ELSE session[s]]
    /\ granted' = [granted EXCEPT ![t] = row]

\* register: organization, administrator and session in one commit.
Register(u, t) ==
    /\ Members(OrgOf[u]) = {}
    /\ account' = [account EXCEPT ![u] = [role |-> "admin", active |-> TRUE]]
    /\ Issue(t, u, NoUser, [role |-> "admin", active |-> TRUE])
    /\ UNCHANGED <<expired, req, overtaken>>

\* login: the account is read, and its password checked in a thread.  The
\* browser may present the cookie of an older session.
LoginRead(r, u, old) ==
    /\ At(r, "idle")
    /\ Exists(u)
    /\ Hold(r, [Idle EXCEPT !.pc = "hash", !.user = u, !.token = old,
                            !.seen = account[u]])
    /\ UNCHANGED <<account, session, issued, expired, history>>

\* Mutant: the account may be inactive.
LoginCommit_Inactive(r, t) ==
    /\ At(r, "hash")
    /\ Issue(t, req[r].user, req[r].token, req[r].seen)
    /\ staleSessions' = staleSessions \union
                           (IF req[r].raced THEN {t} ELSE {})
    /\ Return(r)
    /\ UNCHANGED <<account, expired, staleOrgs>>

\* login: the account was active when it was read.
LoginCommit(r, t) ==
    /\ At(r, "hash")
    /\ req[r].seen.active
    /\ Issue(t, req[r].user, req[r].token, req[r].seen)
    /\ staleSessions' = staleSessions \union
                           (IF req[r].raced THEN {t} ELSE {})
    /\ Return(r)
    /\ UNCHANGED <<account, expired, staleOrgs>>

LoginRefuse(r) ==
    /\ At(r, "hash")
    /\ ~req[r].seen.active
    /\ Return(r)
    /\ UNCHANGED <<account, session, issued, expired, history>>

\* logout: the row of the cookie goes.
Logout(r) ==
    /\ At(r, "logout")
    /\ session' = [session EXCEPT ![req[r].token] = NoUser]
    /\ Return(r)
    /\ UNCHANGED <<account, issued, expired, history>>

\* Eight hours are over.
Expire(t) ==
    /\ t \in issued \ expired
    /\ expired' = expired \union {t}
    /\ UNCHANGED <<account, session, issued, req, history>>

-----------------------------------------------------------------------------
(* current_user: the session is read, then the account.                    *)

AuthSession(r, t, op) ==
    /\ At(r, "idle")
    /\ session[t] # NoUser
    /\ t \notin expired
    /\ Hold(r, [Idle EXCEPT !.pc = "user", !.op = op, !.token = t,
                            !.user = session[t]])
    /\ UNCHANGED <<account, session, issued, expired, history>>

\* An inactive account is refused, and so is one that is no administrator
\* by the handlers that need one.
AuthUser(r) ==
    LET seen    == account[req[r].user]
        allowed == seen.active /\ (req[r].op = "logout" \/ seen.role = "admin")
    IN /\ At(r, "user")
       /\ \/ allowed /\ Hold(r, [req[r] EXCEPT !.pc = req[r].op, !.seen = seen])
          \/ ~allowed /\ Return(r)
       /\ UNCHANGED <<account, session, issued, expired, history>>

-----------------------------------------------------------------------------
(* What administrators do.                                                 *)

\* add_member: a new account of the organization, unless it exists by then.
AddMember(r, u, role) ==
    /\ At(r, "add")
    /\ OrgOf[u] = OrgOf[req[r].user]
    /\ IF Exists(u) THEN UNCHANGED account
       ELSE account' = [account EXCEPT ![u] = [role |-> role, active |-> TRUE]]
    /\ Return(r)
    /\ UNCHANGED <<session, issued, expired, history>>

\* Mutant: administrators may change themselves.
UpdateRead_Self(r, u, patch) ==
    /\ At(r, "update")
    /\ Exists(u) /\ OrgOf[u] = OrgOf[req[r].user]
    /\ Hold(r, [req[r] EXCEPT !.pc = "patch", !.member = u,
                              !.found = account[u], !.patch = patch])
    /\ UNCHANGED <<account, session, issued, expired, history>>

\* update_member: the row of another member of the organization is read.
UpdateRead(r, u, patch) ==
    /\ At(r, "update")
    /\ Exists(u) /\ OrgOf[u] = OrgOf[req[r].user]
    /\ u # req[r].user
    /\ Hold(r, [req[r] EXCEPT !.pc = "patch", !.member = u,
                              !.found = account[u], !.patch = patch])
    /\ UNCHANGED <<account, session, issued, expired, history>>

\* update_member: no such member of the organization, or the own account.
UpdateRefuse(r, u) ==
    /\ At(r, "update")
    /\ ~Exists(u) \/ OrgOf[u] # OrgOf[req[r].user] \/ u = req[r].user
    /\ Return(r)
    /\ UNCHANGED <<account, session, issued, expired, history>>

\* The columns that the patch changes in the row that was read are written.
Written(r) ==
    LET row == account[req[r].member] IN
    [role   |-> IF req[r].patch.role # req[r].found.role
                THEN req[r].patch.role ELSE row.role,
     active |-> IF req[r].patch.active # req[r].found.active
                THEN req[r].patch.active ELSE row.active]

\* Requests that have read the account of this user were overtaken.
Overtake(r, u) ==
    req' = [q \in Requests |->
               IF q = r THEN Idle
               ELSE IF req[q].pc \in Acting /\ req[q].user = u
                    THEN [req[q] EXCEPT !.raced = TRUE] ELSE req[q]]

\* Mutant: the sessions of the member stay.
UpdateCommit_Keeps(r) ==
    /\ At(r, "patch")
    /\ account' = [account EXCEPT ![req[r].member] = Written(r)]
    /\ Overtake(r, req[r].member)
    /\ staleOrgs' = staleOrgs \union
                       (IF req[r].raced THEN {OrgOf[req[r].user]} ELSE {})
    /\ UNCHANGED <<session, issued, expired, granted, staleSessions>>

\* update_member: the net change, and the member's sessions go.
UpdateCommit(r) ==
    /\ At(r, "patch")
    /\ account' = [account EXCEPT ![req[r].member] = Written(r)]
    /\ session' = [t \in Tokens |-> IF session[t] = req[r].member THEN NoUser
                                                                 ELSE session[t]]
    /\ Overtake(r, req[r].member)
    /\ staleOrgs' = staleOrgs \union
                       (IF req[r].raced THEN {OrgOf[req[r].user]} ELSE {})
    /\ UNCHANGED <<issued, expired, granted, staleSessions>>

Request(r) ==
    \/ \E u \in Users, old \in issued \union {NoUser} : LoginRead(r, u, old)
    \/ \E t \in Tokens : LoginCommit(r, t)
    \/ LoginRefuse(r)
    \/ \E t \in Tokens, op \in Handlers : AuthSession(r, t, op)
    \/ AuthUser(r)
    \/ Logout(r)
    \/ \E u \in Users, role \in Roles : AddMember(r, u, role)
    \/ \E u \in Users, patch \in Patches : UpdateRead(r, u, patch)
    \/ \E u \in Users : UpdateRefuse(r, u)
    \/ UpdateCommit(r)

Next ==
    \/ \E u \in Users, t \in Tokens : Register(u, t)
    \/ \E r \in Requests : Request(r)
    \/ \E t \in Tokens : Expire(t)

Spec == Init /\ [][Next]_vars

-----------------------------------------------------------------------------
(* What must hold.                                                         *)

\* A session ends with every change of its account: whoever is let in by it
\* was given it as the account is now, with this role, unless its login had
\* read the account before it was changed.
SessionIsOfAccount ==
    \A t \in Tokens \ staleSessions :
        session[t] # NoUser => account[session[t]] = granted[t]

\* An organization has an active administrator, as registration gives it
\* one and nobody changes the own role, unless an administrator who had
\* been changed meanwhile finished a change.
AdminLostOnlyByRace ==
    \A o \in Orgs \ staleOrgs :
        Members(o) # {} => \E u \in Members(o) : Admin(u)

\* A deactivated account has no session, but one whose login had read the
\* account before it was deactivated.
InactiveHasNoSession ==
    \A t \in Tokens \ staleSessions :
        session[t] # NoUser => account[session[t]].active

\* A member keeps the role it was given, and being active, until an
\* administrator changes it: accounts of another organization have no hand
\* in it.
OnlyOwnAdmins ==
    [][\A u \in Users : account'[u] # account[u] =>
          \/ Members(OrgOf[u]) = {}
          \/ \E r \in Requests : /\ req[r].pc \in {"add", "patch"}
                                 /\ req[r].user # u
                                 /\ req[r].seen.role = "admin"
                                 /\ OrgOf[req[r].user] = OrgOf[u]
                                 /\ req'[r].pc = "idle"]_vars

-----------------------------------------------------------------------------
(* Why it holds: the inductive invariant of SessionsProofs.                *)

\* What a request holds, wherever it is, when these are the accounts.
Sound(h, rows) ==
    /\ h.pc # "idle" => h.user \in Users /\ rows[h.user].role # "none"
    /\ h.pc \in Acting /\ ~h.raced => h.seen = rows[h.user]
    /\ h.pc \in Acting \ {"hash"} => h.seen.active
    /\ h.pc \in {"user", "logout"} => h.token \in Tokens
    /\ h.pc \in {"add", "update", "patch"} => h.seen.role = "admin"
    /\ h.pc = "patch" => /\ h.member \in Users \ {h.user}
                         /\ OrgOf[h.member] = OrgOf[h.user]
                         /\ rows[h.member].role # "none"

RequestInv == \A r \in Requests : Sound(req[r], account)

SessionRows ==
    \A t \in Tokens : session[t] # NoUser => t \in issued /\ Exists(session[t])

SessionsInv ==
    /\ TypeOK
    /\ RequestInv
    /\ SessionRows
    /\ AdminLostOnlyByRace
    /\ SessionIsOfAccount
    /\ InactiveHasNoSession
=============================================================================
