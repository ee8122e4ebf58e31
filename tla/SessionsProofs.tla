--------------------------- MODULE SessionsProofs ---------------------------
(***************************************************************************)
(* Proofs about Sessions, for any accounts, organizations, roles, tokens   *)
(* and requests.                                                           *)
(***************************************************************************)
EXTENDS Sessions, TLAPS

-----------------------------------------------------------------------------
(* What a request may go on with.                                          *)

LEMMA IdleHeld == Idle \in Held /\ Idle.pc = "idle"
  BY RolesAssumption DEF Idle, Held, NoAccount, Accounts, Patches, Handlers

\* A request that has nothing may be told anything.
LEMMA IdleSound == Sound(Idle, account)
  BY IdleHeld DEF Sound, Acting, Handlers

\* A step that only moves a request to a sound place.
LEMMA Moved ==
    ASSUME SessionsInv, NEW r \in Requests, NEW h \in Held, Hold(r, h),
           Sound(h, account), UNCHANGED <<account, session, issued, expired, history>>
    PROVE  SessionsInv'
<1>1. req \in [Requests -> Held]
  BY DEF SessionsInv, TypeOK
<1>2. req' \in [Requests -> Held] /\ \A q \in Requests : req'[q] \in {req[q], h}
  BY <1>1 DEF Hold
<1>3. TypeOK'
  BY <1>2 DEF SessionsInv, TypeOK, history, overtaken
<1>4. \A q \in Requests : Sound(req'[q], account')
  BY <1>2 DEF SessionsInv, RequestInv
<1>6. /\ SessionRows' /\ AdminLostOnlyByRace'
      /\ SessionIsOfAccount' /\ InactiveHasNoSession'
  BY DEF SessionsInv, SessionRows, AdminLostOnlyByRace, SessionIsOfAccount,
         InactiveHasNoSession, Members, Admin, Exists, history, overtaken
<1> QED
  BY <1>3, <1>4, <1>6 DEF SessionsInv, RequestInv

LEMMA LoginReadInv ==
    ASSUME SessionsInv, NEW r \in Requests, NEW u \in Users,
           NEW old \in issued \union {NoUser}, LoginRead(r, u, old)
    PROVE  SessionsInv'
<1> DEFINE h == [Idle EXCEPT !.pc = "hash", !.user = u, !.token = old,
                             !.seen = account[u]]
<1>1. account[u] \in Accounts /\ old \in Tokens \union {NoUser}
  BY DEF SessionsInv, TypeOK
<1>2. h \in Held
  BY <1>1, IdleHeld DEF Held, Acting
<1>3. h.pc = "hash" /\ h.user = u /\ h.seen = account[u]
  BY DEF Idle
<1>4. Sound(h, account)
  BY <1>3 DEF Sound, Acting, Handlers, LoginRead, Exists
<1> QED
  BY <1>2, <1>4, Moved DEF LoginRead

LEMMA AuthSessionInv ==
    ASSUME SessionsInv, NEW r \in Requests, NEW t \in Tokens,
           NEW op \in Handlers, AuthSession(r, t, op)
    PROVE  SessionsInv'
<1> DEFINE h == [Idle EXCEPT !.pc = "user", !.op = op, !.token = t,
                             !.user = session[t]]
<1>1. session[t] \in Users /\ Exists(session[t])
  BY DEF SessionsInv, TypeOK, SessionRows, AuthSession
<1>2. h \in Held
  BY <1>1, IdleHeld DEF Held
<1>3. h.pc = "user" /\ h.user = session[t] /\ h.token = t
  BY DEF Idle
<1>4. Sound(h, account)
  BY <1>1, <1>3 DEF Sound, Acting, Handlers, Exists
<1> QED
  BY <1>2, <1>4, Moved DEF AuthSession

LEMMA AuthUserInv ==
    ASSUME SessionsInv, NEW r \in Requests, AuthUser(r)
    PROVE  SessionsInv'
<1> DEFINE seen    == account[req[r].user]
           allowed == seen.active /\ (req[r].op = "logout" \/ seen.role = "admin")
           h       == [req[r] EXCEPT !.pc = req[r].op, !.seen = seen]
<1>1. req[r] \in Held /\ Sound(req[r], account) /\ req[r].pc = "user"
  BY DEF SessionsInv, TypeOK, RequestInv, AuthUser, At
<1>2. req[r].user \in Users /\ Exists(req[r].user) /\ req[r].op \in Handlers
  BY <1>1 DEF Sound, Held, Exists
<1>3. seen \in Accounts
  BY <1>2 DEF SessionsInv, TypeOK
<1>4. CASE allowed /\ Hold(r, h)
  <2>1. h \in Held
    BY <1>1, <1>2, <1>3 DEF Held, Acting
  <2>2. /\ h.pc = req[r].op /\ h.user = req[r].user /\ h.seen = seen
        /\ h.token = req[r].token
    BY <1>1 DEF Held
  <2>3. h.token \in Tokens
    BY <1>1, <2>2 DEF Sound
  <2>4. Sound(h, account)
    BY <1>2, <1>4, <2>2, <2>3 DEF Sound, Acting, Handlers, Exists
  <2> QED
    BY <1>4, <2>1, <2>4, Moved DEF AuthUser
<1>5. CASE Return(r)
  BY <1>5, IdleHeld, IdleSound, Moved DEF Return, AuthUser
<1> QED
  BY <1>4, <1>5 DEF AuthUser

LEMMA UpdateReadInv ==
    ASSUME SessionsInv, NEW r \in Requests, NEW u \in Users,
           NEW patch \in Patches, UpdateRead(r, u, patch)
    PROVE  SessionsInv'
<1> DEFINE h == [req[r] EXCEPT !.pc = "patch", !.member = u,
                               !.found = account[u], !.patch = patch]
<1>1. req[r] \in Held /\ Sound(req[r], account) /\ account[u] \in Accounts
  BY DEF SessionsInv, TypeOK, RequestInv
<1>2. h \in Held
  BY <1>1 DEF Held, Acting
<1>3. /\ h.pc = "patch" /\ h.user = req[r].user /\ h.seen = req[r].seen
      /\ h.member = u /\ h.raced = req[r].raced
  BY <1>1 DEF Held
<1>4. Sound(h, account)
  BY <1>1, <1>3 DEF Sound, Acting, Handlers, UpdateRead, At, Exists
<1> QED
  BY <1>2, <1>4, Moved DEF UpdateRead

-----------------------------------------------------------------------------
(* Steps that write.                                                       *)

\* Nobody has read an account that does not exist: creating one keeps what
\* is held, the sessions and the administrators there are.
LEMMA Created ==
    ASSUME SessionsInv, NEW u \in Users, ~Exists(u), NEW role \in Roles,
           account' = [account EXCEPT ![u] = [role |-> role, active |-> TRUE]]
    PROVE  /\ account' \in [Users -> Accounts]
           /\ \A w \in Users : Exists(w) => account'[w] = account[w] /\ w # u
           /\ account'[u] = [role |-> role, active |-> TRUE]
           /\ \A h \in Held : Sound(h, account) => Sound(h, account')
<1>1. account \in [Users -> Accounts]
  BY DEF SessionsInv, TypeOK
<1>2. account' \in [Users -> Accounts]
  BY <1>1 DEF Accounts
<1>3. \A w \in Users : Exists(w) => account'[w] = account[w] /\ w # u
  BY <1>1
<1>4. ASSUME NEW h \in Held, Sound(h, account) PROVE Sound(h, account')
  BY <1>1, <1>3, <1>4 DEF Sound, Exists, Acting, Handlers
<1> QED
  BY <1>1, <1>2, <1>3, <1>4

\* A new session is that of an account that exists and is active.
LEMMA Issued ==
    ASSUME TypeOK, NEW t \in Tokens, NEW u \in Users, NEW old,
           NEW row \in Accounts, Issue(t, u, old, row)
    PROVE  /\ session' \in [Tokens -> Users \union {NoUser}]
           /\ issued' \in SUBSET Tokens
           /\ session'[t] = u /\ t \in issued' /\ issued \subseteq issued'
           /\ \A s \in Tokens \ {t} : session'[s] \in {session[s], NoUser}
           /\ granted' \in [Tokens -> Accounts] /\ granted'[t] = row
           /\ \A s \in Tokens \ {t} : granted'[s] = granted[s]
  BY DEF TypeOK, Issue

LEMMA RegisterInv ==
    ASSUME SessionsInv, NEW u \in Users, NEW t \in Tokens, Register(u, t)
    PROVE  SessionsInv'
<1> DEFINE row == [role |-> "admin", active |-> TRUE]
<1>0. /\ TypeOK /\ ~Exists(u) /\ Issue(t, u, NoUser, row)
      /\ "admin" \in Roles /\ row \in Accounts
  BY RolesAssumption DEF SessionsInv, Register, Members, Accounts
<1>1. account' = [account EXCEPT ![u] = [role |-> "admin", active |-> TRUE]]
  BY DEF Register
<1>2. /\ account' \in [Users -> Accounts]
      /\ \A w \in Users : Exists(w) => account'[w] = account[w] /\ w # u
      /\ account'[u] = [role |-> "admin", active |-> TRUE]
      /\ \A h \in Held : Sound(h, account) => Sound(h, account')
  BY <1>0, <1>1, Created
<1>3. /\ session' \in [Tokens -> Users \union {NoUser}]
      /\ issued' \in SUBSET Tokens
      /\ session'[t] = u /\ t \in issued' /\ issued \subseteq issued'
      /\ \A s \in Tokens \ {t} : session'[s] \in {session[s], NoUser}
      /\ granted' \in [Tokens -> Accounts] /\ granted'[t] = row
      /\ \A s \in Tokens \ {t} : granted'[s] = granted[s]
  BY <1>0, Issued
<1>4. TypeOK'
  BY <1>2, <1>3 DEF SessionsInv, TypeOK, Register, overtaken
<1>5. RequestInv'
  BY <1>2 DEF SessionsInv, TypeOK, RequestInv, Register
<1>6. SessionRows' /\ SessionIsOfAccount' /\ InactiveHasNoSession'
  <2>1. \A s \in Tokens : session'[s] # NoUser =>
           s = t \/ (session'[s] = session[s] /\ s # t)
    BY <1>3
  <2>2. \A s \in Tokens : session[s] # NoUser =>
           session[s] \in Users /\ Exists(session[s])
    BY DEF SessionsInv, TypeOK, SessionRows
  <2>3. SessionRows'
    BY <1>2, <1>3, <2>1, <2>2, RolesAssumption
    DEF SessionsInv, SessionRows, Exists
  <2>4. InactiveHasNoSession'
    BY <1>2, <1>3, <2>1, <2>2
    DEF SessionsInv, InactiveHasNoSession, Register, overtaken
  <2>5. SessionIsOfAccount'
    BY <1>2, <1>3, <2>1, <2>2
    DEF SessionsInv, SessionIsOfAccount, Register, overtaken
  <2> QED
    BY <2>3, <2>4, <2>5
<1>7. AdminLostOnlyByRace'
  <2> SUFFICES ASSUME NEW o \in Orgs \ staleOrgs, Members(o)' # {}
               PROVE  \E w \in Members(o)' : Admin(w)'
    BY DEF AdminLostOnlyByRace, Register, overtaken
  <2>1. CASE o = OrgOf[u]
    <3>1. Admin(u)' /\ Exists(u)'
      BY <1>2 DEF Admin, Exists
    <3>2. u \in Members(o)'
      BY <2>1, <3>1 DEF Members
    <3> QED
      BY <3>1, <3>2
  <2>2. CASE o # OrgOf[u]
    <3>1. PICK v \in Users : OrgOf[v] = o /\ account'[v].role # "none"
      BY DEF Members, Exists
    <3>2. Exists(v)
      BY <1>1, <2>2, <3>1 DEF SessionsInv, TypeOK, Exists
    <3>3. PICK w \in Members(o) : Admin(w)
      BY <3>1, <3>2 DEF SessionsInv, AdminLostOnlyByRace, Members
    <3> QED
      BY <1>2, <3>3 DEF Members, Admin, Exists
  <2> QED
    BY <2>1, <2>2
<1> QED
  BY <1>4, <1>5, <1>6, <1>7 DEF SessionsInv

LEMMA AddMemberInv ==
    ASSUME SessionsInv, NEW r \in Requests, NEW u \in Users,
           NEW role \in Roles, AddMember(r, u, role)
    PROVE  SessionsInv'
<1>0. /\ TypeOK /\ req[r] \in Held /\ Sound(req[r], account)
      /\ req[r].user \in Users /\ Exists(req[r].user)
  BY DEF SessionsInv, TypeOK, RequestInv, AddMember, At, Sound, Exists
<1>1. CASE Exists(u)
  BY <1>1, IdleHeld, IdleSound, Moved DEF AddMember, Return
<1>2. CASE ~Exists(u)
  <2>1. account' = [account EXCEPT ![u] = [role |-> role, active |-> TRUE]]
    BY <1>2 DEF AddMember
  <2>2. /\ account' \in [Users -> Accounts]
        /\ \A w \in Users : Exists(w) => account'[w] = account[w] /\ w # u
        /\ account'[u] = [role |-> role, active |-> TRUE]
        /\ \A h \in Held : Sound(h, account) => Sound(h, account')
    BY <1>2, <2>1, Created
  <2>3. req' \in [Requests -> Held]
        /\ \A q \in Requests : req'[q] \in {req[q], Idle}
    BY IdleHeld DEF SessionsInv, TypeOK, AddMember, Return, Hold
  <2>4. TypeOK'
    BY <1>0, <2>2, <2>3 DEF TypeOK, AddMember, history, overtaken
  <2>5. RequestInv'
    BY <2>2, <2>3, IdleHeld, IdleSound DEF SessionsInv, TypeOK, RequestInv
  <2>6. \A s \in Tokens : session[s] # NoUser =>
           session[s] \in Users /\ Exists(session[s])
    BY DEF SessionsInv, TypeOK, SessionRows
  <2>7. SessionRows' /\ SessionIsOfAccount' /\ InactiveHasNoSession'
    BY <2>2, <2>6
    DEF SessionsInv, SessionRows, SessionIsOfAccount, InactiveHasNoSession,
        Exists, AddMember, history, overtaken
  <2>8. AdminLostOnlyByRace'
    <3> SUFFICES ASSUME NEW o \in Orgs \ staleOrgs, Members(o)' # {}
                 PROVE  \E w \in Members(o)' : Admin(w)'
      BY DEF AdminLostOnlyByRace, AddMember, history, overtaken
    <3>1. Members(o) # {}
      <4>1. PICK v \in Users : OrgOf[v] = o /\ account'[v].role # "none"
        BY DEF Members, Exists
      <4>2. CASE v = u
        BY <1>0, <4>1, <4>2 DEF Members, AddMember
      <4>3. CASE v # u
        BY <1>0, <2>1, <4>1, <4>3 DEF Members, Exists, TypeOK
      <4> QED
        BY <4>2, <4>3
    <3>2. PICK w \in Members(o) : Admin(w)
      BY <3>1 DEF SessionsInv, AdminLostOnlyByRace
    <3> QED
      BY <2>2, <3>2 DEF Members, Admin, Exists
  <2> QED
    BY <2>4, <2>5, <2>7, <2>8 DEF SessionsInv
<1> QED
  BY <1>1, <1>2

\* A login, or a logout: the accounts stay, and rows of sessions go.
LEMMA SessionsChange ==
    ASSUME SessionsInv, NEW r \in Requests, Return(r),
           UNCHANGED <<account, expired, staleOrgs>>,
           session' \in [Tokens -> Users \union {NoUser}],
           issued' \in SUBSET Tokens, staleSessions' \in SUBSET Tokens,
           granted' \in [Tokens -> Accounts],
           SessionRows', SessionIsOfAccount', InactiveHasNoSession'
    PROVE  SessionsInv'
<1>1. req' \in [Requests -> Held]
      /\ \A q \in Requests : req'[q] \in {req[q], Idle}
  BY IdleHeld DEF SessionsInv, TypeOK, Return, Hold
<1>2. TypeOK'
  BY <1>1 DEF SessionsInv, TypeOK
<1>3. RequestInv'
  BY <1>1, IdleSound DEF SessionsInv, RequestInv
<1>4. AdminLostOnlyByRace'
  BY DEF SessionsInv, AdminLostOnlyByRace, Members, Admin, Exists
<1> QED
  BY <1>2, <1>3, <1>4 DEF SessionsInv

LEMMA LoginCommitInv ==
    ASSUME SessionsInv, NEW r \in Requests, NEW t \in Tokens, LoginCommit(r, t)
    PROVE  SessionsInv'
<1> DEFINE u   == req[r].user
           row == req[r].seen
<1>0. /\ TypeOK /\ req[r] \in Held /\ Sound(req[r], account)
      /\ u \in Users /\ Exists(u) /\ row.active
      /\ ~req[r].raced => row = account[u]
  BY DEF SessionsInv, TypeOK, RequestInv, LoginCommit, At, Sound, Exists, Acting
<1>1. Issue(t, u, req[r].token, row) /\ row \in Accounts
  BY <1>0 DEF LoginCommit, Held
<1> HIDE DEF u, row
<1>2. /\ session' \in [Tokens -> Users \union {NoUser}]
      /\ issued' \in SUBSET Tokens
      /\ session'[t] = u /\ t \in issued' /\ issued \subseteq issued'
      /\ \A s \in Tokens \ {t} : session'[s] \in {session[s], NoUser}
      /\ granted' \in [Tokens -> Accounts] /\ granted'[t] = row
      /\ \A s \in Tokens \ {t} : granted'[s] = granted[s]
  BY <1>0, <1>1, Issued
<1>3. /\ staleSessions \subseteq staleSessions'
      /\ req[r].raced => t \in staleSessions'
      /\ staleSessions' \in SUBSET Tokens
  BY <1>0 DEF LoginCommit, TypeOK
<1>4. \A s \in Tokens : session'[s] # NoUser =>
         s = t \/ (session'[s] = session[s] /\ s # t)
  BY <1>2
<1>5. SessionRows'
  BY <1>0, <1>2, <1>4 DEF SessionsInv, SessionRows, Exists, LoginCommit
<1>6. req[r].raced \in BOOLEAN
  BY <1>0 DEF Held
<1>7. InactiveHasNoSession'
  BY <1>0, <1>2, <1>3, <1>4, <1>6
  DEF SessionsInv, InactiveHasNoSession, LoginCommit
<1>8. SessionIsOfAccount'
  BY <1>0, <1>2, <1>3, <1>4, <1>6
  DEF SessionsInv, SessionIsOfAccount, LoginCommit
<1> QED
  BY <1>2, <1>3, <1>5, <1>7, <1>8, SessionsChange DEF LoginCommit

LEMMA LogoutInv ==
    ASSUME SessionsInv, NEW r \in Requests, Logout(r)
    PROVE  SessionsInv'
<1>1. req[r].token \in Tokens
  BY DEF SessionsInv, RequestInv, Sound, Logout, At
<1>2. /\ session' \in [Tokens -> Users \union {NoUser}]
      /\ \A s \in Tokens : session'[s] \in {session[s], NoUser}
  BY <1>1 DEF SessionsInv, TypeOK, Logout
<1>3. SessionRows' /\ SessionIsOfAccount' /\ InactiveHasNoSession'
  BY <1>2 DEF SessionsInv, SessionRows, SessionIsOfAccount, InactiveHasNoSession,
              Exists, Logout, history, overtaken
<1>4. /\ issued' \in SUBSET Tokens /\ staleSessions' \in SUBSET Tokens
      /\ granted' \in [Tokens -> Accounts]
  BY DEF SessionsInv, TypeOK, Logout, history, overtaken
<1> QED
  BY <1>2, <1>3, <1>4, SessionsChange DEF Logout, history, overtaken

\* A request that is refused, or a session that runs out.
LEMMA RefusedInv ==
    ASSUME SessionsInv, NEW r \in Requests, Return(r),
           UNCHANGED <<account, session, issued, expired, history>>
    PROVE  SessionsInv'
  BY IdleHeld, IdleSound, Moved DEF Return

LEMMA ExpireInv ==
    ASSUME SessionsInv, NEW t \in Tokens, Expire(t)
    PROVE  SessionsInv'
<1>1. TypeOK'
  BY DEF SessionsInv, TypeOK, Expire, history, overtaken
<1>2. RequestInv'
  BY DEF SessionsInv, RequestInv, Expire
<1>3. /\ SessionRows' /\ AdminLostOnlyByRace'
      /\ SessionIsOfAccount' /\ InactiveHasNoSession'
  BY DEF SessionsInv, SessionRows, AdminLostOnlyByRace, SessionIsOfAccount,
         InactiveHasNoSession, Members, Admin, Exists, Expire, history, overtaken
<1> QED
  BY <1>1, <1>2, <1>3 DEF SessionsInv

\* What a change of a member by a request writes, and what it relied on.
LEMMA Change ==
    ASSUME SessionsInv, NEW r \in Requests, UpdateCommit(r)
    PROVE  LET u == req[r].user
               m == req[r].member
           IN /\ u \in Users /\ m \in Users /\ u # m /\ OrgOf[u] = OrgOf[m]
              /\ Exists(u) /\ Exists(m)
              /\ ~req[r].raced => Admin(u)
              /\ account' \in [Users -> Accounts]
              /\ account'[m].role # "none"
              /\ \A w \in Users \ {m} : account'[w] = account[w]
<1> DEFINE u == req[r].user
           m == req[r].member
<1>1. /\ TypeOK /\ req[r] \in Held /\ Sound(req[r], account)
      /\ req[r].pc = "patch"
  BY DEF SessionsInv, TypeOK, RequestInv, UpdateCommit, At
<1>2. /\ u \in Users /\ m \in Users \ {u} /\ OrgOf[m] = OrgOf[u]
      /\ Exists(u) /\ Exists(m)
      /\ req[r].seen.role = "admin" /\ req[r].seen.active
      /\ ~req[r].raced => req[r].seen = account[u]
  BY <1>1 DEF Sound, Exists, Acting
<1>3. ~req[r].raced => Admin(u)
  <2>1. account[u] \in Accounts
    BY <1>1, <1>2 DEF TypeOK
  <2> QED
    BY <1>2, <2>1 DEF Admin, Accounts
<1>4. /\ req[r].patch \in Patches /\ req[r].found \in Accounts
      /\ account[m] \in Accounts
  BY <1>1, <1>2 DEF Held, TypeOK
<1>5. Written(r) \in Accounts /\ Written(r).role # "none"
  BY <1>2, <1>4, RolesAssumption DEF Written, Patches, Accounts, Exists
<1>6. account' = [account EXCEPT ![m] = Written(r)]
  BY DEF UpdateCommit
<1>7. /\ account' \in [Users -> Accounts] /\ account'[m] = Written(r)
      /\ \A w \in Users \ {m} : account'[w] = account[w]
  BY <1>1, <1>2, <1>5, <1>6 DEF TypeOK
<1> QED
  BY <1>2, <1>3, <1>5, <1>7

\* A request is told nothing when another one overtakes it, but that its
\* account may be another one by now.
LEMMA Overtaken ==
    ASSUME SessionsInv, NEW m \in Users, NEW q \in Requests,
           account'[m].role # "none",
           \A w \in Users \ {m} : account'[w] = account[w]
    PROVE  LET h == IF req[q].pc \in Acting /\ req[q].user = m
                    THEN [req[q] EXCEPT !.raced = TRUE] ELSE req[q]
           IN h \in Held /\ Sound(h, account')
<1>1. req[q] \in Held /\ Sound(req[q], account)
  BY DEF SessionsInv, TypeOK, RequestInv
<1>2. \A w \in Users : account[w].role # "none" => account'[w].role # "none"
  OBVIOUS
<1>3. CASE req[q].pc \in Acting /\ req[q].user = m
  <2> DEFINE h == [req[q] EXCEPT !.raced = TRUE]
  <2>1. /\ h \in Held /\ h.raced = TRUE /\ h.pc = req[q].pc
        /\ h.user = req[q].user /\ h.seen = req[q].seen
        /\ h.token = req[q].token /\ h.member = req[q].member
    BY <1>1 DEF Held
  <2> HIDE DEF h
  <2>2. Sound(h, account')
    BY <1>1, <1>2, <2>1 DEF Sound
  <2> QED
    BY <1>3, <2>1, <2>2 DEF h
<1>4. CASE ~(req[q].pc \in Acting /\ req[q].user = m)
  <2>1. Sound(req[q], account')
    BY <1>1, <1>2, <1>4 DEF Sound, Acting, Handlers
  <2> QED
    BY <1>1, <1>4, <2>1
<1> QED
  BY <1>3, <1>4

LEMMA UpdateCommitInv ==
    ASSUME SessionsInv, NEW r \in Requests, UpdateCommit(r)
    PROVE  SessionsInv'
<1> DEFINE u == req[r].user
           m == req[r].member
<1>1. /\ u \in Users /\ m \in Users /\ u # m /\ OrgOf[u] = OrgOf[m]
      /\ Exists(u) /\ Exists(m)
      /\ ~req[r].raced => Admin(u)
      /\ account' \in [Users -> Accounts]
      /\ account'[m].role # "none"
      /\ \A w \in Users \ {m} : account'[w] = account[w]
  BY Change
<1>2. /\ req' = [q \in Requests |->
                   IF q = r THEN Idle
                   ELSE IF req[q].pc \in Acting /\ req[q].user = m
                        THEN [req[q] EXCEPT !.raced = TRUE] ELSE req[q]]
      /\ session' = [t \in Tokens |-> IF session[t] = m THEN NoUser
                                                        ELSE session[t]]
      /\ staleOrgs' = staleOrgs \union (IF req[r].raced THEN {OrgOf[u]} ELSE {})
  BY DEF UpdateCommit, Overtake
<1> HIDE DEF u, m
<1>3. \A q \in Requests : req'[q] \in Held /\ Sound(req'[q], account')
  <2> SUFFICES ASSUME NEW q \in Requests
               PROVE  req'[q] \in Held /\ Sound(req'[q], account')
    OBVIOUS
  <2>1. CASE q = r
    <3>1. req'[q] = Idle
      BY <1>2, <2>1
    <3>2. Sound(Idle, account')
      BY IdleHeld DEF Sound, Acting, Handlers
    <3> QED
      BY <3>1, <3>2, IdleHeld
  <2>2. CASE q # r
    BY <1>1, <1>2, <2>2, Overtaken
  <2> QED
    BY <2>1, <2>2
<1>4. TypeOK'
  <2>1. req' \in [Requests -> Held]
    BY <1>2, <1>3
  <2>2. session' \in [Tokens -> Users \union {NoUser}]
    BY <1>2 DEF SessionsInv, TypeOK
  <2>3. staleOrgs' \in SUBSET Orgs
    BY <1>1, <1>2, OrgOfAssumption DEF SessionsInv, TypeOK
  <2> QED
    BY <1>1, <2>1, <2>2, <2>3 DEF SessionsInv, TypeOK, UpdateCommit
<1>5. RequestInv'
  BY <1>3 DEF RequestInv
<1>6. \A t \in Tokens : session'[t] # NoUser =>
         session'[t] = session[t] /\ session[t] \in Users \ {m}
  BY <1>2 DEF SessionsInv, TypeOK
<1>7. SessionRows' /\ SessionIsOfAccount' /\ InactiveHasNoSession'
  BY <1>1, <1>6
  DEF SessionsInv, SessionRows, SessionIsOfAccount, InactiveHasNoSession,
      Exists, UpdateCommit
<1>8. AdminLostOnlyByRace'
  <2> SUFFICES ASSUME NEW o \in Orgs \ staleOrgs', Members(o)' # {}
               PROVE  \E w \in Members(o)' : Admin(w)'
    BY DEF AdminLostOnlyByRace
  <2>1. o \notin staleOrgs /\ Members(o) # {}
    BY <1>1, <1>2 DEF Members, Exists
  <2>2. PICK w \in Members(o) : Admin(w)
    BY <2>1 DEF SessionsInv, AdminLostOnlyByRace
  <2>3. \A v \in Users \ {m} : OrgOf[v] = o /\ Exists(v) /\ Admin(v) =>
           v \in Members(o)' /\ Admin(v)'
    BY <1>1 DEF Members, Exists, Admin
  <2>4. CASE w # m
    BY <2>2, <2>3, <2>4 DEF Members
  <2>5. CASE w = m
    <3>1. OrgOf[u] = o
      BY <1>1, <2>2, <2>5 DEF Members
    <3>2. Admin(u)
      BY <1>1, <1>2, <3>1
    <3> QED
      BY <1>1, <2>3, <3>1, <3>2
  <2> QED
    BY <2>4, <2>5
<1> QED
  BY <1>4, <1>5, <1>7, <1>8 DEF SessionsInv

-----------------------------------------------------------------------------
(* The theorems.                                                           *)

LEMMA InitInv ==
    ASSUME Init PROVE SessionsInv
<1>1. TypeOK
  BY IdleHeld DEF Init, TypeOK, NoAccount, Accounts
<1>2. RequestInv
  BY IdleSound DEF Init, RequestInv
<1>3. /\ SessionRows /\ AdminLostOnlyByRace
      /\ SessionIsOfAccount /\ InactiveHasNoSession
  BY DEF Init, SessionRows, AdminLostOnlyByRace, SessionIsOfAccount,
         InactiveHasNoSession, Members, Exists, NoAccount
<1> QED
  BY <1>1, <1>2, <1>3 DEF SessionsInv

LEMMA NextInv ==
    ASSUME SessionsInv, Next PROVE SessionsInv'
<1>1. ASSUME NEW u \in Users, NEW t \in Tokens, Register(u, t)
      PROVE  SessionsInv'
  BY <1>1, RegisterInv
<1>2. ASSUME NEW t \in Tokens, Expire(t) PROVE SessionsInv'
  BY <1>2, ExpireInv
<1>3. ASSUME NEW r \in Requests, Request(r) PROVE SessionsInv'
  <2>1. ASSUME NEW u \in Users, NEW old \in issued \union {NoUser},
               LoginRead(r, u, old)
        PROVE  SessionsInv'
    BY <2>1, LoginReadInv
  <2>2. ASSUME NEW t \in Tokens, LoginCommit(r, t) PROVE SessionsInv'
    BY <2>2, LoginCommitInv
  <2>3. CASE LoginRefuse(r)
    BY <2>3, RefusedInv DEF LoginRefuse
  <2>4. ASSUME NEW t \in Tokens, NEW op \in Handlers, AuthSession(r, t, op)
        PROVE  SessionsInv'
    BY <2>4, AuthSessionInv
  <2>5. CASE AuthUser(r)
    BY <2>5, AuthUserInv
  <2>6. CASE Logout(r)
    BY <2>6, LogoutInv
  <2>7. ASSUME NEW u \in Users, NEW role \in Roles, AddMember(r, u, role)
        PROVE  SessionsInv'
    BY <2>7, AddMemberInv
  <2>8. ASSUME NEW u \in Users, NEW patch \in Patches, UpdateRead(r, u, patch)
        PROVE  SessionsInv'
    BY <2>8, UpdateReadInv
  <2>9. ASSUME NEW u \in Users, UpdateRefuse(r, u) PROVE SessionsInv'
    BY <2>9, RefusedInv DEF UpdateRefuse
  <2>10. CASE UpdateCommit(r)
    BY <2>10, UpdateCommitInv
  <2> QED
    BY <1>3, <2>1, <2>2, <2>3, <2>4, <2>5, <2>6, <2>7, <2>8, <2>9, <2>10
    DEF Request
<1> QED
  BY <1>1, <1>2, <1>3 DEF Next

\* What requests hold stays sound whatever the requests beside them do
\* (main.py:123-143, 203-262, 668-707).
THEOREM Invariance == Spec => []SessionsInv
<1>1. Init => SessionsInv
  BY InitInv
<1>2. SessionsInv /\ [Next]_vars => SessionsInv'
  <2>1. ASSUME SessionsInv, UNCHANGED vars PROVE SessionsInv'
    BY <2>1
    DEF SessionsInv, TypeOK, RequestInv, Sound, SessionRows,
        AdminLostOnlyByRace, SessionIsOfAccount, InactiveHasNoSession,
        Members, Admin, Exists, vars, history, overtaken
  <2> QED
    BY <2>1, NextInv
<1> QED
  BY <1>1, <1>2, PTL DEF Spec

\* A session ends with every change of its account, but that of a login
\* which had read the account before (issue_session, login and update_member,
\* main.py:161-179, 229-247 and 703-707).
THEOREM SessionsEndWithChange == Spec => []SessionIsOfAccount
<1>1. SessionsInv => SessionIsOfAccount
  BY DEF SessionsInv
<1> QED
  BY <1>1, Invariance, PTL

\* Only an administrator who was demoted meanwhile can take the last
\* administrator from an organization (update_member, main.py:693-707).
THEOREM AdminsStay == Spec => []AdminLostOnlyByRace
<1>1. SessionsInv => AdminLostOnlyByRace
  BY DEF SessionsInv
<1> QED
  BY <1>1, Invariance, PTL

\* Deactivation ends every session but that of a login which had read the
\* account before (login and update_member, main.py:229-247 and 703-707).
THEOREM DeactivationHolds == Spec => []InactiveHasNoSession
<1>1. SessionsInv => InactiveHasNoSession
  BY DEF SessionsInv
<1> QED
  BY <1>1, Invariance, PTL

LEMMA OwnAdminsStep ==
    ASSUME SessionsInv, Next, NEW u \in Users, account'[u] # account[u]
    PROVE  \/ Members(OrgOf[u]) = {}
           \/ \E r \in Requests : /\ req[r].pc \in {"add", "patch"}
                                  /\ req[r].user # u
                                  /\ req[r].seen.role = "admin"
                                  /\ OrgOf[req[r].user] = OrgOf[u]
                                  /\ req'[r].pc = "idle"
<1>0. account \in [Users -> Accounts] /\ req \in [Requests -> Held]
  BY DEF SessionsInv, TypeOK
<1>1. CASE \E w \in Users, t \in Tokens : Register(w, t)
  BY <1>0, <1>1 DEF Register
<1>2. CASE \E r \in Requests, w \in Users, role \in Roles : AddMember(r, w, role)
  <2>1. PICK r \in Requests, w \in Users, role \in Roles : AddMember(r, w, role)
    BY <1>2
  <2>2. u = w /\ ~Exists(u)
    BY <1>0, <2>1 DEF AddMember
  <2>3. /\ req[r].pc = "add" /\ req[r].user \in Users /\ Exists(req[r].user)
        /\ req[r].seen.role = "admin"
    BY <2>1 DEF AddMember, At, SessionsInv, RequestInv, Sound, Exists
  <2>4. req'[r].pc = "idle"
    BY <1>0, <2>1, IdleHeld DEF AddMember, Return, Hold
  <2> QED
    BY <2>1, <2>2, <2>3, <2>4 DEF AddMember
<1>3. CASE \E r \in Requests : UpdateCommit(r)
  <2>1. PICK r \in Requests : UpdateCommit(r)
    BY <1>3
  <2>2. u = req[r].member /\ req[r].user # u /\ OrgOf[req[r].user] = OrgOf[u]
    BY <2>1, Change
  <2>3. req[r].pc = "patch" /\ req[r].seen.role = "admin"
    BY <2>1 DEF UpdateCommit, At, SessionsInv, RequestInv, Sound
  <2>4. req'[r].pc = "idle"
    BY <2>1, IdleHeld DEF UpdateCommit, Overtake
  <2> QED
    BY <2>2, <2>3, <2>4
<1>4. \/ \E w \in Users, t \in Tokens : Register(w, t)
      \/ \E r \in Requests, w \in Users, role \in Roles : AddMember(r, w, role)
      \/ \E r \in Requests : UpdateCommit(r)
      \/ UNCHANGED account
  BY DEF Next, Request, LoginRead, LoginCommit, LoginRefuse, AuthSession,
         AuthUser, Logout, UpdateRead, UpdateRefuse, Expire
<1> QED
  BY <1>1, <1>2, <1>3, <1>4

\* Accounts change by the hand of administrators of their organization, and
\* never by their own (add_member and update_member, main.py:668-707).
THEOREM OwnAdmins == Spec => OnlyOwnAdmins
<1>1. SessionsInv /\ [Next]_vars =>
         [\A u \in Users : account'[u] # account[u] =>
             \/ Members(OrgOf[u]) = {}
             \/ \E r \in Requests : /\ req[r].pc \in {"add", "patch"}
                                    /\ req[r].user # u
                                    /\ req[r].seen.role = "admin"
                                    /\ OrgOf[req[r].user] = OrgOf[u]
                                    /\ req'[r].pc = "idle"]_vars
  BY OwnAdminsStep
<1> QED
  BY <1>1, Invariance, PTL DEF Spec, OnlyOwnAdmins
=============================================================================
