---------------------------- MODULE MembersPage -----------------------------
(***************************************************************************)
(* The page Admin of components/workspace/Workspace.tsx, open for several  *)
(* administrators of one organization, and the member handlers of          *)
(* backend/runtime/main.py.                                                *)
(*                                                                         *)
(* A change sends the row that is shown, with one column replaced.  The    *)
(* list is loaded again when the change has been answered, and by nothing  *)
(* else, so that a row may be older than the account.                      *)
(*                                                                         *)
(* Abstractions.  The rows of the administrators themselves are left out:  *)
(* their controls are disabled.  chosen and outdated are history.          *)
(***************************************************************************)
EXTENDS Naturals

CONSTANTS
    Pages,         \* administrators with the page open
    Members,       \* accounts that may come to exist
    Roles,
    MaxClicks      \* bound: changes asked for

VARIABLES
    account,       \* account[m] : the row of m at the API, "none" its role without one
    shown,         \* shown[p] : members, state of the page
    arriving,       \* arriving[p] : lists on their way to p
    loading,       \* loading[p] : p has asked for the list
    updates,       \* changes on their way to the API
    creating,      \* creating[p] : busy, while a member is being created
    clicks,
    chosen,        \* chosen[m] : what was last chosen for each column of m
    outdated       \* members changed from a row that was not their account

memberVars == <<account, shown, arriving, loading, updates, creating, clicks, chosen, outdated>>

Rows   == [role : Roles \union {"none"}, active : BOOLEAN]
NoRow  == [role |-> "none", active |-> FALSE]
Column == {"role", "active"}

MembersTypeOK ==
    /\ account \in [Members -> Rows] /\ chosen \in [Members -> Rows]
    /\ shown \in [Pages -> [Members -> Rows]]
    /\ arriving \in [Pages -> SUBSET [Members -> Rows]]
    /\ loading \in [Pages -> BOOLEAN]
    /\ updates \in SUBSET [page : Pages, member : Members, column : Column,
                           old : Rows, new : Rows]
    /\ creating \in [Pages -> BOOLEAN]
    /\ clicks \in Nat
    /\ outdated \in SUBSET Members

MembersInit ==
    /\ account \in [Members -> [role : Roles, active : {TRUE}] \union {NoRow}]
    /\ chosen = account
    /\ shown = [p \in Pages |-> [m \in Members |-> NoRow]]
    /\ arriving = [p \in Pages |-> {}]
    /\ loading = [p \in Pages |-> TRUE]
    /\ updates = {} /\ creating = [p \in Pages |-> FALSE]
    /\ clicks = 0 /\ outdated = {}

\* The controls in the row of a member.
RowShown(p, m) == shown[p][m].role # "none"

\* Mutant: the row is put over the column that was changed.
Sent_RowLast(row, column, value) == row

\* The body of a change: the row, and over it the column.
Sent(row, column, value) ==
    IF column = "role" THEN [row EXCEPT !.role = value]
                       ELSE [row EXCEPT !.active = ~@]

\* update, up to its await: another role is selected, or the account is
\* deactivated or activated again.
Click(p, m, column, value) ==
    /\ RowShown(p, m)
    /\ column = "role" => value # shown[p][m].role
    /\ clicks < MaxClicks /\ clicks' = clicks + 1
    /\ updates' = updates \union
          {[page |-> p, member |-> m, column |-> column, old |-> shown[p][m],
            new |-> Sent(shown[p][m], column, value)]}
    /\ UNCHANGED <<account, shown, arriving, loading, creating, chosen, outdated>>

\* update_member: both columns are written.  update then loads the list.
Update(r) ==
    LET wanted == IF r.column = "role" THEN [chosen[r.member] EXCEPT !.role = r.new.role]
                                       ELSE [chosen[r.member] EXCEPT !.active = ~r.old.active]
    IN /\ r \in updates
       /\ updates' = updates \ {r}
       /\ account' = [account EXCEPT ![r.member] = r.new]
       /\ chosen' = [chosen EXCEPT ![r.member] = wanted]
       /\ outdated' = IF r.old = account[r.member] THEN outdated
                      ELSE outdated \union {r.member}
       /\ loading' = [loading EXCEPT ![r.page] = TRUE]
       /\ UNCHANGED <<shown, arriving, creating, clicks>>

\* The request for a change fails: an error is shown, and nothing is loaded.
Lost(r) ==
    /\ r \in updates
    /\ updates' = updates \ {r}
    /\ UNCHANGED <<account, shown, arriving, loading, creating, clicks, chosen, outdated>>

\* create, up to its await: the button is disabled until the answer.
Create(p) ==
    /\ ~creating[p]
    /\ clicks < MaxClicks /\ clicks' = clicks + 1
    /\ creating' = [creating EXCEPT ![p] = TRUE]
    /\ UNCHANGED <<account, shown, arriving, loading, updates, chosen, outdated>>

\* add_member: the account is made unless there is one; create then loads.
Add(p, m, role) ==
    /\ creating[p]
    /\ creating' = [creating EXCEPT ![p] = FALSE]
    /\ IF account[m].role = "none"
       THEN /\ account' = [account EXCEPT ![m] = [role |-> role, active |-> TRUE]]
            /\ chosen' = [chosen EXCEPT ![m] = [role |-> role, active |-> TRUE]]
            /\ loading' = [loading EXCEPT ![p] = TRUE]
       ELSE UNCHANGED <<account, chosen, loading>>
    /\ UNCHANGED <<shown, arriving, updates, clicks, outdated>>

\* members answers a request for the list, which arrives at some time, unless
\* one of the two requests of load fails.
Serve(p) ==
    /\ loading[p]
    /\ loading' = [loading EXCEPT ![p] = FALSE]
    /\ \E got \in {{account}, {}} : arriving' = [arriving EXCEPT ![p] = @ \union got]
    /\ UNCHANGED <<account, shown, updates, creating, clicks, chosen, outdated>>

Loaded(p, list) ==
    /\ list \in arriving[p]
    /\ arriving' = [arriving EXCEPT ![p] = @ \ {list}]
    /\ shown' = [shown EXCEPT ![p] = list]
    /\ UNCHANGED <<account, loading, updates, creating, clicks, chosen, outdated>>

MembersNext ==
    \/ \E p \in Pages, m \in Members, column \in Column, value \in Roles :
          Click(p, m, column, value)
    \/ \E r \in updates : Update(r) \/ Lost(r)
    \/ \E p \in Pages : Create(p) \/ Serve(p) \/ \E list \in arriving[p] : Loaded(p, list)
    \/ \E p \in Pages, m \in Members, role \in Roles : Add(p, m, role)

MembersSpec == MembersInit /\ [][MembersNext]_memberVars

-----------------------------------------------------------------------------
(* What must hold.                                                         *)

\* An account has the role and the access that an administrator last chose
\* for it, unless a change was made from a row that was not the account any
\* more: such a change takes the other column back with it.
ChoicesHold == \A m \in Members \ outdated : account[m] = chosen[m]
=============================================================================
