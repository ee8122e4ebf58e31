----------------------------- MODULE Directory -----------------------------
(***************************************************************************)
(* The user service: users of organizations, and organizations, are made,  *)
(* changed and deleted by requests that run with others.  Each reads first *)
(* and writes later, under Read Committed, and PostgreSQL makes a write    *)
(* wait for another transaction that has written the row.                  *)
(*                                                                         *)
(* A key is the email of a user or the slug of an organization.  Fields    *)
(* that are changed, lists, activity and usage are left out.               *)
(***************************************************************************)
EXTENDS Naturals, FiniteSets

CONSTANTS
    Users,          \* emails, all of one organization
    Slugs,          \* slugs of organizations
    Changers        \* requests

\* An email is not a slug.
ASSUME DirectoryAssumption == Users \intersect Slugs = {}

Keys == Users \union Slugs

VARIABLES
    rows,        \* of each key, how many rows there are, and how many are marked deleted
    writer,      \* the request whose transaction has written a row of the key
    change       \* each request

directoryVars == <<rows, writer, change>>

NoOne == "noone"
NoChange == [op |-> "none", key |-> "none", at |-> "new", answer |-> "none"]

ASSUME NoOneAssumption == NoOne \notin Changers

DirectoryInit ==
    /\ rows = [k \in Keys |-> [there |-> 0, deleted |-> 0]]
    /\ writer = [k \in Keys |-> NoOne]
    /\ change = [c \in Changers |-> NoChange]

Answered(c, answer) == change' = [change EXCEPT ![c].at = "answered", ![c].answer = answer]

---------------------------------------------------------------------------
\* Who asks: the role, and whether it is about the own account or organization.
Askers == [role : {"user", "admin", "super"}, own : BOOLEAN]
MayWithUser(op, by) == by.role # "user" \/ (op = "update" /\ by.own)
MayWithOrganization(op, by) ==
    by.role = "super" \/ (op = "update" /\ by.role = "admin" /\ by.own)

\* A request comes; an administrator is not deleted by himself.
Ask(c) ==
    /\ change[c].at = "new"
    /\ \E k \in Keys, op \in {"create", "update", "delete"}, by \in Askers :
        LET may == IF k \in Users THEN MayWithUser(op, by) ELSE MayWithOrganization(op, by)
            own == op = "delete" /\ by.own
        IN
        /\ op = "delete" => k \in Users
        /\ change' = [change EXCEPT ![c] =
                [op |-> op, key |-> k, at |-> IF may /\ ~own THEN "reading" ELSE "answered",
                 answer |-> IF ~may THEN "403" ELSE IF own THEN "400" ELSE "none"]]
    /\ UNCHANGED <<rows, writer>>

\* get_by_email, get_by_slug or get_by_id, which pass over deleted rows.  An
\* update without a field ends here.
Look(c) ==
    LET there == rows[change[c].key].there > 0 IN
    /\ change[c].at = "reading"
    /\ \/ change[c].op = "create" /\ there /\ Answered(c, "409")
       \/ change[c].op # "create" /\ ~there /\ Answered(c, "404")
       \/ change[c].op = "update" /\ there /\ Answered(c, "ok")
       \/ /\ there <=> change[c].op # "create"
          /\ change' = [change EXCEPT ![c].at = "writing"]
    /\ UNCHANGED <<rows, writer>>

\* INSERT, against the unique index over all rows, and UPDATE of a row that is
\* not deleted.  An update that finds none goes on with no row, to an error.
Clashes(k) == rows[k].there + rows[k].deleted > 0
Gone(k) == rows[k].there = 0
\* Mutant of Write: an update takes a deleted row too.
Write_Deleted(c) ==
    LET k == change[c].key IN
    /\ change[c].at = "writing" /\ writer[k] = NoOne
    /\ \/ change[c].op = "create" /\ Clashes(k) /\ Answered(c, "500") /\ UNCHANGED writer
       \/ change[c].op = "delete" /\ Gone(k) /\ Answered(c, "404") /\ UNCHANGED writer
       \/ /\ IF change[c].op = "create" THEN ~Clashes(k) ELSE change[c].op = "update" \/ ~Gone(k)
          /\ writer' = [writer EXCEPT ![k] = c]
          /\ change' = [change EXCEPT ![c].at = "committing"]
    /\ UNCHANGED rows

Write(c) ==
    LET k == change[c].key IN
    /\ change[c].at = "writing" /\ writer[k] = NoOne
    /\ \/ change[c].op = "create" /\ Clashes(k) /\ Answered(c, "500") /\ UNCHANGED writer
       \/ change[c].op = "update" /\ Gone(k) /\ Answered(c, "500") /\ UNCHANGED writer
       \/ change[c].op = "delete" /\ Gone(k) /\ Answered(c, "404") /\ UNCHANGED writer
       \/ /\ IF change[c].op = "create" THEN ~Clashes(k) ELSE ~Gone(k)
          /\ writer' = [writer EXCEPT ![k] = c]
          /\ change' = [change EXCEPT ![c].at = "committing"]
    /\ UNCHANGED rows

\* The commit, which may fail and roll back.
Finish(c) ==
    LET k == change[c].key IN
    /\ change[c].at = "committing"
    /\ \/ /\ rows' = CASE change[c].op = "create" -> [rows EXCEPT ![k].there = @ + 1]
                       [] change[c].op = "delete" ->
                            [rows EXCEPT ![k] = [there |-> 0, deleted |-> @.deleted + @.there]]
                       [] OTHER -> rows
          /\ Answered(c, "ok")
       \/ Answered(c, "500") /\ UNCHANGED rows
    /\ writer' = [writer EXCEPT ![k] = NoOne]

DirectoryNext == \E c \in Changers : Ask(c) \/ Look(c) \/ Write(c) \/ Finish(c)

---------------------------------------------------------------------------
DirectoryTypeOK ==
    /\ rows \in [Keys -> [there : Nat, deleted : Nat]]
    /\ writer \in [Keys -> Changers \union {NoOne}]
    /\ \A c \in Changers : change[c].at = "committing" <=> \E k \in Keys : writer[k] = c

\* An email and a slug stand in one row, however the checks of two requests and
\* their insertions interleave, and also after a deletion, which keeps the row.
OneRowPerKey == \A k \in Keys : rows[k].there + rows[k].deleted <= 1

\* A change or deletion that is answered with success was made to a row that is
\* there: never to one that a deletion had marked between its read and its write.
\* Of all requests to delete a user one is answered with success.
ChangedWhileThere ==
    [][\A c \in Changers :
        change[c].op # "create" /\ change[c].answer # "ok" /\ change'[c].answer = "ok"
            => rows[change[c].key].there > 0]_directoryVars
=============================================================================
