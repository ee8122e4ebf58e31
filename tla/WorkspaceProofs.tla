--------------------------- MODULE WorkspaceProofs --------------------------
(***************************************************************************)
(* Proofs about the workspace.                                             *)
(*                                                                         *)
(* Chat: a turn that the page has asked for itself shows what it has read  *)
(* of its stream, and a stream tells of a whole answer only when that has  *)
(* been saved; a turn that was loaded shows what was saved.  Documents:    *)
(* the form is busy as long as one of its calls runs, and starts none      *)
(* then.  Members: what an update sends differs from the row that it was   *)
(* made from in its column alone.                                          *)
(***************************************************************************)
EXTENDS Workspace, SequenceTheorems, FiniteSetTheorems, TLAPS

---------------------------------------------------------------------------
(* Members. *)

\* What an update sends and what it was made from differ in its column alone.
UpdateInv(r) ==
    IF r.column = "role" THEN r.new.active = r.old.active
    ELSE r.new.role = r.old.role /\ r.new.active = ~r.old.active

ChangesInv == MembersTypeOK /\ ChoicesHold /\ \A r \in updates : UpdateInv(r)

Updates == [page : Pages, member : Members, column : Column, old : Rows, new : Rows]

\* A column is put into a row.
LEMMA SetColumns ==
    ASSUME NEW row \in Rows, NEW role \in Roles \union {"none"}, NEW access \in BOOLEAN
    PROVE  /\ [row EXCEPT !.role = role] \in Rows
           /\ [row EXCEPT !.role = role].role = role
           /\ [row EXCEPT !.role = role].active = row.active
           /\ [row EXCEPT !.active = access] \in Rows
           /\ [row EXCEPT !.active = access].role = row.role
           /\ [row EXCEPT !.active = access].active = access
  BY DEF Rows

LEMMA NotIsBoolean == ASSUME NEW b \in BOOLEAN PROVE (~b) \in BOOLEAN
  OBVIOUS

\* A row with another role, or with the other access.
LEMMA SentIs ==
    ASSUME NEW old \in Rows, NEW column \in Column, NEW value \in Roles
    PROVE  LET new == Sent(old, column, value)
           IN /\ new \in Rows
              /\ IF column = "role" THEN new.active = old.active
                 ELSE new.role = old.role /\ new.active = ~old.active
<1>1. CASE column = "role"
      BY <1>1 DEF Sent, Rows
<1>2. CASE column # "role"
      <2>1. (~old.active) \in BOOLEAN
            <3>1. old.active \in BOOLEAN
                  BY DEF Rows
            <3> QED BY <3>1, NotIsBoolean, Zenon
      <2>2. Sent(old, column, value) = [old EXCEPT !.active = ~old.active]
            BY <1>2, Zenon DEF Sent
      <2>3. /\ [old EXCEPT !.active = ~old.active] \in Rows
            /\ [old EXCEPT !.active = ~old.active].role = old.role
            /\ [old EXCEPT !.active = ~old.active].active = ~old.active
            BY <2>1, SetColumns, Zenon
      <2> QED BY <1>2, <2>2, <2>3, Zenon
<1> QED BY <1>1, <1>2

\* A row is its role and its access.
LEMMA RowsAreEqual ==
    ASSUME NEW a \in Rows, NEW b \in Rows, a.role = b.role, a.active = b.active PROVE a = b
  BY DEF Rows

LEMMA MembersInitInv == MembersInit => ChangesInv
<1> SUFFICES ASSUME MembersInit PROVE ChangesInv
    OBVIOUS
<1>1. NoRow \in Rows /\ [role : Roles, active : {TRUE}] \subseteq Rows
      BY DEF Rows, NoRow
<1>2. account \in [Members -> Rows] /\ chosen = account
      BY <1>1 DEF MembersInit
<1>3. shown \in [Pages -> [Members -> Rows]]
      BY <1>1 DEF MembersInit
<1>4. arriving \in [Pages -> SUBSET [Members -> Rows]]
      BY DEF MembersInit
<1>5. loading \in [Pages -> BOOLEAN] /\ creating \in [Pages -> BOOLEAN]
      BY DEF MembersInit
<1>6. updates = {} /\ clicks \in Nat /\ outdated = {}
      BY DEF MembersInit
<1> QED BY <1>2, <1>3, <1>4, <1>5, <1>6 DEF ChangesInv, MembersTypeOK, ChoicesHold

LEMMA ClickInv ==
    ASSUME ChangesInv, NEW p \in Pages, NEW m \in Members, NEW column \in Column, NEW value \in Roles,
           Click(p, m, column, value)
    PROVE  ChangesInv'
<1> DEFINE r == [page |-> p, member |-> m, column |-> column, old |-> shown[p][m],
                 new |-> Sent(shown[p][m], column, value)]
<1>1. UNCHANGED <<account, shown, arriving, loading, creating, chosen, outdated>>
      /\ clicks' \in Nat /\ updates' = updates \union {r}
      BY DEF Click, ChangesInv, MembersTypeOK
<1>2. shown[p][m] \in Rows
      BY DEF ChangesInv, MembersTypeOK
<1>3. Sent(shown[p][m], column, value) \in Rows
      BY <1>2, SentIs
<1>4. r \in Updates
      BY <1>2, <1>3 DEF Updates
<1>5. UpdateInv(r)
      BY <1>2, SentIs DEF UpdateInv
<1> HIDE DEF r
<1>6. updates' \in SUBSET Updates /\ \A u \in updates' : UpdateInv(u)
      BY <1>1, <1>4, <1>5 DEF ChangesInv, MembersTypeOK, Updates
<1> QED BY <1>1, <1>6 DEF ChangesInv, MembersTypeOK, ChoicesHold, Updates

LEMMA UpdateStepInv ==
    ASSUME ChangesInv, NEW r \in updates, Update(r)
    PROVE  ChangesInv'
<1> DEFINE m == r.member
           wanted == IF r.column = "role" THEN [chosen[m] EXCEPT !.role = r.new.role]
                                          ELSE [chosen[m] EXCEPT !.active = ~r.old.active]
<1>1. r \in Updates /\ UpdateInv(r) /\ m \in Members /\ r.new \in Rows /\ r.old \in Rows
      BY DEF ChangesInv, MembersTypeOK, Updates
<1>2. /\ updates' = updates \ {r}
      /\ account' = [account EXCEPT ![m] = r.new]
      /\ chosen' = [chosen EXCEPT ![m] = wanted]
      /\ outdated' = IF r.old = account[m] THEN outdated ELSE outdated \union {m}
      /\ loading' = [loading EXCEPT ![r.page] = TRUE]
      /\ UNCHANGED <<shown, arriving, creating, clicks>>
      BY DEF Update
<1>3. wanted \in Rows /\ (r.old = chosen[m] => wanted = r.new)
      <2>1. chosen[m] \in Rows
            BY <1>1 DEF ChangesInv, MembersTypeOK
      <2>2. CASE r.column = "role"
            <3>1. wanted = [chosen[m] EXCEPT !.role = r.new.role] /\ r.new.active = r.old.active
                  BY <1>1, <2>2 DEF UpdateInv
            <3> HIDE DEF wanted
            <3>2. wanted \in Rows /\ wanted.role = r.new.role /\ wanted.active = chosen[m].active
                  BY <1>1, <2>1, <3>1 DEF Rows
            <3> QED BY <1>1, <3>1, <3>2, RowsAreEqual
      <2>3. CASE r.column # "role"
            <3> DEFINE v == ~r.old.active
            <3>1. wanted = [chosen[m] EXCEPT !.active = v]
                  BY <2>3, Zenon
            <3>4. r.new.role = r.old.role /\ r.new.active = v
                  BY <1>1, <2>3, Zenon DEF UpdateInv
            <3>2. v \in BOOLEAN
                  <4>1. r.old.active \in BOOLEAN
                        BY <1>1 DEF Rows
                  <4> QED BY <4>1, NotIsBoolean, Zenon
            <3> HIDE DEF wanted, v
            <3>3. wanted \in Rows /\ wanted.active = v /\ wanted.role = chosen[m].role
                  BY <1>1, <2>1, <3>1, <3>2 DEF Rows
            <3>5. ASSUME r.old = chosen[m] PROVE wanted = r.new
                  <4>1. wanted.role = r.new.role /\ wanted.active = r.new.active
                        BY <3>3, <3>4, <3>5, Zenon
                  <4> QED BY <1>1, <3>3, <4>1, RowsAreEqual, Zenon
            <3> QED BY <3>3, <3>5
      <2> QED BY <2>2, <2>3
<1> HIDE DEF wanted
<1>4. account' \in [Members -> Rows] /\ chosen' \in [Members -> Rows]
      BY <1>1, <1>2, <1>3 DEF ChangesInv, MembersTypeOK
<1>5. loading' \in [Pages -> BOOLEAN]
      BY <1>2 DEF ChangesInv, MembersTypeOK
<1>6. outdated' \subseteq Members /\ outdated \subseteq outdated'
      BY <1>1, <1>2 DEF ChangesInv, MembersTypeOK
<1>7. ASSUME NEW k \in Members \ outdated' PROVE account'[k] = chosen'[k]
      <2>1. account[k] = chosen[k]
            BY <1>6 DEF ChangesInv, ChoicesHold
      <2>2. CASE k # m
            BY <1>1, <1>2, <2>1, <2>2 DEF ChangesInv, MembersTypeOK
      <2>3. CASE k = m
            <3>1. r.old = account[m]
                  BY <1>2, <2>3
            <3> QED BY <1>1, <1>2, <1>3, <2>1, <2>3, <3>1 DEF ChangesInv, MembersTypeOK
      <2> QED BY <2>2, <2>3
<1> QED BY <1>2, <1>4, <1>5, <1>6, <1>7 DEF ChangesInv, MembersTypeOK, ChoicesHold

LEMMA AddInv ==
    ASSUME ChangesInv, NEW p \in Pages, NEW m \in Members, NEW role \in Roles, Add(p, m, role)
    PROVE  ChangesInv'
<1> DEFINE row == [role |-> role, active |-> TRUE]
<1>1. row \in Rows
      BY DEF Rows
<1>2. creating' \in [Pages -> BOOLEAN]
      <2>1. creating' = [creating EXCEPT ![p] = FALSE]
            BY DEF Add
      <2> QED BY <2>1 DEF ChangesInv, MembersTypeOK
<1>3. UNCHANGED <<shown, arriving, updates, clicks, outdated>>
      BY DEF Add
<1>4. \/ UNCHANGED <<account, chosen, loading>>
      \/ /\ account' = [account EXCEPT ![m] = row] /\ chosen' = [chosen EXCEPT ![m] = row]
         /\ loading' = [loading EXCEPT ![p] = TRUE]
      BY Zenon DEF Add
<1> HIDE DEF row
<1>5. loading' = loading \/ loading' = [loading EXCEPT ![p] = TRUE]
      BY <1>4, Zenon
<1>6. loading' \in [Pages -> BOOLEAN]
      BY <1>5 DEF ChangesInv, MembersTypeOK
<1>7. \/ UNCHANGED <<account, chosen>>
      \/ account' = [account EXCEPT ![m] = row] /\ chosen' = [chosen EXCEPT ![m] = row]
      BY <1>4, Zenon
<1>8. account' \in [Members -> Rows] /\ chosen' \in [Members -> Rows] /\ ChoicesHold'
      BY <1>1, <1>3, <1>7 DEF ChangesInv, MembersTypeOK, ChoicesHold
<1> QED BY <1>2, <1>3, <1>6, <1>8 DEF ChangesInv, MembersTypeOK

LEMMA MembersQuietInv ==
    ASSUME ChangesInv, NEW p \in Pages,
           \/ \E r \in updates : Lost(r)
           \/ Create(p) \/ Serve(p) \/ \E list \in arriving[p] : Loaded(p, list)
    PROVE  ChangesInv'
<1>1. UNCHANGED <<account, chosen, outdated>> /\ updates' \subseteq updates
      BY DEF Lost, Create, Serve, Loaded
<1>2. /\ clicks' \in Nat
      /\ loading' = loading \/ loading' = [loading EXCEPT ![p] = FALSE]
      /\ creating' = creating \/ creating' = [creating EXCEPT ![p] = TRUE]
      BY DEF Lost, Create, Serve, Loaded, ChangesInv, MembersTypeOK
<1>6. loading' \in [Pages -> BOOLEAN] /\ creating' \in [Pages -> BOOLEAN]
      BY <1>2 DEF ChangesInv, MembersTypeOK
<1>3. account \in [Members -> Rows]
      BY DEF ChangesInv, MembersTypeOK
<1>4. arriving' \in [Pages -> SUBSET [Members -> Rows]]
      <2>1. CASE UNCHANGED arriving
            BY <2>1 DEF ChangesInv, MembersTypeOK
      <2>2. ASSUME NEW list \in arriving[p], Loaded(p, list) PROVE arriving' \in [Pages -> SUBSET [Members -> Rows]]
            <3>1. arriving' = [arriving EXCEPT ![p] = @ \ {list}]
                  BY <2>2 DEF Loaded
            <3> QED BY <3>1 DEF ChangesInv, MembersTypeOK
      <2>3. CASE Serve(p)
            <3>1. \E got \in {{account}, {}} : arriving' = [arriving EXCEPT ![p] = @ \union got]
                  BY <2>3 DEF Serve
            <3> QED BY <1>3, <3>1 DEF ChangesInv, MembersTypeOK
      <2> QED BY <2>1, <2>2, <2>3 DEF Lost, Create, Loaded
<1>5. shown' \in [Pages -> [Members -> Rows]]
      BY DEF Lost, Create, Serve, Loaded, ChangesInv, MembersTypeOK
<1> QED BY <1>1, <1>2, <1>4, <1>5, <1>6 DEF ChangesInv, MembersTypeOK, ChoicesHold

LEMMA MembersNextInv == ChangesInv /\ [MembersNext]_memberVars => ChangesInv'
<1> SUFFICES ASSUME ChangesInv, [MembersNext]_memberVars PROVE ChangesInv'
    OBVIOUS
<1>1. CASE UNCHANGED memberVars
      BY <1>1 DEF memberVars, ChangesInv, MembersTypeOK, ChoicesHold
<1>2. ASSUME NEW r \in updates, Lost(r) PROVE ChangesInv'
      <2>1. \E p \in Pages : TRUE
            BY DEF ChangesInv, MembersTypeOK
      <2> QED BY <1>2, <2>1, MembersQuietInv
<1> QED BY <1>1, <1>2, ClickInv, UpdateStepInv, AddInv, MembersQuietInv DEF MembersNext

---------------------------------------------------------------------------
(* Documents and Dashboard. *)

Running(l) == uploads[l].pc = "running"
Loop == [pc : {"idle", "running"}, here : BOOLEAN, files : SUBSET Docs, failed : SUBSET Docs]

Here(l) == Running(l) /\ uploads[l].here

\* The form is busy only for a call of upload that this visit has made; and
\* unless an old picker let in another, for each of them, and they are one.
LoopsInv ==
    /\ uploading => \E l \in Loops : Here(l)
    /\ overlap \/ /\ \A l \in Loops : Here(l) => uploading
                  /\ \A k, l \in Loops : Here(k) /\ Here(l) => k = l

UploadsInv == LibTypeOK /\ LoopsInv

LEMMA FiguresAreCounts == ASSUME NEW docs PROVE Figures(docs) \in Counts
<1>1. ASSUME NEW S \in SUBSET Docs PROVE Cardinality(S) \in Nat
      BY LibraryAssumption, FS_Subset, FS_CardinalityType
<1>2. /\ Cardinality({d \in Docs : docs[d] # "none"}) \in Nat
      /\ Cardinality({d \in Docs : docs[d] = "indexed"}) \in Nat
      /\ Cardinality({d \in Docs : docs[d] = "queued"}) \in Nat
      /\ Cardinality({d \in Docs : docs[d] = "failed"}) \in Nat
      BY <1>1
<1> QED BY <1>2 DEF Figures, Counts

LEMMA MoreIsBounded == ASSUME NEW n \in 0..MaxInFlight PROVE More(n) \in 0..MaxInFlight
  BY LibraryAssumption DEF More

LEMMA ActIsTyped == ASSUME LibTypeOK, Act \/ Fail
                    PROVE  used' \in [actions : Nat, changes : Nat, failures : Nat]
  BY DEF LibTypeOK, Act, Fail

\* The types without those of the calls of upload.
RestOK ==
    /\ library \in Library /\ documents \in Library /\ lists \in SUBSET Library
    /\ page \in {"dashboard", "documents"}
    /\ figures \in Counts /\ reports \in SUBSET Counts
    /\ asking \in 0..MaxInFlight /\ counting \in 0..MaxInFlight
    /\ manages \in SUBSET [doc : Docs, kind : {"delete", "reindex"}]
    /\ used \in [actions : Nat, changes : Nat, failures : Nat]

FormOK ==
    /\ uploads \in [Loops -> Loop]
    /\ failures \in SUBSET Docs
    /\ uploading \in BOOLEAN /\ picker \in BOOLEAN /\ overlap \in BOOLEAN

LEMMA TypeIs == LibTypeOK <=> RestOK /\ FormOK
  BY DEF LibTypeOK, RestOK, FormOK, Loop

LEMMA TypeIsNext == RestOK' /\ FormOK' => LibTypeOK'
  BY DEF LibTypeOK, RestOK, FormOK, Loop

LEMMA LibInitInv == LibInit => UploadsInv
<1> SUFFICES ASSUME LibInit PROVE UploadsInv
    OBVIOUS
<1>1. library \in Library /\ documents \in Library /\ lists \in SUBSET Library
      BY DEF LibInit, Library, Statuses
<1>2. figures \in Counts /\ reports \in SUBSET Counts
      BY FiguresAreCounts DEF LibInit
<1>3. asking \in 0..MaxInFlight /\ counting \in 0..MaxInFlight
      BY LibraryAssumption DEF LibInit
<1>4. NoLoop \in Loop
      BY DEF NoLoop, Loop
<1>5. uploads \in [Loops -> Loop]
      BY <1>4 DEF LibInit
<1>6. failures \in SUBSET Docs /\ uploading \in BOOLEAN /\ picker \in BOOLEAN /\ overlap \in BOOLEAN
      BY DEF LibInit
<1>7. page \in {"dashboard", "documents"} /\ manages = {}
      /\ used \in [actions : Nat, changes : Nat, failures : Nat]
      BY DEF LibInit
<1>8. LoopsInv
      <2>1. \A l \in Loops : ~Running(l)
            BY DEF LibInit, Running, NoLoop
      <2>2. ~uploading
            BY DEF LibInit
      <2> QED BY <2>1, <2>2 DEF LoopsInv, Here
<1> QED BY <1>1, <1>2, <1>3, <1>5, <1>6, <1>7, <1>8, TypeIs DEF UploadsInv, RestOK, FormOK

\* Requests, their answers, what others do and the picker start and end no
\* upload.
LEMMA ShellInv ==
    ASSUME UploadsInv,
           \/ Browse \/ Dismiss
           \/ Poll \/ ServeList \/ ServeReport \/ Lose
           \/ \E docs \in lists : Refreshed(docs)
           \/ \E counts \in reports : Reported(counts)
           \/ \E d \in Docs, kind \in {"delete", "reindex"} : Manage(d, kind)
           \/ \E r \in manages : Managed(r)
           \/ \E d \in Docs, status \in Statuses : Elsewhere(d, status)
    PROVE  UploadsInv'
<1> DEFINE Done == UploadsInv'
<1>1. RestOK /\ FormOK /\ LoopsInv
      BY TypeIs DEF UploadsInv
<1>2. ASSUME UNCHANGED <<uploads, uploading, failures, overlap>>, picker' \in BOOLEAN, RestOK' PROVE Done
      <2>1. FormOK'
            BY <1>1, <1>2 DEF FormOK
      <2>2. LoopsInv'
            BY <1>1, <1>2 DEF LoopsInv, Here, Running
      <2> QED BY <1>2, <2>1, <2>2, TypeIsNext DEF UploadsInv
<1>0. picker' = picker => picker' \in BOOLEAN
      BY <1>1 DEF FormOK
<1> HIDE DEF Done
<1>3. ASSUME Poll PROVE Done
      <2>1. RestOK'
            BY <1>1, <1>3, MoreIsBounded DEF Poll, RestOK, board, form
      <2> QED BY <1>0, <1>2, <1>3, <2>1 DEF Poll, form
<1>4. ASSUME ServeList PROVE Done
      <2>1. RestOK'
            BY <1>1, <1>4, LibraryAssumption DEF ServeList, RestOK, board, form
      <2> QED BY <1>0, <1>2, <1>4, <2>1 DEF ServeList, form
<1>5. ASSUME ServeReport PROVE Done
      <2>1. Figures(library) \in Counts
            BY FiguresAreCounts
      <2>2. RestOK'
            BY <1>1, <1>5, <2>1, LibraryAssumption DEF ServeReport, RestOK, shell, form
      <2> QED BY <1>0, <1>2, <1>5, <2>2 DEF ServeReport, form
<1>6. ASSUME Lose PROVE Done
      <2>1. used' \in [actions : Nat, changes : Nat, failures : Nat]
            BY <1>6, ActIsTyped DEF Lose, UploadsInv
      <2>2. RestOK'
            BY <1>1, <1>6, <2>1, LibraryAssumption DEF Lose, RestOK, form
      <2> QED BY <1>0, <1>2, <1>6, <2>2 DEF Lose, form
<1>7. ASSUME NEW docs \in lists, Refreshed(docs) PROVE Done
      <2>1. RestOK'
            BY <1>1, <1>7, MoreIsBounded DEF Refreshed, RestOK, form
      <2> QED BY <1>0, <1>2, <1>7, <2>1 DEF Refreshed, form
<1>8. ASSUME NEW counts \in reports, Reported(counts) PROVE Done
      <2>1. RestOK'
            BY <1>1, <1>8 DEF Reported, RestOK, shell, form
      <2> QED BY <1>0, <1>2, <1>8, <2>1 DEF Reported, form
<1>9. ASSUME NEW d \in Docs, NEW kind \in {"delete", "reindex"}, Manage(d, kind) PROVE Done
      <2>1. used' \in [actions : Nat, changes : Nat, failures : Nat]
            BY <1>9, ActIsTyped DEF Manage, UploadsInv
      <2>2. RestOK'
            BY <1>1, <1>9, <2>1 DEF Manage, RestOK, shell, board
      <2> QED BY <1>0, <1>2, <1>9, <2>2 DEF Manage
<1>10. ASSUME NEW r \in manages, Managed(r) PROVE Done
      <2>1. used' \in [actions : Nat, changes : Nat, failures : Nat]
            BY <1>1, <1>10, ActIsTyped DEF Managed, UploadsInv, RestOK
      <2>2. library' \in Library
            <3> DEFINE v == IF r.kind = "delete" THEN "none" ELSE "queued"
            <3>1. v \in Statuses
                  BY DEF Statuses
            <3>2. library' = library \/ library' = [library EXCEPT ![r.doc] = v]
                  BY <1>10 DEF Managed
            <3> HIDE DEF v
            <3> QED BY <1>1, <3>1, <3>2 DEF RestOK, Library
      <2>3. asking' \in 0..MaxInFlight
            BY <1>1, <1>10, MoreIsBounded DEF Managed, RestOK
      <2>4. RestOK'
            BY <1>1, <1>10, <2>1, <2>2, <2>3 DEF Managed, RestOK, board
      <2> QED BY <1>0, <1>2, <1>10, <2>4 DEF Managed
<1>11. ASSUME NEW d \in Docs, NEW status \in Statuses, Elsewhere(d, status) PROVE Done
      <2>1. used' \in [actions : Nat, changes : Nat, failures : Nat]
            BY <1>1, <1>11 DEF Elsewhere, RestOK
      <2>2. RestOK'
            BY <1>1, <1>11, <2>1 DEF Elsewhere, RestOK, Library, shell, board, form
      <2> QED BY <1>0, <1>2, <1>11, <2>2 DEF Elsewhere, form
<1>13. ASSUME Browse \/ Dismiss PROVE Done
      <2>1. RestOK'
            BY <1>1, <1>13 DEF Browse, Dismiss, RestOK, shell, board
      <2> QED BY <1>2, <1>13, <2>1 DEF Browse, Dismiss
<1>12. Done
      BY <1>13, <1>3, <1>4, <1>5, <1>6, <1>7, <1>8, <1>9, <1>10, <1>11
<1> QED BY <1>12 DEF Done

LEMMA NavigateInv ==
    ASSUME UploadsInv, NEW to \in {"dashboard", "documents"}, Navigate(to)
    PROVE  UploadsInv'
<1>1. RestOK /\ FormOK /\ LoopsInv
      BY TypeIs DEF UploadsInv
<1>2. RestOK'
      <2>1. used' \in [actions : Nat, changes : Nat, failures : Nat]
            BY ActIsTyped DEF Navigate, UploadsInv
      <2>2. figures' \in Counts
            BY FiguresAreCounts DEF Navigate
      <2>3. counting' \in 0..MaxInFlight
            BY LibraryAssumption DEF Navigate
      <2> QED BY <1>1, <2>1, <2>2, <2>3 DEF Navigate, RestOK, shell
<1>3. /\ uploads' \in [Loops -> Loop]
      /\ \A l \in Loops : ~uploads'[l].here
      <2>1. ASSUME NEW l \in Loops
            PROVE  [uploads[l] EXCEPT !.here = FALSE] \in Loop
                   /\ ~[uploads[l] EXCEPT !.here = FALSE].here
            <3>1. ASSUME NEW n \in Loop
                  PROVE  [n EXCEPT !.here = FALSE] \in Loop /\ ~[n EXCEPT !.here = FALSE].here
                  BY DEF Loop
            <3> QED BY <1>1, <3>1, Zenon DEF FormOK
      <2> QED BY <2>1 DEF Navigate
<1>4. /\ ~uploading' /\ failures' = {}
      /\ {uploading', picker', overlap'} \subseteq BOOLEAN
      BY DEF Navigate
<1>6. FormOK'
      BY <1>3, <1>4 DEF FormOK
<1>7. LoopsInv'
      BY <1>3, <1>4 DEF LoopsInv, Here
<1> QED BY <1>2, <1>6, <1>7, TypeIsNext DEF UploadsInv

\* Files are chosen or dropped.
LEMMA ChooseInv ==
    ASSUME UploadsInv, NEW l \in Loops, Choose(l) \/ Drop(l)
    PROVE  UploadsInv'
<1>1. RestOK /\ FormOK /\ LoopsInv
      BY TypeIs DEF UploadsInv
<1>2. PICK files \in SUBSET Fresh : Upload(l, files)
      BY DEF Choose, Drop
<1> DEFINE n == [pc |-> "running", here |-> TRUE, files |-> files, failed |-> {}]
<1>3. n \in Loop /\ n.pc = "running" /\ n.here
      BY DEF Fresh, Loop
<1>4. uploads' = [uploads EXCEPT ![l] = n] /\ failures' = {}
      BY <1>2 DEF Upload
<1>5. /\ uploading' /\ uploading' \in BOOLEAN
      /\ picker' \in BOOLEAN /\ overlap' \in BOOLEAN
      BY <1>1, <1>2 DEF Upload, Choose, Drop, FormOK
<1>6. RestOK'
      <2>1. used' \in [actions : Nat, changes : Nat, failures : Nat]
            BY <1>2, ActIsTyped DEF Upload, UploadsInv
      <2> QED BY <1>1, <1>2, <2>1 DEF Upload, RestOK, shell, board
<1> HIDE DEF n
<1>7. uploads' \in [Loops -> Loop] /\ uploads'[l] = n /\ \A k \in Loops \ {l} : uploads'[k] = uploads[k]
      BY <1>1, <1>3, <1>4 DEF FormOK
<1>8. FormOK'
      BY <1>1, <1>4, <1>5, <1>7 DEF FormOK
<1>9. LoopsInv'
      <2>1. Here(l)'
            BY <1>3, <1>7 DEF Here, Running
      <2>2. CASE overlap'
            BY <2>1, <2>2 DEF LoopsInv
      <2>3. CASE ~overlap'
            <3>1. \A k \in Loops : ~Here(k)
                  <4>1. CASE Choose(l)
                        BY <2>3, <4>1 DEF Choose, Uploading, Here, Running
                  <4>2. CASE Drop(l)
                        BY <1>1, <2>3, <4>2 DEF Drop, LoopsInv
                  <4> QED BY <4>1, <4>2
            <3>2. \A k \in Loops : Here(k)' => k = l
                  BY <1>7, <3>1 DEF Here, Running
            <3> QED BY <1>5, <2>1, <3>2 DEF LoopsInv
      <2> QED BY <2>2, <2>3
<1> QED BY <1>6, <1>8, <1>9, TypeIsNext DEF UploadsInv

LEMMA SendInv ==
    ASSUME UploadsInv, NEW l \in Loops, NEW d \in Docs, Send(l, d)
    PROVE  UploadsInv'
<1>1. RestOK /\ FormOK /\ LoopsInv /\ uploads[l] \in Loop
      BY TypeIs DEF UploadsInv, FormOK
<1>2. RestOK'
      <2>1. used' \in [actions : Nat, changes : Nat, failures : Nat]
            BY <1>1, ActIsTyped DEF Send, UploadsInv, RestOK
      <2>2. library' \in Library
            BY <1>1 DEF Send, RestOK, Library, Statuses
      <2> QED BY <1>1, <2>1, <2>2 DEF Send, RestOK, shell, board
<1>3. \E n \in Loop : /\ uploads' = [uploads EXCEPT ![l] = n]
                      /\ n.pc = uploads[l].pc /\ n.here = uploads[l].here
      <2>1. ASSUME NEW u \in Loop
            PROVE  /\ [u EXCEPT !.files = @ \ {d}] \in Loop
                   /\ [u EXCEPT !.files = @ \ {d}].pc = u.pc
                   /\ [u EXCEPT !.files = @ \ {d}].here = u.here
                   /\ [u EXCEPT !.files = @ \ {d}, !.failed = @ \union {d}] \in Loop
                   /\ [u EXCEPT !.files = @ \ {d}, !.failed = @ \union {d}].pc = u.pc
                   /\ [u EXCEPT !.files = @ \ {d}, !.failed = @ \union {d}].here = u.here
            BY <2>1 DEF Loop
      <2>2. \/ uploads' = [uploads EXCEPT ![l] = [uploads[l] EXCEPT !.files = @ \ {d}]]
            \/ uploads' = [uploads EXCEPT ![l] = [uploads[l] EXCEPT !.files = @ \ {d}, !.failed = @ \union {d}]]
            BY DEF Send
      <2> QED BY <1>1, <2>1, <2>2, Zenon
<1>4. PICK n \in Loop : uploads' = [uploads EXCEPT ![l] = n] /\ n.pc = uploads[l].pc /\ n.here = uploads[l].here
      BY <1>3
<1>5. /\ uploads' \in [Loops -> Loop]
      /\ \A k \in Loops : uploads'[k].pc = uploads[k].pc /\ uploads'[k].here = uploads[k].here
      BY <1>1, <1>4 DEF FormOK
<1>6. UNCHANGED <<uploading, failures, picker, overlap>>
      BY DEF Send
<1>7. FormOK'
      BY <1>1, <1>5, <1>6 DEF FormOK
<1>8. LoopsInv'
      BY <1>1, <1>5, <1>6 DEF LoopsInv, Here, Running
<1> QED BY <1>2, <1>7, <1>8, TypeIsNext DEF UploadsInv

LEMMA UploadedInv ==
    ASSUME UploadsInv, NEW l \in Loops, Uploaded(l)
    PROVE  UploadsInv'
<1>1. RestOK /\ FormOK /\ LoopsInv /\ uploads[l] \in Loop
      BY TypeIs DEF UploadsInv, FormOK
<1>2. RestOK'
      BY <1>1, MoreIsBounded DEF Uploaded, RestOK, board
<1>3. /\ uploads' \in [Loops -> Loop] /\ uploads'[l].pc = "idle"
      /\ \A k \in Loops \ {l} : uploads'[k] = uploads[k]
      <2> DEFINE n == NoLoop
      <2>1. n \in Loop /\ n.pc = "idle"
            BY DEF NoLoop, Loop
      <2>2. uploads' = [uploads EXCEPT ![l] = n]
            BY DEF Uploaded
      <2> HIDE DEF n
      <2> QED BY <1>1, <2>1, <2>2 DEF FormOK
<1>4. /\ overlap' = (overlap /\ Uploading \ {l} # {})
      /\ overlap' \in BOOLEAN /\ UNCHANGED picker
      BY DEF Uploaded
<1>5. failures' \in SUBSET Docs
      BY <1>1 DEF Uploaded, FormOK, Loop
<1>6. uploading' \in BOOLEAN
      BY <1>1 DEF Uploaded, FormOK
<1>7. FormOK'
      BY <1>1, <1>3, <1>4, <1>5, <1>6 DEF FormOK
<1>8. LoopsInv'
      <2>1. \A k \in Loops : Here(k)' <=> Here(k) /\ k # l
            BY <1>3 DEF Here, Running
      <2>2. uploading' => uploading /\ ~Here(l)
            BY DEF Uploaded, Here
      <2>3. uploading' => \E k \in Loops : Here(k)'
            BY <1>1, <2>1, <2>2 DEF LoopsInv
      <2>4. ASSUME ~overlap', NEW k \in Loops, Here(k)' PROVE ~overlap /\ uploading'
            <3>1. k \in Uploading \ {l}
                  BY <2>1, <2>4 DEF Here, Running, Uploading
            <3>2. ~overlap
                  BY <1>4, <2>4, <3>1
            <3>3. uploading /\ ~Here(l)
                  BY <1>1, <2>1, <2>4, <3>2 DEF LoopsInv
            <3> QED BY <3>2, <3>3 DEF Uploaded, Here, Running
      <2>5. ASSUME ~overlap', NEW j \in Loops, NEW k \in Loops, Here(j)', Here(k)'
            PROVE  j = k
            BY <1>1, <2>1, <2>4, <2>5 DEF LoopsInv
      <2> QED BY <2>3, <2>4, <2>5 DEF LoopsInv
<1> QED BY <1>2, <1>7, <1>8, TypeIsNext DEF UploadsInv

LEMMA LibNextInv == UploadsInv /\ [LibNext]_libVars => UploadsInv'
<1> SUFFICES ASSUME UploadsInv, [LibNext]_libVars PROVE UploadsInv'
    OBVIOUS
<1>1. CASE UNCHANGED libVars
      BY <1>1 DEF libVars, shell, board, form, UploadsInv, LibTypeOK, LoopsInv, Here, Running
<1> QED BY <1>1, ShellInv, NavigateInv, ChooseInv, SendInv, UploadedInv DEF LibNext, Answers

LEMMA FormPromises == UploadsInv => FormIsFreed
<1> SUFFICES ASSUME UploadsInv PROVE FormIsFreed
    OBVIOUS
<1>1. LoopsInv /\ Uploading = {l \in Loops : Here(l)}
      BY DEF UploadsInv, Uploading, Here, Running
<1>2. uploading => Uploading # {}
      BY <1>1 DEF LoopsInv
<1>3. ASSUME ~overlap
      PROVE  Cardinality(Uploading) <= 1 /\ (Uploading # {} => uploading)
      <2>1. CASE Uploading = {}
            BY <2>1, FS_EmptySet
      <2>2. ASSUME NEW l \in Loops, Here(l) PROVE Cardinality(Uploading) <= 1 /\ uploading
            <3>1. Uploading = {l} /\ uploading
                  BY <1>1, <1>3, <2>2 DEF LoopsInv
            <3>2. Cardinality({l}) = 1
                  BY FS_Singleton
            <3> QED BY <3>1, <3>2
      <2> QED BY <1>1, <2>1, <2>2
<1> QED BY <1>2, <1>3 DEF FormIsFreed

---------------------------------------------------------------------------
(* Chat. *)

HasRow(c, q) == \E i \in DOMAIN saved[c].rows : saved[c].rows[i] = q

\* The stream of an answer ends with its last event, and only once the answer
\* has; a done event of a whole answer tells what was saved, if it could be.
AnswerInv(q) ==
    LET a == answers[q] IN
    /\ a.state = "none" => a = NoAnswer
    /\ a.status = "completed" => a.state = "ended"
    /\ Parts(a.wire) <= MaxParts
    /\ \A i \in DOMAIN a.wire : a.wire[i] \in Final => i = Len(a.wire) /\ a.state = "ended"
    /\ \A i \in DOMAIN a.wire :
          a.wire[i] = "completed" =>
              \/ a.status = "completed" /\ a.parts = Parts(a.wire)
              \/ \A c \in Convs : ~HasRow(c, q)
    /\ q \notin spent.asked => a.state = "none"

Asking == {"creating", "created", "rejected"}

\* Where a submission stands.
SubmissionInv ==
    /\ submission.pc # "idle" => submission.q \in spent.asked
    /\ submission.pc \in Asking \union {"posting"} => answers[submission.q] = NoAnswer
    /\ submission.pc = "posting" => submission.handled = 0
    /\ submission.pc \in Fetching \union {"created"} => submission.conv \in Convs
    /\ submission.handled <= Len(answers[submission.q].wire)

\* What is selected, or asked in, exists or has existed.
ExistsInv ==
    /\ active # NoConv => Listed(active)
    /\ submission.conv # NoConv => Listed(submission.conv)

\* A turn that the page has asked for shows what it has read of its stream.
MineInv(t) ==
    /\ t.q \in spent.asked /\ Listed(t.conv)
    /\ t.status = "completed" =>
        /\ \E i \in DOMAIN answers[t.q].wire : answers[t.q].wire[i] = "completed"
        /\ t.parts = Parts(answers[t.q].wire)
    /\ answers[t.q].state # "none" /\ saved[t.conv].state = "open" => HasRow(t.conv, t.q)
    /\ submission.pc # "idle" /\ submission.q = t.q =>
        /\ submission.pc \in Fetching
        /\ t.conv = submission.conv
        /\ t.parts = PartsOf(answers[t.q].wire, 1, submission.handled)

\* One that was loaded shows what was saved.
LoadedInv(t) ==
    t.status = "completed" =>
        answers[t.q].status = "completed" /\ t.parts = answers[t.q].parts

TurnInv(t) == IF t.mine THEN MineInv(t) ELSE LoadedInv(t)

TurnsInv == \A t \in ToSet(messages) : TurnInv(t)
LoadsInv == \A r \in loads : \A t \in ToSet(r.turns) : t.conv = r.conv /\ ~t.mine /\ LoadedInv(t)

ChatInv ==
    /\ ChatTypeOK
    /\ \A q \in Questions : AnswerInv(q)
    /\ SubmissionInv /\ ExistsInv /\ TurnsInv /\ LoadsInv
    /\ ShowsSelected

Submission == [pc : {"idle", "creating", "created", "rejected"} \union Fetching, q : Questions,
               conv : Convs \union {NoConv}, aborted : BOOLEAN, handled : Nat]
Load    == [version : Nat, conv : Convs, state : {"sent", "ok", "failed"}, turns : Seq(Turn)]
Removal == [conv : Convs, wasActive : BOOLEAN, state : {"sent", "ok", "failed"}]

---------------------------------------------------------------------------
(* Turns as a set. *)

LEMMA AppendedIsIn ==
    ASSUME NEW T, NEW s \in Seq(T), NEW e \in T
    PROVE  Append(s, e) \in Seq(T) /\ ToSet(Append(s, e)) = ToSet(s) \union {e}
<1> DEFINE t == Append(s, e)
<1>1. /\ t \in Seq(T) /\ Len(t) = Len(s) + 1 /\ t[Len(s) + 1] = e
      /\ \A i \in 1..Len(s) : t[i] = s[i]
      OBVIOUS
<1> HIDE DEF t
<1>2. DOMAIN s = 1..Len(s) /\ DOMAIN t = 1..(Len(s) + 1) /\ Len(s) \in Nat
      BY <1>1, LenProperties
<1>3. \A i \in DOMAIN t : i \in DOMAIN s \/ i = Len(s) + 1
      BY <1>2
<1>4. ToSet(t) \subseteq ToSet(s) \union {e}
      BY <1>1, <1>2, <1>3 DEF ToSet
<1>5. \A i \in DOMAIN s : i \in DOMAIN t /\ t[i] = s[i]
      BY <1>1, <1>2
<1>6. ToSet(s) \union {e} \subseteq ToSet(t)
      BY <1>1, <1>2, <1>5 DEF ToSet
<1>7. t \in Seq(T) /\ ToSet(t) = ToSet(s) \union {e}
      BY <1>1, <1>4, <1>6
<1> QED BY <1>7 DEF t

LEMMA NothingIsIn == ToSet(<<>>) = {}
  BY DEF ToSet

LEMMA OneIsIn == ASSUME NEW T, NEW e \in T PROVE <<e>> \in Seq(T) /\ ToSet(<<e>>) = {e}
<1>1. <<e>> \in Seq(T) /\ DOMAIN <<e>> = {1} /\ <<e>>[1] = e
      OBVIOUS
<1> QED BY <1>1 DEF ToSet

LEMMA InIsTyped == ASSUME NEW T, NEW s \in Seq(T) PROVE ToSet(s) \subseteq T
  BY ElementOfSeq, LenProperties DEF ToSet

\* A sequence changed element by element.
LEMMA MappedIsSeq ==
    ASSUME NEW T, NEW s \in Seq(T), NEW U, NEW u \in [DOMAIN s -> U]
    PROVE  u \in Seq(U)
<1>1. DOMAIN s = 1..Len(s) /\ Len(s) \in Nat
      BY LenProperties
<1>2. u \in [1..Len(s) -> U]
      BY <1>1
<1> QED BY <1>1, <1>2, SeqDef

---------------------------------------------------------------------------
(* Counts of parts. *)

LEMMA PartsAreCounted ==
    ASSUME NEW wire, NEW from \in Nat, NEW to \in Nat
    PROVE  /\ IsFiniteSet({i \in from..to : wire[i] = "part"})
           /\ PartsOf(wire, from, to) \in Nat
<1>1. IsFiniteSet(from..to)
      BY FS_Interval
<1>2. IsFiniteSet({i \in from..to : wire[i] = "part"})
      BY <1>1, FS_Subset
<1> QED BY <1>2, FS_CardinalityType DEF PartsOf

LEMMA PartsAdd ==
    ASSUME NEW wire, NEW a \in Nat, NEW b \in Nat, NEW c \in Nat, a <= b, b <= c
    PROVE  PartsOf(wire, a + 1, c) = PartsOf(wire, a + 1, b) + PartsOf(wire, b + 1, c)
<1> DEFINE left == {i \in a + 1..b : wire[i] = "part"}
           right == {i \in b + 1..c : wire[i] = "part"}
           all == {i \in a + 1..c : wire[i] = "part"}
<1>1. all = left \union right
      OBVIOUS
<1>2. left \intersect right = {}
      OBVIOUS
<1>3. IsFiniteSet(left) /\ IsFiniteSet(right)
      BY PartsAreCounted
<1>4. Cardinality(left) \in Nat /\ Cardinality(right) \in Nat
      BY <1>3, FS_CardinalityType
<1> HIDE DEF left, right, all
<1>5. Cardinality(all) = Cardinality(left) + Cardinality(right) - 0
      BY <1>1, <1>2, <1>3, FS_Union, FS_EmptySet
<1>6. Cardinality(all) = Cardinality(left) + Cardinality(right)
      BY <1>4, <1>5
<1> QED BY <1>6 DEF PartsOf, left, right, all

\* What follows the first parts.
LEMMA PartsSplit ==
    ASSUME NEW wire, NEW b \in Nat, NEW c \in Nat, b <= c
    PROVE  PartsOf(wire, 1, c) = PartsOf(wire, 1, b) + PartsOf(wire, b + 1, c)
<1>1. 0 \in Nat /\ 0 <= b
      OBVIOUS
<1>2. PartsOf(wire, 0 + 1, c) = PartsOf(wire, 0 + 1, b) + PartsOf(wire, b + 1, c)
      BY <1>1, PartsAdd
<1>3. 0 + 1 = 1
      OBVIOUS
<1> QED BY <1>2, <1>3

LEMMA NoParts == ASSUME NEW wire, NEW from, NEW to,
                        \A i \in from..to : wire[i] # "part"
                 PROVE  PartsOf(wire, from, to) = 0
<1>1. {i \in from..to : wire[i] = "part"} = {}
      OBVIOUS
<1> QED BY <1>1, FS_EmptySet DEF PartsOf

\* What was counted stays when events come in.
LEMMA PartsStay ==
    ASSUME NEW w \in Seq(Event), NEW x \in Seq(Event), NEW k \in 0..Len(w)
    PROVE  PartsOf(w \o x, 1, k) = PartsOf(w, 1, k)
<1> DEFINE v == w \o x
<1>1. \A i \in 1..k : v[i] = w[i]
      <2>1. Len(w) \in Nat /\ Len(x) \in Nat
            BY LenProperties
      <2>2. \A i \in 1..(Len(w) + Len(x)) : v[i] = IF i <= Len(w) THEN w[i] ELSE x[i - Len(w)]
            BY ConcatProperties
      <2> HIDE DEF v
      <2> QED BY <2>1, <2>2
<1> HIDE DEF v
<1>2. {i \in 1..k : v[i] = "part"} = {i \in 1..k : w[i] = "part"}
      BY <1>1
<1> QED BY <1>2 DEF PartsOf, v

LEMMA PartsGrow ==
    ASSUME NEW w \in Seq(Event), NEW x \in Seq(Event)
    PROVE  /\ w \o x \in Seq(Event) /\ Len(w \o x) = Len(w) + Len(x)
           /\ \A i \in 1..Len(w) : (w \o x)[i] = w[i]
           /\ \A i \in 1..Len(x) : (w \o x)[Len(w) + i] = x[i]
           /\ Parts(w \o x) = Parts(w) + PartsOf(w \o x, Len(w) + 1, Len(w) + Len(x))
<1> DEFINE v == w \o x
<1>1. Len(w) \in Nat /\ Len(x) \in Nat
      BY LenProperties
<1>2. /\ v \in Seq(Event) /\ Len(v) = Len(w) + Len(x)
      /\ \A i \in 1..(Len(w) + Len(x)) : v[i] = IF i <= Len(w) THEN w[i] ELSE x[i - Len(w)]
      BY ConcatProperties
<1>3. PartsOf(v, 1, Len(w)) = PartsOf(w, 1, Len(w))
      BY <1>1, PartsStay
<1> HIDE DEF v
<1>4. \A i \in 1..Len(w) : v[i] = w[i]
      BY <1>1, <1>2
<1>5. ASSUME NEW i \in 1..Len(x) PROVE v[Len(w) + i] = x[i]
      <2>1. Len(w) + i \in 1..(Len(w) + Len(x)) /\ ~(Len(w) + i <= Len(w)) /\ (Len(w) + i) - Len(w) = i
            BY <1>1
      <2> QED BY <1>2, <2>1
<1>6. PartsOf(v, 1, Len(v)) = PartsOf(v, 1, Len(w)) + PartsOf(v, Len(w) + 1, Len(v))
      <2>1. Len(w) <= Len(v) /\ Len(v) \in Nat
            BY <1>1, <1>2
      <2> QED BY <1>1, <2>1, PartsSplit
<1>7. Parts(v) = Parts(w) + PartsOf(v, Len(w) + 1, Len(w) + Len(x))
      BY <1>2, <1>3, <1>6 DEF Parts
<1> QED BY <1>2, <1>4, <1>5, <1>7 DEF v

---------------------------------------------------------------------------
(* Types. *)

\* The types of the page, those of the API, and those of what is between them.
PageOK ==
    /\ mounted \in BOOLEAN /\ busy \in BOOLEAN /\ error \in BOOLEAN /\ lost \in BOOLEAN
    /\ active \in Convs \union {NoConv}
    /\ messages \in Seq(Turn)
    /\ loadVersion \in Nat
ApiOK == saved \in [Convs -> Conv] /\ answers \in [Questions -> Answer]
SentOK ==
    /\ submission \in Submission
    /\ loads \in SUBSET Load
    /\ removals \in SUBSET Removal
    /\ spent \in [events : Nat, asked : SUBSET Questions]

LEMMA ChatTypesAre == ChatTypeOK <=> PageOK /\ ApiOK /\ SentOK
  BY DEF ChatTypeOK, PageOK, ApiOK, SentOK, Submission, Load, Removal

LEMMA ChatTypesAreNext == PageOK' /\ ApiOK' /\ SentOK' => ChatTypeOK'
  BY DEF ChatTypeOK, PageOK, ApiOK, SentOK, Submission, Load, Removal

LEMMA NoSubmissionIs ==
    /\ NoSubmission \in Submission /\ NoSubmission.pc = "idle" /\ NoSubmission.conv = NoConv
    /\ NoSubmission.handled = 0 /\ NoSubmission.q \in Questions
<1>1. (CHOOSE q \in Questions : TRUE) \in Questions
      BY QuestionAssumption
<1> DEFINE some == CHOOSE q \in Questions : TRUE
<1> HIDE DEF some
<1>2. [pc |-> "idle", q |-> some, conv |-> NoConv, aborted |-> FALSE, handled |-> 0] \in Submission
      BY <1>1 DEF some, Submission
<1> QED BY <1>1, <1>2 DEF NoSubmission, some

LEMMA NoAnswerIs ==
    /\ NoAnswer \in Answer /\ NoAnswer.state = "none" /\ NoAnswer.status = "generating"
    /\ NoAnswer.wire = <<>> /\ NoAnswer.parts = 0
<1>1. <<>> \in Seq(Event)
      BY EmptySeq
<1>2. 0 \in 0..MaxParts
      BY QuestionAssumption
<1> QED BY <1>1, <1>2 DEF NoAnswer, Answer, Status

LEMMA NoPartsInNothing == Parts(<<>>) = 0
<1>1. Len(<<>>) = 0 /\ \A i \in 1..0 : FALSE
      BY EmptySeq
<1> QED BY <1>1, NoParts DEF Parts

LEMMA EarlierRows == SetToSeq(Earlier) \in Seq(Questions)
<1> DEFINE n == Cardinality(Earlier)
<1>1. n \in Nat /\ IsFiniteSet(Earlier)
      BY EarlierAssumption, FS_CardinalityType
<1>2. \E f \in [1..n -> Earlier] : IsInjective(f)
      <2>1. ExistsBijection(1..n, Earlier)
            BY <1>1, FS_CardinalityType
      <2>2. PICK f \in Bijection(1..n, Earlier) : TRUE
            BY <2>1 DEF ExistsBijection
      <2>3. f \in [1..n -> Earlier] /\ \A i, j \in 1..n : f[i] = f[j] => i = j
            BY <2>2 DEF Bijection, Injection, Surjection, IsInjective
      <2> QED BY <2>3 DEF IsInjective
<1>3. SetToSeq(Earlier) \in [1..n -> Earlier]
      BY <1>2 DEF SetToSeq
<1>4. SetToSeq(Earlier) \in [1..n -> Questions]
      BY <1>3, EarlierAssumption
<1> QED BY <1>1, <1>4, SeqDef

LEMMA ChatInitInv == ChatInit => ChatInv
<1> SUFFICES ASSUME ChatInit PROVE ChatInv
    OBVIOUS
<1>1. PageOK
      <2>1. mounted \in BOOLEAN /\ busy \in BOOLEAN
            BY DEF ChatInit
      <2>2. error \in BOOLEAN /\ lost \in BOOLEAN
            BY DEF ChatInit
      <2>3. active = NoConv /\ messages = <<>> /\ loadVersion = 0
            BY DEF ChatInit
      <2> QED BY <2>1, <2>2, <2>3, EmptySeq DEF PageOK
<1>2. saved \in [Convs -> Conv]
      <2>1. PICK some \in SUBSET Convs :
              saved = [c \in Convs |->
                         [state |-> IF c \in some \union {First} THEN "open" ELSE "none",
                          rows  |-> IF c = First THEN SetToSeq(Earlier) ELSE <<>>]]
            BY DEF ChatInit
      <2>2. ASSUME NEW c \in Convs
            PROVE  [state |-> IF c \in some \union {First} THEN "open" ELSE "none",
                    rows  |-> IF c = First THEN SetToSeq(Earlier) ELSE <<>>] \in Conv
            <3> DEFINE a == IF c \in some \union {First} THEN "open" ELSE "none"
                       b == IF c = First THEN SetToSeq(Earlier) ELSE <<>>
            <3>1. a \in {"none", "open", "deleted"}
                  OBVIOUS
            <3>2. b \in Seq(Questions)
                  BY EarlierRows, EmptySeq
            <3> HIDE DEF a, b
            <3>3. [state |-> a, rows |-> b] \in Conv
                  BY <3>1, <3>2 DEF Conv
            <3> QED BY <3>3 DEF a, b
      <2> QED BY <2>1, <2>2
<1>3. Answered \in Answer /\ Answered.wire = <<>> /\ Answered.state = "ended"
      <2>1. <<>> \in Seq(Event)
            BY EmptySeq
      <2> QED BY <2>1, QuestionAssumption DEF Answered, Answer, Status, Final
<1>4. answers \in [Questions -> Answer] /\ \A q \in Questions : answers[q].wire = <<>>
      /\ (q \in Earlier => answers[q] = Answered) /\ (q \notin Earlier => answers[q] = NoAnswer)
      <2>1. answers = [q \in Questions |-> IF q \in Earlier THEN Answered ELSE NoAnswer]
            BY DEF ChatInit
      <2> QED BY <1>3, <2>1, NoAnswerIs
<1>5. SentOK /\ spent.asked = Earlier
      <2>1. spent = [events |-> 0, asked |-> Earlier]
            BY DEF ChatInit
      <2> QED BY <2>1, NoSubmissionIs, EarlierAssumption DEF ChatInit, SentOK
<1>6. ASSUME NEW q \in Questions PROVE AnswerInv(q)
      <2>1. Parts(answers[q].wire) <= MaxParts
            BY <1>4, NoPartsInNothing, QuestionAssumption
      <2>2. DOMAIN answers[q].wire = {}
            BY <1>4
      <2> QED BY <1>3, <1>4, <1>5, <2>1, <2>2, NoAnswerIs DEF AnswerInv
<1>7. SubmissionInv /\ ExistsInv
      <2>1. submission.pc = "idle" /\ submission.conv = NoConv /\ submission.handled = 0
            /\ submission.q \in Questions /\ active = NoConv
            BY NoSubmissionIs DEF ChatInit
      <2>2. Len(answers[submission.q].wire) = 0
            BY <1>4, <2>1, EmptySeq
      <2> QED BY <2>1, <2>2 DEF SubmissionInv, ExistsInv, Asking, Fetching
<1>8. TurnsInv /\ LoadsInv
      BY NothingIsIn DEF ChatInit, TurnsInv, LoadsInv
<1>9. ShowsSelected
      BY DEF ChatInit, ShowsSelected
<1> QED BY <1>1, <1>2, <1>4, <1>5, <1>6, <1>7, <1>8, <1>9, ChatTypesAre DEF ChatInv, ApiOK

---------------------------------------------------------------------------
(* Steps of the page. *)

\* What a step that asks and saves nothing leaves as it is.
LEMMA NothingIsSaved ==
    ASSUME ChatInv, UNCHANGED <<saved, answers>>, spent.asked \subseteq spent'.asked
    PROVE  /\ \A q \in Questions : AnswerInv(q)'
           /\ \A t \in Turn : LoadedInv(t) => LoadedInv(t)'
           /\ UNCHANGED submission => SubmissionInv' /\ \A t \in Turn : TurnInv(t) => TurnInv(t)'
<1>1. \A q \in Questions : AnswerInv(q)
      BY DEF ChatInv
<1>2. ASSUME NEW q \in Questions PROVE AnswerInv(q)'
      BY <1>1 DEF AnswerInv, HasRow
<1>3. ASSUME NEW t \in Turn, LoadedInv(t) PROVE LoadedInv(t)'
      BY <1>3 DEF LoadedInv
<1>4. ASSUME UNCHANGED submission PROVE SubmissionInv'
      BY <1>4 DEF ChatInv, SubmissionInv
<1>5. ASSUME UNCHANGED submission, NEW t \in Turn, TurnInv(t) PROVE TurnInv(t)'
      BY <1>5 DEF TurnInv, MineInv, LoadedInv, HasRow, Listed
<1> QED BY <1>2, <1>3, <1>4, <1>5

LEMMA ShownAreTyped == ASSUME ChatInv PROVE ToSet(messages) \subseteq Turn
  BY InIsTyped DEF ChatInv, ChatTypeOK

LEMMA LoadedAreTyped == ASSUME ChatInv, NEW r \in loads PROVE r \in Load /\ ToSet(r.turns) \subseteq Turn
<1>1. r \in Load
      BY ChatTypesAre DEF ChatInv, SentOK
<1>2. r.turns \in Seq(Turn)
      BY <1>1 DEF Load
<1> QED BY <1>1, <1>2, InIsTyped

\* The selection is shown, as a statement about the set of turns.
LEMMA ShowsIs ==
    ASSUME messages \in Seq(Turn)
    PROVE  (\A i \in DOMAIN messages : messages[i].conv = active)
           <=> (\A t \in ToSet(messages) : t.conv = active)
  BY DEF ToSet

\* A step that selects, loads or removes: what is left to show of it.
LEMMA PageStep ==
    ASSUME ChatInv, UNCHANGED <<apiVars, submission>>, spent.asked \subseteq spent'.asked,
           PageOK', SentOK',
           active' # NoConv => active' = active \/ Listed(active'),
           \/ messages' \in {messages, <<>>}
           \/ \E r \in loads : messages' = r.turns,
           \A r \in loads' : r \in loads \/ r.turns = <<>>,
           ShowsSelected'
    PROVE  ChatInv'
<1>1. UNCHANGED <<saved, answers>>
      BY DEF apiVars
<1>2. ApiOK'
      BY <1>1, ChatTypesAre DEF ChatInv, ApiOK
<1>3. /\ \A q \in Questions : AnswerInv(q)'
      /\ \A t \in Turn : LoadedInv(t) => LoadedInv(t)'
      /\ SubmissionInv' /\ \A t \in Turn : TurnInv(t) => TurnInv(t)'
      BY <1>1, NothingIsSaved
<1>4. ExistsInv'
      BY <1>1 DEF ChatInv, ExistsInv, Listed
<1>5. \A r \in loads : \A t \in ToSet(r.turns) : t \in Turn /\ ~t.mine /\ LoadedInv(t) /\ t.conv = r.conv
      BY LoadedAreTyped DEF ChatInv, LoadsInv
<1>6. \A t \in ToSet(messages') : t \in Turn /\ TurnInv(t)
      <2>1. CASE messages' = messages
            BY <2>1, ShownAreTyped DEF ChatInv, TurnsInv
      <2>2. CASE messages' = <<>>
            BY <2>2, NothingIsIn
      <2>3. ASSUME NEW r \in loads, messages' = r.turns PROVE \A t \in ToSet(messages') : t \in Turn /\ TurnInv(t)
            BY <1>5, <2>3 DEF TurnInv
      <2> QED BY <2>1, <2>2, <2>3
<1>7. TurnsInv'
      BY <1>3, <1>6 DEF TurnsInv
<1>8. LoadsInv'
      BY <1>3, <1>5, NothingIsIn DEF LoadsInv
<1> QED BY <1>2, <1>3, <1>4, <1>7, <1>8, ChatTypesAreNext DEF ChatInv

LEMMA SpentIsTyped ==
    ASSUME ChatInv
    PROVE  /\ [spent EXCEPT !.events = @ + 1] \in [events : Nat, asked : SUBSET Questions]
           /\ [spent EXCEPT !.events = @ + 1].asked = spent.asked
<1>1. spent \in [events : Nat, asked : SUBSET Questions]
      BY DEF ChatInv, ChatTypeOK
<1> QED BY <1>1

LEMMA SelectInv == ASSUME ChatInv, NEW c \in Convs, Select(c) PROVE ChatInv'
<1> DEFINE r == [version |-> loadVersion + 1, conv |-> c, state |-> "sent", turns |-> <<>>]
<1>1. /\ loadVersion' = loadVersion + 1 /\ active' = c
      /\ loads' = loads \union {r} /\ r.turns = <<>> /\ r.version = loadVersion + 1
      /\ UNCHANGED <<mounted, messages, busy, lost, apiVars, submission, removals>>
      BY DEF Select
<1>2. PageOK /\ ApiOK /\ SentOK
      BY ChatTypesAre DEF ChatInv
<1>3. r \in Load
      BY <1>2, EmptySeq DEF Load, PageOK
<1> HIDE DEF r
<1>4. error' \in BOOLEAN
      BY DEF Select
<1>5. PageOK'
      BY <1>1, <1>2, <1>4 DEF PageOK
<1>6. spent' \in [events : Nat, asked : SUBSET Questions] /\ spent'.asked = spent.asked
      BY SpentIsTyped DEF Select
<1>7. SentOK'
      BY <1>1, <1>2, <1>3, <1>6 DEF SentOK
<1>8. Listed(active') /\ Listed(c)
      BY <1>1 DEF Select
<1>9. ShowsSelected'
      BY <1>1 DEF ShowsSelected, Pending
<1> QED BY <1>1, <1>5, <1>6, <1>7, <1>8, <1>9, PageStep

LEMMA LoadReturnInv == ASSUME ChatInv, NEW r \in loads, LoadReturn(r) PROVE ChatInv'
<1>1. /\ loads' = loads \ {r}
      /\ UNCHANGED <<mounted, active, busy, loadVersion, apiVars, submission, removals, spent>>
      BY DEF LoadReturn
<1>2. PageOK /\ ApiOK /\ SentOK /\ r \in Load /\ r.turns \in Seq(Turn)
      BY ChatTypesAre, LoadedAreTyped DEF ChatInv, Load
<1>3. \/ messages' = messages /\ ~(r.state = "ok" /\ r.version = loadVersion)
      \/ messages' = r.turns /\ r.state = "ok" /\ r.version = loadVersion
      BY DEF LoadReturn
<1>4. error' \in BOOLEAN
      BY DEF LoadReturn
<1>5. \/ r.version # loadVersion /\ lost' = lost
      \/ r.version = loadVersion /\ lost' = (r.state = "failed" \/ active # r.conv)
      BY DEF LoadReturn
<1>6. lost' \in BOOLEAN
      BY <1>2, <1>5 DEF PageOK
<1>7. PageOK'
      BY <1>1, <1>2, <1>3, <1>4, <1>6 DEF PageOK
<1>8. SentOK'
      BY <1>1, <1>2 DEF SentOK
<1>9. ShowsSelected'
      <2>1. CASE r.version # loadVersion
            <3>1. messages' = messages /\ lost' = lost /\ Pending' = Pending
                  BY <1>1, <1>3, <1>5, <2>1 DEF Pending
            <3> QED BY <1>1, <3>1 DEF ChatInv, ShowsSelected
      <2>2. CASE r.version = loadVersion /\ (r.state = "failed" \/ active # r.conv)
            BY <1>5, <2>2 DEF ShowsSelected
      <2>3. CASE r.version = loadVersion /\ r.state # "failed" /\ active = r.conv
            <3>1. r.state = "ok"
                  BY <1>2, <2>3 DEF Load, LoadReturn
            <3>2. messages' = r.turns /\ active' = r.conv
                  BY <1>1, <1>3, <2>3, <3>1
            <3>3. \A i \in DOMAIN r.turns : r.turns[i].conv = r.conv
                  BY DEF ChatInv, LoadsInv, ToSet
            <3> QED BY <3>2, <3>3 DEF ShowsSelected
      <2> QED BY <2>1, <2>2, <2>3
<1> QED BY <1>1, <1>3, <1>7, <1>8, <1>9, PageStep

LEMMA NewConversationInv == ASSUME ChatInv, NewConversation PROVE ChatInv'
<1>1. /\ loadVersion' = loadVersion + 1 /\ active' = NoConv /\ messages' = <<>>
      /\ UNCHANGED <<mounted, busy, apiVars, submission, loads, removals>>
      BY DEF NewConversation
<1>2. PageOK /\ ApiOK /\ SentOK
      BY ChatTypesAre DEF ChatInv
<1>3. error' \in BOOLEAN /\ lost' \in BOOLEAN
      BY DEF NewConversation
<1>4. PageOK'
      BY <1>1, <1>2, <1>3, EmptySeq DEF PageOK
<1>5. spent' \in [events : Nat, asked : SUBSET Questions] /\ spent'.asked = spent.asked
      BY SpentIsTyped DEF NewConversation
<1>6. SentOK'
      BY <1>1, <1>2, <1>5 DEF SentOK
<1>7. ShowsSelected'
      BY <1>1 DEF ShowsSelected
<1> QED BY <1>1, <1>4, <1>5, <1>6, <1>7, PageStep

LEMMA DeleteInv == ASSUME ChatInv, NEW c \in Convs, Delete(c) PROVE ChatInv'
<1> DEFINE r == [conv |-> c, wasActive |-> active = c, state |-> "sent"]
<1>1. /\ removals' = removals \union {r}
      /\ UNCHANGED <<mounted, active, messages, busy, error, loadVersion, lost, apiVars, submission, loads>>
      BY DEF Delete, pageVars
<1>2. PageOK /\ ApiOK /\ SentOK
      BY ChatTypesAre DEF ChatInv
<1>3. r \in Removal
      <2> DEFINE b == active = c
      <2>1. b \in BOOLEAN
            OBVIOUS
      <2> HIDE DEF b
      <2>2. [conv |-> c, wasActive |-> b, state |-> "sent"] \in Removal
            BY <2>1 DEF Removal
      <2> QED BY <2>2 DEF b
<1> HIDE DEF r
<1>4. PageOK'
      BY <1>1, <1>2 DEF PageOK
<1>5. spent' \in [events : Nat, asked : SUBSET Questions] /\ spent'.asked = spent.asked
      BY SpentIsTyped DEF Delete
<1>6. SentOK'
      BY <1>1, <1>2, <1>3, <1>5 DEF SentOK
<1>7. ShowsSelected'
      BY <1>1 DEF ChatInv, ShowsSelected, Pending
<1> QED BY <1>1, <1>4, <1>5, <1>6, <1>7, PageStep

LEMMA RemoveReturnInv == ASSUME ChatInv, NEW r \in removals, RemoveReturn(r) PROVE ChatInv'
<1>1. /\ removals' = removals \ {r}
      /\ UNCHANGED <<mounted, busy, loadVersion, apiVars, submission, loads, spent>>
      BY DEF RemoveReturn
<1>2. PageOK /\ ApiOK /\ SentOK
      BY ChatTypesAre DEF ChatInv
<1>3. error' \in BOOLEAN
      BY DEF RemoveReturn
<1>4. \/ active' = active /\ messages' = messages /\ lost' = lost
      \/ active' = NoConv /\ messages' = <<>> /\ lost' \in BOOLEAN
      BY DEF RemoveReturn
<1>5. PageOK'
      BY <1>1, <1>2, <1>3, <1>4, EmptySeq DEF PageOK
<1>6. SentOK'
      BY <1>1, <1>2 DEF SentOK
<1>7. ShowsSelected'
      BY <1>1, <1>4 DEF ChatInv, ShowsSelected, Pending
<1> QED BY <1>1, <1>4, <1>5, <1>6, <1>7, PageStep

---------------------------------------------------------------------------
(* Steps of a question. *)

\* A submission is put on another step.
LEMMA SubmissionIsSet ==
    ASSUME NEW u \in Submission
    PROVE  /\ \A p \in {"created", "rejected", "posting", "refused", "reading"} :
                  LET v == [u EXCEPT !.pc = p]
                  IN  /\ v \in Submission /\ v.pc = p /\ v.q = u.q /\ v.conv = u.conv
                      /\ v.handled = u.handled
           /\ \A b \in BOOLEAN :
                  LET v == [u EXCEPT !.aborted = b]
                  IN  /\ v \in Submission /\ v.pc = u.pc /\ v.q = u.q /\ v.conv = u.conv
                      /\ v.handled = u.handled
           /\ \A n \in Nat :
                  LET v == [u EXCEPT !.handled = n]
                  IN  /\ v \in Submission /\ v.pc = u.pc /\ v.q = u.q /\ v.conv = u.conv
                      /\ v.handled = n
           /\ \A c \in Convs :
                  LET v == [u EXCEPT !.pc = "created", !.conv = c]
                  IN  /\ v \in Submission /\ v.pc = "created" /\ v.q = u.q /\ v.conv = c
                      /\ v.handled = u.handled
<1>1. ASSUME NEW p \in {"created", "rejected", "posting", "refused", "reading"}
      PROVE  LET v == [u EXCEPT !.pc = p]
             IN  /\ v \in Submission /\ v.pc = p /\ v.q = u.q /\ v.conv = u.conv
                 /\ v.handled = u.handled
      BY DEF Submission, Fetching
<1>2. ASSUME NEW b \in BOOLEAN
      PROVE  LET v == [u EXCEPT !.aborted = b]
             IN  /\ v \in Submission /\ v.pc = u.pc /\ v.q = u.q /\ v.conv = u.conv
                 /\ v.handled = u.handled
      BY DEF Submission
<1>3. ASSUME NEW n \in Nat
      PROVE  LET v == [u EXCEPT !.handled = n]
             IN  /\ v \in Submission /\ v.pc = u.pc /\ v.q = u.q /\ v.conv = u.conv
                 /\ v.handled = n
      BY DEF Submission
<1>4. ASSUME NEW c \in Convs
      PROVE  LET v == [u EXCEPT !.pc = "created", !.conv = c]
             IN  /\ v \in Submission /\ v.pc = "created" /\ v.q = u.q /\ v.conv = c
                 /\ v.handled = u.handled
      BY DEF Submission
<1> QED BY <1>1, <1>2, <1>3, <1>4

LEMMA NewTurnIs ==
    ASSUME NEW q \in Questions, NEW c \in Convs
    PROVE  LET t == NewTurn(q, c)
           IN  /\ t \in Turn /\ t.q = q /\ t.conv = c /\ t.status = "generating"
               /\ t.parts = 0 /\ t.mine
  BY QuestionAssumption DEF NewTurn, Turn, Status

\* A turn that has just been added.
LEMMA NewIsMine ==
    ASSUME NEW t, t.status = "generating", t.parts = 0,
           t.q \in spent'.asked, Listed(t.conv)', answers'[t.q].state = "none",
           submission'.pc = "posting", submission'.conv = t.conv, submission'.handled = 0
    PROVE  MineInv(t)'
<1>1. PartsOf(answers'[t.q].wire, 1, 0) = 0
      BY NoParts
<1> QED BY <1>1 DEF MineInv, Fetching, Listed

LEMMA SubmitInv == ASSUME ChatInv, NEW q \in Questions, Submit(q) PROVE ChatInv'
<1> DEFINE asked == spent.asked \union {q}
           p == IF active = NoConv THEN "creating" ELSE "posting"
           s == [NoSubmission EXCEPT !.q = q, !.conv = active, !.pc = p]
<1>1. /\ q \notin spent.asked /\ loadVersion' = loadVersion + 1
      /\ submission' = s /\ lost' = (lost \/ Pending)
      /\ messages' = IF active = NoConv THEN messages ELSE Append(messages, NewTurn(q, active))
      /\ UNCHANGED <<mounted, active, saved, answers, loads, removals>>
      BY DEF Submit, apiVars
<1>2. PageOK /\ ApiOK /\ SentOK
      BY ChatTypesAre DEF ChatInv
<1>3. spent' \in [events : Nat, asked : SUBSET Questions] /\ spent'.asked = asked
      <2>1. spent' = [events |-> spent.events + 1, asked |-> asked]
            BY DEF Submit
      <2>2. spent.events + 1 \in Nat /\ asked \in SUBSET Questions
            BY <1>2 DEF SentOK
      <2> HIDE DEF asked
      <2> QED BY <2>1, <2>2
<1>4. /\ s \in Submission /\ s.q = q /\ s.conv = active /\ s.handled = 0
      /\ s.pc = p
      <2>1. p \in {"creating", "posting"}
            OBVIOUS
      <2> HIDE DEF p
      <2>2. ASSUME NEW u \in Submission
            PROVE  LET v == [u EXCEPT !.q = q, !.conv = active, !.pc = p]
                   IN  v \in Submission /\ v.q = q /\ v.conv = active /\ v.handled = u.handled /\ v.pc = p
            BY <1>2, <2>1 DEF Submission, Fetching, PageOK
      <2> QED BY <2>2, NoSubmissionIs
<1> HIDE DEF s
<1>5. busy' \in BOOLEAN /\ error' \in BOOLEAN
      BY DEF Submit
<1>6. \A t \in ToSet(messages') : t \in ToSet(messages) \/ (active # NoConv /\ t = NewTurn(q, active))
      <2>1. CASE active = NoConv
            BY <1>1, <2>1
      <2>2. CASE active # NoConv
            <3>1. active \in Convs /\ messages \in Seq(Turn)
                  BY <1>2, <2>2 DEF PageOK
            <3>2. ToSet(messages') = ToSet(messages) \union {NewTurn(q, active)}
                  BY <1>1, <2>2, <3>1, NewTurnIs, AppendedIsIn
            <3> QED BY <2>2, <3>2
      <2> QED BY <2>1, <2>2
<1>7. messages' \in Seq(Turn)
      <2>1. CASE active = NoConv
            BY <1>1, <1>2, <2>1 DEF PageOK
      <2>2. CASE active # NoConv
            <3>1. active \in Convs /\ messages \in Seq(Turn)
                  BY <1>2, <2>2 DEF PageOK
            <3> QED BY <1>1, <2>2, <3>1, NewTurnIs, AppendedIsIn
      <2> QED BY <2>1, <2>2
<1>8. PageOK'
      <2>1. lost' \in BOOLEAN
            BY <1>1, <1>2 DEF PageOK, Pending
      <2> QED BY <1>1, <1>2, <1>5, <1>7, <2>1 DEF PageOK
<1>9. SentOK' /\ ApiOK'
      BY <1>1, <1>2, <1>3, <1>4 DEF SentOK, ApiOK
<1>10. /\ \A k \in Questions : AnswerInv(k)'
       /\ \A t \in Turn : LoadedInv(t) => LoadedInv(t)'
       BY <1>1, <1>3, NothingIsSaved
<1>11. answers[q].state = "none" /\ answers[q] = NoAnswer
       BY <1>1 DEF ChatInv, AnswerInv
<1>12. SubmissionInv'
       <2>1. submission'.q = q /\ submission'.handled = 0 /\ answers'[q] = NoAnswer /\ submission'.pc = p
             /\ q \in spent'.asked /\ submission'.conv = active
             BY <1>1, <1>3, <1>4, <1>11
       <2>2. submission'.handled <= Len(answers'[q].wire)
             BY <2>1, NoAnswerIs, EmptySeq
       <2>3. p \in Fetching \union {"created"} => active \in Convs
             BY <1>2 DEF Fetching, PageOK
       <2> HIDE DEF p
       <2> QED BY <2>1, <2>2, <2>3 DEF SubmissionInv
<1>13. ExistsInv'
       BY <1>1, <1>4 DEF ChatInv, ExistsInv, Listed
<1>14. ASSUME NEW t \in ToSet(messages') PROVE TurnInv(t)'
       <2>1. CASE t \in ToSet(messages)
             <3>1. t \in Turn /\ TurnInv(t)
                   BY <2>1, ShownAreTyped DEF ChatInv, TurnsInv
             <3>2. CASE t.mine
                   <4>1. MineInv(t) /\ t.q # q /\ t.q \in spent'.asked
                         BY <1>1, <1>3, <3>1, <3>2 DEF TurnInv, MineInv
                   <4>2. submission'.q = q
                         BY <1>1, <1>4
                   <4>3. MineInv(t)'
                         BY <1>1, <4>1, <4>2 DEF MineInv, HasRow, Listed
                   <4> QED BY <3>2, <4>3 DEF TurnInv
             <3>3. CASE ~t.mine
                   BY <1>10, <3>1, <3>3 DEF TurnInv
             <3> QED BY <3>2, <3>3
       <2>2. CASE active # NoConv /\ t = NewTurn(q, active)
             <3>1. active \in Convs
                   BY <1>2, <2>2 DEF PageOK
             <3>2. t.q = q /\ t.conv = active /\ t.status = "generating" /\ t.parts = 0 /\ t.mine
                   BY <2>2, <3>1, NewTurnIs
             <3>3. /\ submission'.q = q /\ submission'.handled = 0 /\ submission'.conv = active
                   /\ submission'.pc = "posting" /\ q \in spent'.asked
                   BY <1>1, <1>3, <1>4, <2>2
             <3>4. Listed(t.conv)'
                   BY <1>1, <2>2, <3>2 DEF ChatInv, ExistsInv, Listed
             <3>5. answers'[q].state = "none"
                   BY <1>1, <1>11
             <3>6. MineInv(t)'
                   BY <3>2, <3>3, <3>4, <3>5, NewIsMine
             <3> QED BY <3>2, <3>6 DEF TurnInv
       <2> QED BY <1>6, <2>1, <2>2
<1>15. LoadsInv'
       BY <1>1, <1>10, LoadedAreTyped DEF ChatInv, LoadsInv
<1>16. ShowsSelected'
       <2>1. CASE ~mounted \/ lost \/ Pending
             BY <1>1, <2>1 DEF ShowsSelected
       <2>2. CASE mounted /\ ~lost /\ ~Pending
             <3>1. \A t \in ToSet(messages) : t.conv = active
                   BY <1>2, <2>2, ShowsIs DEF ChatInv, ShowsSelected, PageOK
             <3>2. \A t \in ToSet(messages') : t.conv = active'
                   <4>1. active # NoConv => NewTurn(q, active).conv = active
                         BY <1>2, NewTurnIs DEF PageOK
                   <4> QED BY <1>1, <1>6, <3>1, <4>1
             <3> QED BY <3>2 DEF ShowsSelected, ToSet
       <2> QED BY <2>1, <2>2
<1> QED BY <1>8, <1>9, <1>10, <1>12, <1>13, <1>14, <1>15, <1>16, ChatTypesAreNext DEF ChatInv, TurnsInv

\* A turn of the page's own, when what is asked and saved stays.
LEMMA MineStays ==
    ASSUME NEW t, MineInv(t), UNCHANGED <<saved, answers>>, spent.asked \subseteq spent'.asked,
           submission'.pc # "idle" /\ submission'.q = t.q =>
               /\ submission'.pc \in Fetching
               /\ t.conv = submission'.conv
               /\ t.parts = PartsOf(answers[t.q].wire, 1, submission'.handled)
    PROVE  MineInv(t)'
  BY DEF MineInv, HasRow, Listed

LEMMA CreatedInv == ASSUME ChatInv, Created PROVE ChatInv'
<1> DEFINE c == submission.conv
           q == submission.q
<1>1. /\ submission.pc = "created" /\ submission' = [submission EXCEPT !.pc = "posting"]
      /\ UNCHANGED <<mounted, busy, error, loadVersion, saved, answers, loads, removals, spent>>
      BY DEF Created, apiVars
<1>2. PageOK /\ ApiOK /\ SentOK
      BY ChatTypesAre DEF ChatInv
<1>3. /\ submission' \in Submission /\ submission'.pc = "posting" /\ submission'.q = q
      /\ submission'.conv = c /\ submission'.handled = submission.handled
      BY <1>1, <1>2, SubmissionIsSet DEF SentOK
<1>4. c \in Convs /\ q \in Questions /\ answers[q] = NoAnswer /\ Listed(c) /\ q \in spent.asked
      BY <1>1, <1>2, NoConvAssumption DEF ChatInv, SubmissionInv, ExistsInv, Asking, SentOK, Submission
<1>5. \/ active' = active /\ messages' = messages /\ lost' = lost /\ ~mounted
      \/ active' = c /\ messages' = <<NewTurn(q, c)>> /\ lost' \in BOOLEAN
      BY DEF Created
<1>6. NewTurn(q, c) \in Turn /\ <<NewTurn(q, c)>> \in Seq(Turn) /\ ToSet(<<NewTurn(q, c)>>) = {NewTurn(q, c)}
      BY <1>4, NewTurnIs, OneIsIn
<1>7. submission.handled = 0
      <2>1. submission.handled <= Len(answers[q].wire) /\ submission.handled \in Nat
            BY <1>2 DEF ChatInv, SubmissionInv, SentOK, Submission
      <2>2. Len(answers[q].wire) = 0
            BY <1>4, NoAnswerIs, EmptySeq
      <2> QED BY <2>1, <2>2
<1>8. PageOK'
      BY <1>1, <1>2, <1>4, <1>5, <1>6 DEF PageOK
<1>9. SentOK' /\ ApiOK'
      BY <1>1, <1>2, <1>3 DEF SentOK, ApiOK
<1>10. /\ \A k \in Questions : AnswerInv(k)'
       /\ \A t \in Turn : LoadedInv(t) => LoadedInv(t)'
       BY <1>1, NothingIsSaved
<1>11. SubmissionInv'
       BY <1>1, <1>3, <1>4, <1>7, NoAnswerIs, EmptySeq DEF SubmissionInv
<1>12. ExistsInv'
       BY <1>1, <1>3, <1>4, <1>5 DEF ChatInv, ExistsInv, Listed
<1>13. TurnsInv'
       <2>1. CASE messages' = messages
             <3>1. ASSUME NEW t \in ToSet(messages) PROVE TurnInv(t)'
                   <4>1. t \in Turn /\ TurnInv(t)
                         BY ShownAreTyped DEF ChatInv, TurnsInv
                   <4>2. CASE t.mine
                         <5>1. MineInv(t) /\ t.q # q
                               BY <1>1, <4>1, <4>2 DEF TurnInv, MineInv, Fetching
                         <5>2. UNCHANGED <<saved, answers, spent>> /\ submission'.q # t.q
                               BY <1>1, <1>3, <5>1
                         <5>3. MineInv(t)'
                               BY <5>1, <5>2, MineStays
                         <5> QED BY <4>2, <5>3 DEF TurnInv
                   <4>3. CASE ~t.mine
                         BY <1>10, <4>1, <4>3 DEF TurnInv
                   <4> QED BY <4>2, <4>3
             <3> QED BY <2>1, <3>1 DEF TurnsInv
       <2>2. CASE messages' = <<NewTurn(q, c)>>
             <3>1. ASSUME NEW t \in Turn, t = NewTurn(q, c) PROVE TurnInv(t)'
                   <4>1. t.q = q /\ t.conv = c /\ t.status = "generating" /\ t.parts = 0 /\ t.mine
                         BY <1>4, <3>1, NewTurnIs
                   <4>2. answers'[q].state = "none" /\ Listed(c)' /\ q \in spent'.asked /\ submission'.handled = 0
                         BY <1>1, <1>3, <1>4, <1>7, NoAnswerIs DEF Listed
                   <4>3. MineInv(t)'
                         BY <1>3, <4>1, <4>2, NewIsMine
                   <4> QED BY <4>1, <4>3 DEF TurnInv
             <3> QED BY <1>6, <2>2, <3>1 DEF TurnsInv
       <2> QED BY <1>5, <2>1, <2>2
<1>14. LoadsInv'
       BY <1>1, <1>10, LoadedAreTyped DEF ChatInv, LoadsInv
<1>15. ShowsSelected'
       <2>1. CASE ~mounted
             BY <1>1, <2>1 DEF ShowsSelected
       <2>2. CASE mounted
             <3>1. active' = c /\ messages' = <<NewTurn(q, c)>> /\ NewTurn(q, c).conv = c
                   BY <1>4, <1>5, <2>2, NewTurnIs
             <3> QED BY <3>1 DEF ShowsSelected
       <2> QED BY <2>1, <2>2
<1> QED BY <1>8, <1>9, <1>10, <1>11, <1>12, <1>13, <1>14, <1>15, ChatTypesAreNext DEF ChatInv

---------------------------------------------------------------------------
(* Steps of a stream. *)

\* A turn is put to another status.
LEMMA StatusIsSet ==
    ASSUME NEW t \in Turn, NEW s \in Status, NEW u, u = [t EXCEPT !.status = s]
    PROVE  u \in Turn /\ u.q = t.q /\ u.conv = t.conv /\ u.mine = t.mine /\ u.parts = t.parts /\ u.status = s
  BY DEF Turn

\* A step that changes turns in place.
LEMMA TurnsStep ==
    ASSUME ChatInv, UNCHANGED <<mounted, active, loadVersion, lost, apiVars, loads, removals, spent>>,
           busy' \in BOOLEAN, error' \in BOOLEAN, submission' \in Submission, SubmissionInv',
           submission'.conv \in {submission.conv, NoConv},
           messages' \in Seq(Turn), DOMAIN messages' = DOMAIN messages,
           \A i \in DOMAIN messages : messages'[i].conv = messages[i].conv,
           TurnsInv'
    PROVE  ChatInv'
<1>1. UNCHANGED <<saved, answers>> /\ spent.asked \subseteq spent'.asked
      BY DEF apiVars
<1>2. PageOK /\ ApiOK /\ SentOK
      BY ChatTypesAre DEF ChatInv
<1>3. PageOK' /\ SentOK' /\ ApiOK'
      BY <1>1, <1>2 DEF PageOK, SentOK, ApiOK
<1>4. /\ \A k \in Questions : AnswerInv(k)'
      /\ \A t \in Turn : LoadedInv(t) => LoadedInv(t)'
      BY <1>1, NothingIsSaved
<1>5. ExistsInv'
      BY <1>1 DEF ChatInv, ExistsInv, Listed
<1>6. LoadsInv'
      BY <1>4, LoadedAreTyped DEF ChatInv, LoadsInv
<1>7. ShowsSelected'
      BY DEF ChatInv, ShowsSelected, Pending
<1> QED BY <1>3, <1>4, <1>5, <1>6, <1>7, ChatTypesAreNext DEF ChatInv

\* What a turn shows once more of its stream has been read.
LEMMA AppliedInv ==
    ASSUME ChatInv, NEW wire, NEW from \in Nat, NEW to \in Nat,
           submission.pc = "reading", wire = answers[submission.q].wire,
           from = submission.handled, from <= to, to <= Len(wire),
           NEW t \in Turn, t.mine, t.q = submission.q, MineInv(t),
           NEW u, u = Applied(t, wire, from, to)
    PROVE  /\ u \in Turn /\ u.q = t.q /\ u.conv = t.conv /\ u.mine
           /\ u.parts = PartsOf(wire, 1, to)
           /\ u.status = "completed" =>
                /\ \E i \in DOMAIN wire : wire[i] = "completed"
                /\ u.parts = Parts(wire)
<1> DEFINE ends == {i \in from + 1 .. to : wire[i] \in Final}
           s == IF ends = {} THEN t.status ELSE wire[CHOOSE i \in ends : TRUE]
           p == t.parts + PartsOf(wire, from + 1, to)
<1>1. wire \in Seq(Event) /\ Len(wire) \in Nat /\ DOMAIN wire = 1..Len(wire)
      <2>1. answers \in [Questions -> Answer] /\ submission.q \in Questions
            BY DEF ChatInv, ChatTypeOK
      <2>2. wire \in Seq(Event)
            BY <2>1 DEF Answer
      <2> QED BY <2>2, LenProperties
<1>2. AnswerInv(submission.q)
      BY DEF ChatInv, ChatTypeOK
<1>3. t.parts = PartsOf(wire, 1, from)
      BY DEF MineInv
<1>4. p = PartsOf(wire, 1, from) + PartsOf(wire, from + 1, to) /\ p = PartsOf(wire, 1, to)
      BY <1>3, PartsSplit
<1>5. Parts(wire) = PartsOf(wire, 1, to) + PartsOf(wire, to + 1, Len(wire))
      BY <1>1, PartsSplit DEF Parts
<1>6. /\ PartsOf(wire, 1, from) \in Nat /\ PartsOf(wire, from + 1, to) \in Nat
      /\ PartsOf(wire, 1, to) \in Nat /\ PartsOf(wire, to + 1, Len(wire)) \in Nat
      <2>1. 1 \in Nat /\ from + 1 \in Nat /\ to + 1 \in Nat
            OBVIOUS
      <2> QED BY <1>1, <2>1, PartsAreCounted
<1>7. Parts(wire) <= MaxParts
      BY <1>2 DEF AnswerInv
<1>8. p \in 0..MaxParts
      BY <1>4, <1>5, <1>6, <1>7, QuestionAssumption
<1>9. \A i \in ends : i \in DOMAIN wire /\ wire[i] \in Final /\ i = Len(wire)
      BY <1>1, <1>2 DEF AnswerInv
<1>10. s \in Status
      <2>1. t.status \in Status
            BY DEF Turn
      <2> HIDE DEF ends
      <2>2. CASE ends = {}
            BY <2>1, <2>2
      <2>3. CASE ends # {}
            <3>1. (CHOOSE i \in ends : TRUE) \in ends
                  BY <2>3
            <3> QED BY <1>9, <2>3, <3>1 DEF Status
      <2> QED BY <2>2, <2>3
<1>11. u = [t EXCEPT !.parts = p, !.status = s]
      BY DEF Applied
<1>12. s = "completed" => (\E i \in DOMAIN wire : wire[i] = "completed") /\ p = Parts(wire)
      <2>1. CASE ends = {}
            <3>1. s = "completed" => (\E i \in DOMAIN wire : wire[i] = "completed") /\ t.parts = Parts(wire)
                  BY <2>1 DEF MineInv
            <3>2. Parts(wire) = t.parts => p = Parts(wire)
                  <4> HIDE DEF p
                  <4> QED BY <1>3, <1>4, <1>5, <1>6
            <3> QED BY <3>1, <3>2
      <2>2. CASE ends # {}
            <3> DEFINE k == CHOOSE i \in ends : TRUE
            <3>1. k \in ends
                  BY <2>2
            <3>2. k \in DOMAIN wire /\ k = Len(wire) /\ k <= to
                  BY <1>9, <3>1
            <3>3. s = wire[k]
                  BY <2>2
            <3> HIDE DEF k
            <3>4. to = Len(wire)
                  BY <1>1, <3>2
            <3>5. p = Parts(wire)
                  BY <1>4, <3>4 DEF Parts
            <3> QED BY <3>2, <3>3, <3>5
      <2> QED BY <2>1, <2>2
<1> HIDE DEF s, p, ends
<1>13. u \in Turn /\ u.q = t.q /\ u.conv = t.conv /\ u.mine = t.mine /\ u.parts = p /\ u.status = s
       BY <1>8, <1>10, <1>11 DEF Turn
<1> QED BY <1>4, <1>12, <1>13

LEMMA ReadInv == ASSUME ChatInv, NEW n \in 1..MaxParts + 2, Read(n) PROVE ChatInv'
<1> DEFINE wire == answers[submission.q].wire
           from == submission.handled
           to == submission.handled + n
           new == [i \in DOMAIN messages |-> Shown(messages[i], wire, from, to)]
<1>1. /\ submission.pc = "reading" /\ to <= Len(wire)
      /\ submission' = [submission EXCEPT !.handled = to]
      /\ messages' = new
      /\ UNCHANGED <<mounted, active, busy, loadVersion, lost, apiVars, loads, removals, spent>>
      BY DEF Read
<1>2. PageOK /\ ApiOK /\ SentOK
      BY ChatTypesAre DEF ChatInv
<1>3. from \in Nat /\ to \in Nat /\ from <= to /\ submission.q \in Questions
      BY <1>2, QuestionAssumption DEF SentOK, Submission
<1>4. error' \in BOOLEAN
      BY DEF Read
<1>5. /\ submission' \in Submission /\ submission'.pc = "reading" /\ submission'.q = submission.q
      /\ submission'.conv = submission.conv /\ submission'.handled = to
      <2>1. submission \in Submission /\ submission' = [submission EXCEPT !.handled = to]
            BY <1>1, <1>2 DEF SentOK
      <2>2. to \in Nat
            BY <1>3
      <2> HIDE DEF to
      <2>3. /\ submission' \in Submission /\ submission'.pc = submission.pc /\ submission'.q = submission.q
            /\ submission'.conv = submission.conv /\ submission'.handled = to
            BY <2>1, <2>2 DEF Submission
      <2> QED BY <1>1, <2>3
<1>6. UNCHANGED <<saved, answers>> /\ spent.asked \subseteq spent'.asked
      BY <1>1 DEF apiVars
<1>7. /\ \A t \in Turn : LoadedInv(t) => LoadedInv(t)'
      BY <1>6, NothingIsSaved
<1>8. ASSUME NEW t \in ToSet(messages), NEW u, u = Shown(t, wire, from, to)
      PROVE  u \in Turn /\ u.conv = t.conv /\ TurnInv(u)'
      <2>1. t \in Turn /\ TurnInv(t)
            BY ShownAreTyped DEF ChatInv, TurnsInv
      <2>2. CASE t.mine /\ t.q = submission.q
            <3>1. MineInv(t) /\ u = Applied(t, wire, from, to)
                  BY <1>8, <2>1, <2>2 DEF TurnInv, Shown
            <3>2. /\ u \in Turn /\ u.q = t.q /\ u.conv = t.conv /\ u.mine
                  /\ u.parts = PartsOf(wire, 1, to)
                  /\ u.status = "completed" =>
                        /\ \E i \in DOMAIN wire : wire[i] = "completed"
                        /\ u.parts = Parts(wire)
                  <4> HIDE DEF wire, from, to
                  <4>1. wire = answers[submission.q].wire /\ from = submission.handled
                        BY DEF wire, from
                  <4> QED BY <1>1, <1>3, <2>1, <2>2, <3>1, <4>1, AppliedInv
            <3>3. answers' = answers /\ saved' = saved /\ wire = answers[u.q].wire
                  BY <1>6, <2>2, <3>2
            <3>4. t.conv = submission.conv
                  BY <1>1, <2>2, <3>1 DEF MineInv
            <3> DEFINE mineAt == u.parts = PartsOf(answers[u.q].wire, 1, to)
            <3>5. mineAt
                  BY <3>2, <3>3
            <3>6. u.status = "completed" =>
                        /\ \E i \in DOMAIN answers[u.q].wire : answers[u.q].wire[i] = "completed"
                        /\ u.parts = Parts(answers[u.q].wire)
                  BY <3>2, <3>3
            <3>7. /\ u.q \in spent.asked /\ Listed(u.conv)
                  /\ answers[u.q].state # "none" /\ saved[u.conv].state = "open" => HasRow(u.conv, u.q)
                  BY <2>2, <3>1, <3>2 DEF MineInv
            <3> HIDE DEF wire, from, to
            <3>8. MineInv(u)'
                  BY <1>5, <1>6, <3>2, <3>4, <3>5, <3>6, <3>7 DEF MineInv, HasRow, Listed, Fetching
            <3> QED BY <3>2, <3>8 DEF TurnInv
      <2>3. CASE ~(t.mine /\ t.q = submission.q)
            <3>1. u = t
                  BY <1>8, <2>3 DEF Shown
            <3>2. t.mine => MineInv(t)'
                  <4>1. submission'.q = submission.q
                        BY <1>5
                  <4> QED BY <1>6, <2>1, <2>3, <4>1, MineStays DEF TurnInv
            <3> QED BY <1>7, <2>1, <3>1, <3>2 DEF TurnInv
      <2> QED BY <2>2, <2>3
<1>9. messages \in Seq(Turn) /\ \A i \in DOMAIN messages : messages[i] \in ToSet(messages)
      BY <1>2 DEF PageOK, ToSet
<1>10. /\ DOMAIN messages' = DOMAIN messages
       /\ \A i \in DOMAIN messages : messages'[i] = Shown(messages[i], wire, from, to)
       BY <1>1
<1>11. messages' = [i \in DOMAIN messages |-> messages'[i]]
      BY <1>1
<1> HIDE DEF wire, from, to, new
<1>12. \A i \in DOMAIN messages : messages'[i] \in Turn /\ messages'[i].conv = messages[i].conv
       BY <1>8, <1>9, <1>10
<1>13. messages' \in Seq(Turn) /\ \A u \in ToSet(messages') : \E i \in DOMAIN messages : u = messages'[i]
       <2>1. messages' \in [DOMAIN messages -> Turn]
             BY <1>11, <1>12
       <2>2. messages' \in Seq(Turn)
             BY <1>9, <2>1, MappedIsSeq
       <2> QED BY <1>10, <2>2 DEF ToSet
<1>14. \A u \in ToSet(messages') : \E t \in ToSet(messages) : u = Shown(t, wire, from, to)
       BY <1>9, <1>10, <1>13
<1>15. TurnsInv'
       BY <1>8, <1>14 DEF TurnsInv
<1>16. SubmissionInv'
       BY <1>1, <1>5, <1>6, <1>3 DEF ChatInv, SubmissionInv, Asking, Fetching, wire
<1>17. busy' \in BOOLEAN
       BY <1>1, <1>2 DEF PageOK
<1> QED BY <1>1, <1>4, <1>5, <1>10, <1>12, <1>13, <1>15, <1>16, <1>17, TurnsStep

LEMMA SettleInv == ASSUME ChatInv, NEW failed \in BOOLEAN, Settle(failed) PROVE ChatInv'
<1> DEFINE Now(s) == IF s = "generating" THEN "cancelled" ELSE s
           Told(t) == [t EXCEPT !.status = Now(@)]
<1>1. /\ submission' = NoSubmission /\ busy' = FALSE
      /\ messages' = [i \in DOMAIN messages |-> Told(messages[i])]
      /\ UNCHANGED <<mounted, active, loadVersion, lost, apiVars, loads, removals, spent>>
      BY DEF Settle
<1>2. error' \in BOOLEAN
      BY DEF Settle
<1>3. UNCHANGED <<saved, answers>> /\ spent.asked \subseteq spent'.asked
      BY <1>1 DEF apiVars
<1>4. /\ \A t \in Turn : LoadedInv(t) => LoadedInv(t)'
      BY <1>3, NothingIsSaved
<1>5. ASSUME NEW t \in Turn
      PROVE  /\ Told(t) \in Turn /\ Told(t).q = t.q /\ Told(t).conv = t.conv
             /\ Told(t).mine = t.mine /\ Told(t).parts = t.parts
             /\ Told(t).status = "completed" => t.status = "completed"
      <2>1. Now(t.status) \in Status /\ (Now(t.status) = "completed" => t.status = "completed")
            BY DEF Turn, Status, Final
      <2>2. Told(t) = [t EXCEPT !.status = Now(t.status)]
            OBVIOUS
      <2> HIDE DEF Now, Told
      <2> QED BY <2>1, <2>2, StatusIsSet
<1>6. messages \in Seq(Turn) /\ \A i \in DOMAIN messages : messages[i] \in ToSet(messages) /\ messages[i] \in Turn
      BY ShownAreTyped DEF ChatInv, ChatTypeOK, ToSet
<1> HIDE DEF Told
<1>7. /\ DOMAIN messages' = DOMAIN messages
      /\ \A i \in DOMAIN messages : messages'[i] = Told(messages[i])
      BY <1>1
<1>8. messages' = [i \in DOMAIN messages |-> messages'[i]]
      BY <1>1
<1>9. \A i \in DOMAIN messages : messages'[i] \in Turn /\ messages'[i].conv = messages[i].conv
      BY <1>5, <1>6, <1>7
<1>10. messages' \in Seq(Turn) /\ \A u \in ToSet(messages') : \E i \in DOMAIN messages : u = messages'[i]
      <2>1. messages' \in [DOMAIN messages -> Turn]
            BY <1>8, <1>9
      <2>2. messages' \in Seq(Turn)
            BY <1>6, <2>1, MappedIsSeq
      <2> QED BY <1>7, <2>2 DEF ToSet
<1>11. ASSUME NEW u \in ToSet(messages') PROVE TurnInv(u)'
       <2>1. PICK t \in ToSet(messages) : u = Told(t)
             BY <1>6, <1>7, <1>10
       <2>2. t \in Turn /\ TurnInv(t)
             BY ShownAreTyped DEF ChatInv, TurnsInv
       <2>3. /\ u.q = t.q /\ u.conv = t.conv /\ u.mine = t.mine /\ u.parts = t.parts
             /\ u.status = "completed" => t.status = "completed"
             BY <1>5, <2>1, <2>2
       <2>4. CASE t.mine
             <3>1. MineInv(t)
                   BY <2>2, <2>4 DEF TurnInv
             <3>2. submission'.pc = "idle"
                   BY <1>1, NoSubmissionIs
             <3>3. MineInv(u)'
                   BY <1>3, <2>3, <3>1, <3>2 DEF MineInv, HasRow, Listed
             <3> QED BY <2>3, <2>4, <3>3 DEF TurnInv
       <2>5. CASE ~t.mine
             <3>1. LoadedInv(t)'
                   BY <1>4, <2>2, <2>5 DEF TurnInv
             <3>2. LoadedInv(u)'
                   BY <2>3, <3>1 DEF LoadedInv
             <3> QED BY <2>3, <2>5, <3>2 DEF TurnInv
       <2> QED BY <2>4, <2>5
<1>12. TurnsInv'
       BY <1>11 DEF TurnsInv
<1>13. SubmissionInv'
       <2>1. /\ submission'.pc = "idle" /\ submission'.handled = 0 /\ submission'.q \in Questions
             BY <1>1, NoSubmissionIs
       <2>2. answers' \in [Questions -> Answer]
             BY <1>3 DEF ChatInv, ChatTypeOK
       <2>3. Len(answers'[submission'.q].wire) \in Nat
             BY <2>1, <2>2, LenProperties DEF Answer
       <2> QED BY <2>1, <2>3 DEF SubmissionInv, Asking, Fetching
<1>14. submission' \in Submission /\ submission'.conv = NoConv
       BY <1>1, NoSubmissionIs
<1> QED BY <1>1, <1>2, <1>7, <1>9, <1>10, <1>12, <1>13, <1>14, TurnsStep

LEMMA StopInv == ASSUME ChatInv, Stop PROVE ChatInv'
<1>1. /\ submission' = [submission EXCEPT !.aborted = TRUE]
      /\ UNCHANGED <<mounted, active, messages, busy, error, loadVersion, lost, apiVars, loads, removals, spent>>
      BY DEF Stop, pageVars
<1>2. PageOK /\ ApiOK /\ SentOK
      BY ChatTypesAre DEF ChatInv
<1>3. /\ submission' \in Submission /\ submission'.pc = submission.pc /\ submission'.q = submission.q
      /\ submission'.conv = submission.conv /\ submission'.handled = submission.handled
      BY <1>1, <1>2, SubmissionIsSet DEF SentOK
<1>4. UNCHANGED <<saved, answers>> /\ spent.asked \subseteq spent'.asked
      BY <1>1 DEF apiVars
<1>5. ASSUME NEW t \in ToSet(messages) PROVE TurnInv(t)'
      <2>1. t \in Turn /\ TurnInv(t)
            BY ShownAreTyped DEF ChatInv, TurnsInv
      <2>2. /\ \A k \in Turn : LoadedInv(k) => LoadedInv(k)'
            BY <1>4, NothingIsSaved
      <2>3. t.mine => MineInv(t)'
            <3>1. ASSUME t.mine PROVE MineInv(t)'
                  <4>1. MineInv(t)
                        BY <2>1, <3>1 DEF TurnInv
                  <4>2. submission'.pc # "idle" /\ submission'.q = t.q =>
                           /\ submission'.pc \in Fetching
                           /\ t.conv = submission'.conv
                           /\ t.parts = PartsOf(answers[t.q].wire, 1, submission'.handled)
                        BY <1>3, <4>1 DEF MineInv
                  <4> QED BY <1>4, <4>1, <4>2, MineStays
            <3> QED BY <3>1
      <2> QED BY <2>1, <2>2, <2>3 DEF TurnInv
<1>6. TurnsInv'
      BY <1>1, <1>5 DEF TurnsInv
<1>7. SubmissionInv'
      BY <1>3, <1>4 DEF ChatInv, SubmissionInv
<1>8. busy' \in BOOLEAN /\ error' \in BOOLEAN /\ messages' \in Seq(Turn)
      BY <1>1, <1>2 DEF PageOK
<1> QED BY <1>1, <1>3, <1>6, <1>7, <1>8, TurnsStep

LEMMA LeaveInv == ASSUME ChatInv, Leave PROVE ChatInv'
<1> DEFINE b == submission.aborted \/ submission.pc \in Fetching
<1>1. /\ submission' = [submission EXCEPT !.aborted = b]
      /\ mounted' = FALSE /\ active' = NoConv /\ messages' = <<>>
      /\ error' = FALSE /\ lost' = FALSE /\ loads' = {}
      /\ UNCHANGED <<busy, loadVersion, apiVars, removals, spent>>
      BY DEF Leave
<1>2. PageOK /\ ApiOK /\ SentOK
      BY ChatTypesAre DEF ChatInv
<1>3. /\ submission' \in Submission /\ submission'.pc = submission.pc /\ submission'.q = submission.q
      /\ submission'.conv = submission.conv /\ submission'.handled = submission.handled
      <2>1. b \in BOOLEAN
            OBVIOUS
      <2>2. submission \in Submission /\ submission' = [submission EXCEPT !.aborted = b]
            BY <1>1, <1>2 DEF SentOK
      <2> HIDE DEF b
      <2> QED BY <2>1, <2>2 DEF Submission
<1> HIDE DEF b
<1>4. UNCHANGED <<saved, answers>> /\ spent.asked \subseteq spent'.asked
      BY <1>1 DEF apiVars
<1>5. PageOK' /\ ApiOK'
      BY <1>1, <1>2, <1>4, EmptySeq DEF PageOK, ApiOK
<1>6. SentOK'
      BY <1>1, <1>2, <1>3 DEF SentOK
<1>7. \A k \in Questions : AnswerInv(k)'
      BY <1>4, NothingIsSaved
<1>8. SubmissionInv' /\ ExistsInv'
      BY <1>1, <1>3, <1>4 DEF ChatInv, SubmissionInv, ExistsInv, Listed
<1>9. TurnsInv' /\ LoadsInv' /\ ShowsSelected'
      BY <1>1, NothingIsIn DEF TurnsInv, LoadsInv, ShowsSelected
<1> QED BY <1>5, <1>6, <1>7, <1>8, <1>9, ChatTypesAreNext DEF ChatInv


---------------------------------------------------------------------------
(* Steps of the API. *)

LEMMA ServeLoadInv == ASSUME ChatInv, NEW r \in loads, ServeLoad(r) PROVE ChatInv'
<1> DEFINE rows  == saved[r.conv].rows
           Row(i) == [q |-> rows[i], conv |-> r.conv,
                     status |-> answers[rows[i]].status, parts |-> answers[rows[i]].parts,
                     mine |-> FALSE]
           turns == [i \in DOMAIN rows |-> Row(i)]
<1>1. /\ UNCHANGED <<mounted, active, messages, busy, error, loadVersion, lost>>
      /\ UNCHANGED <<saved, answers, submission, removals, spent>>
      BY DEF ServeLoad, pageVars, apiVars
<1>2. PageOK /\ ApiOK /\ SentOK /\ r \in Load /\ ToSet(r.turns) \subseteq Turn
      BY ChatTypesAre, LoadedAreTyped DEF ChatInv
<1>3. rows \in Seq(Questions) /\ r.conv \in Convs
      BY <1>2 DEF ApiOK, Load, Conv
<1>4. ASSUME NEW i \in DOMAIN rows
      PROVE  Row(i) \in Turn /\ Row(i).conv = r.conv /\ ~Row(i).mine /\ LoadedInv(Row(i))
      <2>1. rows[i] \in Questions
            BY <1>3, ElementOfSeq, LenProperties
      <2>2. answers[rows[i]] \in Answer
            BY <1>2, <2>1 DEF ApiOK
      <2> HIDE DEF rows
      <2>3. Row(i) \in Turn
            BY <1>3, <2>1, <2>2 DEF Turn, Answer
      <2>4. LoadedInv(Row(i))
            BY DEF LoadedInv
      <2> QED BY <2>3, <2>4
<1>5. turns \in Seq(Turn)
      <2>1. turns \in [DOMAIN rows -> Turn]
            <3> HIDE DEF Row, rows
            <3> QED BY <1>4
      <2> HIDE DEF turns, rows
      <2> QED BY <1>3, <2>1, MappedIsSeq
<1>6. \A t \in ToSet(turns) : t \in Turn /\ t.conv = r.conv /\ ~t.mine /\ LoadedInv(t)
      <2>1. \A t \in ToSet(turns) : \E i \in DOMAIN rows : t = Row(i)
            BY DEF ToSet
      <2> HIDE DEF Row, rows, turns
      <2> QED BY <1>4, <2>1
<1> DEFINE ok == [r EXCEPT !.state = "ok", !.turns = turns]
           failed == [r EXCEPT !.state = "failed"]
<1>7. \/ loads' = (loads \ {r}) \union {ok}
      \/ loads' = (loads \ {r}) \union {failed}
      BY DEF ServeLoad
<1>8. /\ ok \in Load /\ ok.version = r.version /\ ok.conv = r.conv /\ ok.turns = turns
      /\ failed \in Load /\ failed.version = r.version /\ failed.conv = r.conv /\ failed.turns = r.turns
      <2> HIDE DEF turns
      <2> QED BY <1>2, <1>5 DEF Load
<1> HIDE DEF ok, failed, turns, rows, Row
<1>9. PageOK' /\ ApiOK' /\ SentOK'
      BY <1>1, <1>2, <1>7, <1>8 DEF PageOK, ApiOK, SentOK
<1>10. /\ \A k \in Questions : AnswerInv(k)'
       /\ \A t \in Turn : LoadedInv(t) => LoadedInv(t)'
       /\ SubmissionInv' /\ \A t \in Turn : TurnInv(t) => TurnInv(t)'
       BY <1>1, NothingIsSaved
<1>11. ExistsInv'
       BY <1>1 DEF ChatInv, ExistsInv, Listed
<1>12. TurnsInv'
       BY <1>1, <1>10, ShownAreTyped DEF ChatInv, TurnsInv
<1>13. LoadsInv'
       <2>1. \A l \in loads : \A t \in ToSet(l.turns) : t \in Turn /\ t.conv = l.conv /\ ~t.mine /\ LoadedInv(t)
             BY LoadedAreTyped DEF ChatInv, LoadsInv
       <2>2. \A l \in loads' : \A t \in ToSet(l.turns) : t \in Turn /\ t.conv = l.conv /\ ~t.mine /\ LoadedInv(t)
             BY <1>6, <1>7, <1>8, <2>1
       <2> QED BY <1>10, <2>2 DEF LoadsInv
<1>14. ShowsSelected'
       <2>1. Pending => Pending'
             BY <1>1, <1>7, <1>8 DEF Pending
       <2> QED BY <1>1, <2>1 DEF ChatInv, ShowsSelected
<1> QED BY <1>9, <1>10, <1>11, <1>12, <1>13, <1>14, ChatTypesAreNext DEF ChatInv

\* A conversation is created or deleted.
LEMMA ConversationsMove ==
    ASSUME ChatInv, UNCHANGED <<pageVars, answers, loads, spent>>,
           saved' \in [Convs -> Conv], removals' \in SUBSET Removal, submission' \in Submission,
           \A c \in Convs : Listed(c) => /\ saved'[c].state # "none"
                                         /\ saved'[c].state = "open" => saved'[c] = saved[c],
           \A c \in Convs, q \in Questions : HasRow(c, q)' => HasRow(c, q),
           SubmissionInv', submission'.conv # NoConv => saved'[submission'.conv].state # "none",
           \A t \in ToSet(messages) : t.mine /\ submission'.pc # "idle" /\ submission'.q = t.q =>
               /\ submission'.pc \in Fetching
               /\ UNCHANGED submission
    PROVE  ChatInv'
<1>1. /\ UNCHANGED <<mounted, active, messages, busy, error, loadVersion, lost>>
      /\ UNCHANGED <<answers, loads, spent>>
      BY DEF pageVars
<1>2. PageOK /\ ApiOK /\ SentOK
      BY ChatTypesAre DEF ChatInv
<1>3. PageOK' /\ ApiOK' /\ SentOK'
      BY <1>1, <1>2 DEF PageOK, ApiOK, SentOK
<1>4. ASSUME NEW k \in Questions PROVE AnswerInv(k)'
      <2>1. AnswerInv(k)
            BY DEF ChatInv
      <2> QED BY <1>1, <2>1 DEF AnswerInv
<1>5. ASSUME NEW t, LoadedInv(t) PROVE LoadedInv(t)'
      BY <1>1, <1>5 DEF LoadedInv
<1>6. ExistsInv'
      <2>1. active' # NoConv => saved'[active'].state # "none"
            BY <1>1, <1>2 DEF ChatInv, ExistsInv, Listed, PageOK
      <2> QED BY <2>1 DEF ExistsInv, Listed
<1>7. ASSUME NEW t \in ToSet(messages) PROVE TurnInv(t)'
      <2>1. t \in Turn /\ TurnInv(t)
            BY ShownAreTyped DEF ChatInv, TurnsInv
      <2>2. CASE t.mine
            <3>1. MineInv(t) /\ t.conv \in Convs /\ t.q \in Questions
                  BY <2>1, <2>2 DEF TurnInv, Turn
            <3>2. Listed(t.conv) /\ saved'[t.conv].state # "none"
                  BY <3>1 DEF MineInv
            <3>3. saved'[t.conv].state = "open" => saved'[t.conv] = saved[t.conv]
                  BY <3>1, <3>2
            <3>4. answers'[t.q].state # "none" /\ saved'[t.conv].state = "open" => HasRow(t.conv, t.q)'
                  BY <1>1, <3>1, <3>3 DEF MineInv, HasRow
            <3>5. submission'.pc # "idle" /\ submission'.q = t.q =>
                      /\ submission'.pc \in Fetching
                      /\ t.conv = submission'.conv
                      /\ t.parts = PartsOf(answers'[t.q].wire, 1, submission'.handled)
                  <4>1. ASSUME submission'.pc # "idle", submission'.q = t.q
                        PROVE  submission' = submission
                        BY <2>2, <4>1
                  <4>2. submission.pc # "idle" /\ submission.q = t.q =>
                            /\ submission.pc \in Fetching
                            /\ t.conv = submission.conv
                            /\ t.parts = PartsOf(answers[t.q].wire, 1, submission.handled)
                        BY <3>1 DEF MineInv
                  <4> QED BY <1>1, <4>1, <4>2
            <3>6. t.q \in spent'.asked
                  BY <1>1, <3>1 DEF MineInv
            <3>7. t.status = "completed" =>
                     /\ \E i \in DOMAIN answers'[t.q].wire : answers'[t.q].wire[i] = "completed"
                     /\ t.parts = Parts(answers'[t.q].wire)
                  BY <1>1, <3>1 DEF MineInv
            <3>8. MineInv(t)'
                  BY <3>2, <3>4, <3>5, <3>6, <3>7 DEF MineInv, Listed
            <3> QED BY <2>2, <3>8 DEF TurnInv
      <2>3. CASE ~t.mine
            BY <1>5, <2>1, <2>3 DEF TurnInv
      <2> QED BY <2>2, <2>3
<1>8. TurnsInv'
      BY <1>1, <1>7 DEF TurnsInv
<1>9. LoadsInv'
      BY <1>1, <1>5 DEF ChatInv, LoadsInv
<1>10. ShowsSelected'
       BY <1>1 DEF ChatInv, ShowsSelected, Pending
<1> QED BY <1>3, <1>4, <1>6, <1>8, <1>9, <1>10, ChatTypesAreNext DEF ChatInv

LEMMA ServeRemoveInv == ASSUME ChatInv, NEW r \in removals, ServeRemove(r) PROVE ChatInv'
<1> DEFINE gone == [state |-> "deleted", rows |-> <<>>]
           ok == [r EXCEPT !.state = "ok"]
           failed == [r EXCEPT !.state = "failed"]
<1>1. UNCHANGED <<pageVars, answers, submission, loads, spent>>
      BY DEF ServeRemove
<1>2. PageOK /\ ApiOK /\ SentOK
      BY ChatTypesAre DEF ChatInv
<1>3. r \in Removal /\ ok \in Removal /\ failed \in Removal
      <2>1. r \in Removal
            BY <1>2 DEF SentOK
      <2> QED BY <2>1 DEF Removal
<1>4. removals' \in SUBSET Removal
      <2>1. removals' = (removals \ {r}) \union {ok} \/ removals' = (removals \ {r}) \union {failed}
            BY DEF ServeRemove
      <2> QED BY <1>2, <1>3, <2>1 DEF SentOK
<1>5. gone \in Conv /\ gone.state = "deleted" /\ gone.rows = <<>>
      BY EmptySeq DEF Conv
<1>6. saved' = saved \/ saved' = [saved EXCEPT ![r.conv] = gone]
      BY DEF ServeRemove
<1> HIDE DEF gone, ok, failed
<1>7. saved' \in [Convs -> Conv]
      BY <1>2, <1>5, <1>6 DEF ApiOK
<1>8. \A c \in Convs : saved'[c] = saved[c] \/ saved'[c] = gone
      BY <1>2, <1>6 DEF ApiOK
<1>9. \A c \in Convs : Listed(c) => /\ saved'[c].state # "none"
                                    /\ saved'[c].state = "open" => saved'[c] = saved[c]
      BY <1>5, <1>8 DEF Listed
<1>10. \A c \in Convs, q \in Questions : HasRow(c, q)' => HasRow(c, q)
       <2>1. DOMAIN gone.rows = {}
             BY <1>5
       <2> QED BY <1>8, <2>1 DEF HasRow
<1>11. UNCHANGED <<submission, answers, spent, messages>>
       BY <1>1 DEF pageVars
<1>12. SubmissionInv'
       BY <1>11 DEF ChatInv, SubmissionInv
<1>13. submission' \in Submission /\ (submission'.conv # NoConv => saved'[submission'.conv].state # "none")
       <2>1. submission \in Submission
             BY <1>2 DEF SentOK
       <2>2. submission.conv # NoConv => submission.conv \in Convs /\ Listed(submission.conv)
             BY <2>1 DEF Submission, ChatInv, ExistsInv
       <2> QED BY <1>9, <1>11, <2>1, <2>2 DEF Listed
<1>14. \A t \in ToSet(messages) : t.mine /\ submission'.pc # "idle" /\ submission'.q = t.q =>
               /\ submission'.pc \in Fetching
               /\ UNCHANGED submission
       BY <1>11, ShownAreTyped DEF ChatInv, TurnsInv, TurnInv, MineInv
<1> QED BY <1>1, <1>4, <1>7, <1>9, <1>10, <1>12, <1>13, <1>14, ConversationsMove

LEMMA ServeCreateInv == ASSUME ChatInv, ServeCreate PROVE ChatInv'
<1>1. /\ submission.pc = "creating"
      /\ UNCHANGED <<pageVars, answers, loads, removals, spent>>
      BY DEF ServeCreate
<1>2. PageOK /\ ApiOK /\ SentOK
      BY ChatTypesAre DEF ChatInv
<1>3. /\ submission.q \in spent.asked /\ answers[submission.q] = NoAnswer
      /\ submission.handled <= Len(answers[submission.q].wire) /\ submission \in Submission
      BY <1>1, <1>2 DEF ChatInv, SubmissionInv, Asking, SentOK
<1>4. \A t \in ToSet(messages) : t.mine => t.q # submission.q
      BY <1>1 DEF ChatInv, TurnsInv, TurnInv, MineInv, Fetching
<1>5. removals' \in SUBSET Removal /\ UNCHANGED <<answers, spent>>
      BY <1>1, <1>2 DEF SentOK
<1>6. CASE submission' = [submission EXCEPT !.pc = "rejected"] /\ UNCHANGED saved
      <2>1. /\ submission' \in Submission /\ submission'.pc = "rejected" /\ submission'.q = submission.q
            /\ submission'.conv = submission.conv /\ submission'.handled = submission.handled
            BY <1>3, <1>6 DEF Submission
      <2>2. UNCHANGED saved
            BY <1>6
      <2>3. SubmissionInv'
            BY <1>3, <1>5, <2>1 DEF SubmissionInv, Asking, Fetching
      <2>4. submission'.conv # NoConv => saved'[submission'.conv].state # "none"
            BY <2>1, <2>2 DEF ChatInv, ExistsInv, Listed
      <2>5. \A c \in Convs : Listed(c) => /\ saved'[c].state # "none"
                                          /\ saved'[c].state = "open" => saved'[c] = saved[c]
            BY <2>2 DEF Listed
      <2>6. \A c \in Convs, q \in Questions : HasRow(c, q)' => HasRow(c, q)
            BY <2>2 DEF HasRow
      <2>7. saved' \in [Convs -> Conv]
            BY <1>2, <2>2 DEF ApiOK
      <2>8. \A t \in ToSet(messages) : t.mine => t.q # submission'.q
            BY <1>4, <2>1
      <2> QED BY <1>1, <1>5, <2>1, <2>3, <2>4, <2>5, <2>6, <2>7, <2>8, ConversationsMove
<1>7. ASSUME NEW c \in Convs, saved[c].state = "none",
             saved' = [saved EXCEPT ![c].state = "open"],
             submission' = [submission EXCEPT !.pc = "created", !.conv = c]
      PROVE  ChatInv'
      <2>1. /\ submission' \in Submission /\ submission'.pc = "created" /\ submission'.q = submission.q
            /\ submission'.conv = c /\ submission'.handled = submission.handled
            BY <1>3, <1>7 DEF Submission
      <2> DEFINE new == [saved[c] EXCEPT !.state = "open"]
      <2>2. new \in Conv /\ new.state = "open" /\ new.rows = saved[c].rows
            <3>1. saved[c] \in Conv
                  BY <1>2 DEF ApiOK
            <3> QED BY <3>1 DEF Conv
      <2>3. saved' = [saved EXCEPT ![c] = new]
            BY <1>7
      <2> HIDE DEF new
      <2>4. saved' \in [Convs -> Conv] /\ saved'[c] = new
            /\ \A d \in Convs : d # c => saved'[d] = saved[d]
            BY <1>2, <2>2, <2>3 DEF ApiOK
      <2>5. SubmissionInv'
            BY <1>3, <1>5, <2>1 DEF SubmissionInv, Asking, Fetching
      <2>6. submission'.conv # NoConv => saved'[submission'.conv].state # "none"
            BY <2>1, <2>2, <2>4 DEF Listed
      <2>7. \A d \in Convs : Listed(d) => /\ saved'[d].state # "none"
                                          /\ saved'[d].state = "open" => saved'[d] = saved[d]
            BY <1>7, <2>4 DEF Listed
      <2>8. \A d \in Convs, q \in Questions : HasRow(d, q)' => HasRow(d, q)
            <3>1. \A d \in Convs : saved'[d].rows = saved[d].rows
                  BY <2>2, <2>4
            <3> QED BY <3>1 DEF HasRow
      <2>9. \A t \in ToSet(messages) : t.mine => t.q # submission'.q
            BY <1>4, <2>1
      <2> QED BY <1>1, <1>5, <2>1, <2>4, <2>5, <2>6, <2>7, <2>8, <2>9, ConversationsMove
<1> QED BY <1>6, <1>7 DEF ServeCreate


\* An answer that has been started or has grown.
LEMMA AnswerMoves ==
    ASSUME ChatInv, NEW q \in Questions, NEW b \in Answer, NEW x \in Seq(Event),
           UNCHANGED <<pageVars, loads, removals, spent>>, q \in spent.asked,
           answers' = [answers EXCEPT ![q] = b],
           answers[q].state # "ended", b.wire = answers[q].wire \o x,
           AnswerInv(q)', b.state # "none",
           saved' \in [Convs -> Conv],
           \A c \in Convs : saved'[c].state = saved[c].state,
           \A c \in Convs, k \in Questions : k # q \/ answers[q].state # "none" => (HasRow(c, k)' <=> HasRow(c, k)),
           answers[q].state = "none" => submission.q = q /\ submission.pc # "idle" /\ HasRow(submission.conv, q)',
           submission' \in Submission, submission'.q = submission.q,
           submission'.conv = submission.conv, submission'.handled = submission.handled,
           \/ submission' = submission /\ (submission.pc \in Asking \union {"posting"} => submission.q # q)
           \/ submission.pc = "posting" /\ submission'.pc = "reading" /\ submission.q = q
    PROVE  ChatInv'
<1>1. /\ UNCHANGED <<mounted, active, messages, busy, error, loadVersion, lost>>
      /\ UNCHANGED <<loads, removals, spent>>
      BY DEF pageVars
<1>2. PageOK /\ ApiOK /\ SentOK
      BY ChatTypesAre DEF ChatInv
<1>3. answers' \in [Questions -> Answer] /\ answers'[q] = b
      /\ \A k \in Questions : k # q => answers'[k] = answers[k]
      BY <1>2 DEF ApiOK
<1>4. PageOK' /\ ApiOK' /\ SentOK'
      BY <1>1, <1>2, <1>3 DEF PageOK, ApiOK, SentOK
<1>5. ASSUME NEW k \in Questions PROVE AnswerInv(k)'
      <2>1. CASE k = q
            BY <2>1
      <2>2. CASE k # q
            <3>1. AnswerInv(k) /\ answers'[k] = answers[k]
                  BY <1>3, <2>2 DEF ChatInv
            <3>2. \A c \in Convs : HasRow(c, k)' <=> HasRow(c, k)
                  BY <2>2
            <3> QED BY <1>1, <3>1, <3>2 DEF AnswerInv
      <2> QED BY <2>1, <2>2
\* Until it moves, the answer is not a completed one.
<1>6. answers[q] \in Answer /\ AnswerInv(q) /\ answers[q].status # "completed"
      BY <1>2 DEF ChatInv, ApiOK, AnswerInv
<1>7. \A i \in DOMAIN answers[q].wire : answers[q].wire[i] # "completed"
      BY <1>6 DEF AnswerInv, Final
<1>8. ASSUME NEW t \in Turn, LoadedInv(t) PROVE LoadedInv(t)'
      <2>1. t.q \in Questions
            BY DEF Turn
      <2>2. CASE t.q = q
            BY <1>6, <1>8, <2>2 DEF LoadedInv
      <2>3. CASE t.q # q
            <3>1. answers'[t.q] = answers[t.q]
                  BY <1>3, <2>1, <2>3
            <3> QED BY <1>8, <3>1 DEF LoadedInv
      <2> QED BY <2>2, <2>3
<1>9. /\ answers[q].wire \in Seq(Event) /\ Len(answers[q].wire) \in Nat
      /\ Len(b.wire) >= Len(answers[q].wire)
      /\ \A n \in 0..Len(answers[q].wire) : PartsOf(b.wire, 1, n) = PartsOf(answers[q].wire, 1, n)
      <2>1. answers[q].wire \in Seq(Event)
            BY <1>6 DEF Answer
      <2>2. Len(b.wire) = Len(answers[q].wire) + Len(x) /\ Len(answers[q].wire) \in Nat /\ Len(x) \in Nat
            BY <2>1, PartsGrow, LenProperties
      <2>3. ASSUME NEW n \in 0..Len(answers[q].wire)
            PROVE  PartsOf(b.wire, 1, n) = PartsOf(answers[q].wire, 1, n)
            BY <2>1, PartsStay
      <2> QED BY <2>1, <2>2, <2>3
<1>10. submission.handled \in Nat /\ submission.handled <= Len(answers[submission.q].wire)
       BY <1>2 DEF ChatInv, SubmissionInv, SentOK, Submission
<1>11. SubmissionInv'
       <2>1. submission.q \in Questions
             BY <1>2 DEF SentOK, Submission
       <2>2. submission.handled <= Len(answers'[submission.q].wire)
             <3>1. CASE submission.q = q
                   BY <1>3, <1>9, <1>10, <3>1
             <3>2. CASE submission.q # q
                   BY <1>3, <1>10, <2>1, <3>2
             <3> QED BY <3>1, <3>2
       <2>3. CASE submission' = submission /\ (submission.pc \in Asking \union {"posting"} => submission.q # q)
             <3>1. submission.pc \in Asking \union {"posting"} => answers'[submission.q] = answers[submission.q]
                   BY <1>3, <2>1, <2>3
             <3> QED BY <1>1, <2>2, <2>3, <3>1 DEF ChatInv, SubmissionInv
       <2>4. CASE submission.pc = "posting" /\ submission'.pc = "reading" /\ submission.q = q
             <3>1. submission.q \in spent'.asked /\ submission.conv \in Convs
                   BY <1>1, <2>4 DEF ChatInv, SubmissionInv, Fetching
             <3> QED BY <2>2, <2>4, <3>1 DEF SubmissionInv, Asking, Fetching
       <2> QED BY <2>3, <2>4
<1>12. ExistsInv'
       <2>1. active' # NoConv => saved'[active'].state # "none"
             BY <1>1, <1>2 DEF ChatInv, ExistsInv, Listed, PageOK
       <2>2. submission'.conv # NoConv => saved'[submission'.conv].state # "none"
             <3>1. submission.conv # NoConv => submission.conv \in Convs /\ saved[submission.conv].state # "none"
                   BY <1>2 DEF ChatInv, ExistsInv, Listed, SentOK, Submission
             <3> QED BY <3>1
       <2> QED BY <2>1, <2>2 DEF ExistsInv, Listed
<1>13. ASSUME NEW t \in ToSet(messages), t.mine PROVE MineInv(t)'
       <2>1. t \in Turn /\ MineInv(t) /\ t.q \in Questions /\ t.conv \in Convs
             BY <1>13, ShownAreTyped DEF ChatInv, TurnsInv, TurnInv, Turn
       <2>2. /\ t.q \in spent'.asked /\ saved'[t.conv].state # "none"
             BY <1>1, <2>1 DEF MineInv, Listed
       <2>3. submission.pc # "idle" /\ submission.q = t.q =>
                 /\ submission.pc \in Fetching
                 /\ t.conv = submission.conv
                 /\ t.parts = PartsOf(answers[t.q].wire, 1, submission.handled)
             BY <2>1 DEF MineInv
       <2>4. PartsOf(answers'[submission.q].wire, 1, submission.handled)
             = PartsOf(answers[submission.q].wire, 1, submission.handled)
             <3>1. submission.q \in Questions
                   BY <1>2 DEF SentOK, Submission
             <3>2. CASE submission.q = q
                   <4>1. submission.handled \in 0..Len(answers[q].wire)
                         BY <1>9, <1>10, <3>2
                   <4>2. PartsOf(b.wire, 1, submission.handled) = PartsOf(answers[q].wire, 1, submission.handled)
                         BY <1>9, <4>1
                   <4> QED BY <1>3, <3>2, <4>2
             <3>3. CASE submission.q # q
                   BY <1>3, <3>1, <3>3
             <3> QED BY <3>2, <3>3
       <2>5. submission'.pc # "idle" /\ submission'.q = t.q =>
                 /\ submission'.pc \in Fetching
                 /\ t.conv = submission'.conv
                 /\ t.parts = PartsOf(answers'[t.q].wire, 1, submission'.handled)
             <3>1. submission'.pc # "idle" => submission.pc # "idle"
                   OBVIOUS
             <3>2. submission.pc \in Fetching => submission'.pc \in Fetching
                   BY DEF Fetching
             <3> QED BY <2>3, <2>4, <3>1, <3>2
       <2>6. t.status = "completed" =>
                 /\ t.q # q
                 /\ answers'[t.q] = answers[t.q]
             BY <1>3, <1>7, <2>1 DEF MineInv
       <2>7. t.status = "completed" =>
                 /\ \E i \in DOMAIN answers'[t.q].wire : answers'[t.q].wire[i] = "completed"
                 /\ t.parts = Parts(answers'[t.q].wire)
             BY <2>1, <2>6 DEF MineInv
       <2>8. answers'[t.q].state # "none" /\ saved'[t.conv].state = "open" => HasRow(t.conv, t.q)'
             <3>1. CASE t.q = q /\ answers[q].state = "none"
                   BY <2>3, <3>1
             <3>2. CASE t.q = q /\ answers[q].state # "none"
                   BY <2>1, <3>2 DEF MineInv
             <3>3. CASE t.q # q
                   BY <1>3, <2>1, <3>3 DEF MineInv
             <3> QED BY <3>1, <3>2, <3>3
       <2> QED BY <2>2, <2>5, <2>7, <2>8 DEF MineInv, Listed
<1>14. TurnsInv'
       <2>1. \A t \in ToSet(messages) : TurnInv(t)'
             <3>1. ASSUME NEW t \in ToSet(messages), ~t.mine PROVE LoadedInv(t)'
                   BY <1>8, <3>1, ShownAreTyped DEF ChatInv, TurnsInv, TurnInv
             <3> QED BY <1>13, <3>1 DEF TurnInv
       <2> QED BY <1>1, <2>1 DEF TurnsInv
<1>15. LoadsInv'
       BY <1>1, <1>8, LoadedAreTyped DEF ChatInv, LoadsInv
<1>16. ShowsSelected'
       BY <1>1 DEF ChatInv, ShowsSelected, Pending
<1> QED BY <1>4, <1>5, <1>11, <1>12, <1>14, <1>15, <1>16, ChatTypesAreNext DEF ChatInv

\* The question is saved with an answer that is to come.
LEMMA PostedInv ==
    ASSUME ChatInv, ApiOK, submission \in Submission,
           NEW q \in Questions, NEW c \in Convs, submission.q = q, submission.conv = c,
           submission.pc = "posting", answers[q] = NoAnswer, q \in spent.asked,
           UNCHANGED <<pageVars, loads, removals, spent>>, removals \in SUBSET Removal,
           saved[c].state = "open",
           NEW new, new = [saved[c] EXCEPT !.rows = Append(@, q)],
           NEW b, b = [NoAnswer EXCEPT !.state = "open"],
           saved' = [saved EXCEPT ![c] = new],
           answers' = [answers EXCEPT ![q] = b],
           submission' = [submission EXCEPT !.pc = "reading"]
    PROVE  ChatInv'
<1>1. /\ submission' \in Submission /\ submission'.pc = "reading" /\ submission'.q = q
      /\ submission'.conv = c /\ submission'.handled = submission.handled
      BY DEF Submission, Fetching
<1>2. /\ new \in Conv /\ new.state = saved[c].state /\ new.rows = Append(saved[c].rows, q)
      /\ saved[c].rows \in Seq(Questions)
      <2>1. saved[c] \in Conv
            BY DEF ApiOK
      <2>2. saved[c].rows \in Seq(Questions)
            BY <2>1 DEF Conv
      <2>3. Append(saved[c].rows, q) \in Seq(Questions)
            BY <2>2, AppendProperties
      <2> QED BY <2>1, <2>2, <2>3 DEF Conv
<1>3. b \in Answer /\ b.state = "open" /\ b.status = "generating" /\ b.wire = <<>> /\ b.parts = 0
      <2>1. <<>> \in Seq(Event) /\ 0 \in 0..MaxParts
            BY EmptySeq, QuestionAssumption
      <2> QED BY <2>1 DEF NoAnswer, Answer, Status
<1>4. /\ saved' \in [Convs -> Conv] /\ saved'[c] = new
      /\ \A d \in Convs : d # c => saved'[d] = saved[d]
      BY <1>2 DEF ApiOK
<1>5. \A d \in Convs : saved'[d].state = saved[d].state
      BY <1>2, <1>4
<1>6. /\ DOMAIN new.rows = 1..(Len(saved[c].rows) + 1) /\ Len(saved[c].rows) \in Nat
      /\ DOMAIN saved[c].rows = 1..Len(saved[c].rows)
      /\ new.rows[Len(saved[c].rows) + 1] = q
      /\ \A i \in 1..Len(saved[c].rows) : new.rows[i] = saved[c].rows[i]
      BY <1>2, AppendProperties, LenProperties
<1>7. \E i \in DOMAIN saved'[c].rows : saved'[c].rows[i] = q
      BY <1>4, <1>6
<1>8. ASSUME NEW d \in Convs, NEW k \in Questions, k # q PROVE HasRow(d, k)' <=> HasRow(d, k)
      <2>1. CASE d # c
            BY <1>4, <2>1 DEF HasRow
      <2>2. CASE d = c
            <3>1. (\E i \in DOMAIN new.rows : new.rows[i] = k)
                  <=> \E i \in DOMAIN saved[c].rows : saved[c].rows[i] = k
                  <4>1. \A i \in 1..(Len(saved[c].rows) + 1) :
                           i \in 1..Len(saved[c].rows) \/ i = Len(saved[c].rows) + 1
                        BY <1>6
                  <4>2. \A i \in 1..Len(saved[c].rows) : i \in 1..(Len(saved[c].rows) + 1)
                        BY <1>6
                  <4> QED BY <1>6, <1>8, <4>1, <4>2
            <3> QED BY <1>4, <2>2, <3>1 DEF HasRow
      <2> QED BY <2>1, <2>2
<1>9. answers'[q] = b
       BY <1>3 DEF ApiOK
<1>10. AnswerInv(q)'
       <2>1. Parts(b.wire) <= MaxParts /\ DOMAIN b.wire = {}
             BY <1>3, NoPartsInNothing, QuestionAssumption
       <2>2. q \in spent'.asked
             OBVIOUS
       <2> QED BY <1>1, <1>3, <1>9, <2>1, <2>2 DEF AnswerInv
<1>11. answers[q].state = "none" /\ answers[q].wire = <<>>
       BY NoAnswerIs
<1>12. b.wire = answers[q].wire \o <<>> /\ <<>> \in Seq(Event)
       <2>1. <<>> \in Seq(Event) /\ <<>> = <<>> \o <<>>
             BY EmptySeq, ConcatEmptySeq
       <2> QED BY <1>3, <1>11, <2>1
<1>13. \A d \in Convs, k \in Questions : k # q \/ answers[q].state # "none" => (HasRow(d, k)' <=> HasRow(d, k))
       BY <1>8, <1>11
<1>14. HasRow(c, q)'
       BY <1>7 DEF HasRow
<1>15. HasRow(submission.conv, q)'
       BY <1>1, <1>14 DEF HasRow
<1>16. b.state # "none" /\ answers[q].state # "ended"
       BY <1>3, <1>11
<1> QED BY <1>1, <1>3, <1>4, <1>5, <1>10, <1>11, <1>12, <1>13, <1>15, <1>16, AnswerMoves

LEMMA ServePostInv == ASSUME ChatInv, ServePost PROVE ChatInv'
<1> DEFINE c == submission.conv
           q == submission.q
<1>1. submission.pc = "posting" /\ UNCHANGED <<pageVars, loads, removals, spent>>
      BY DEF ServePost
<1>2. PageOK /\ ApiOK /\ SentOK
      BY ChatTypesAre DEF ChatInv
<1>3. /\ submission \in Submission /\ q \in Questions /\ c \in Convs /\ q \in spent.asked
      /\ answers[q] = NoAnswer /\ Listed(c)
      BY <1>1, <1>2, NoConvAssumption DEF ChatInv, SubmissionInv, ExistsInv, Fetching, SentOK, Submission
<1>4. CASE submission' = [submission EXCEPT !.pc = "refused"] /\ UNCHANGED apiVars
      <2>1. /\ submission' \in Submission /\ submission'.pc = "refused" /\ submission'.q = q
            /\ submission'.conv = c /\ submission'.handled = submission.handled
            BY <1>3, <1>4 DEF Submission, Fetching
      <2>2. UNCHANGED <<saved, answers>>
            BY <1>4 DEF apiVars
      <2>3. UNCHANGED <<mounted, active, messages, busy, error, loadVersion, lost>>
            /\ UNCHANGED <<loads, removals, spent>>
            BY <1>1 DEF pageVars
      <2>4. SubmissionInv'
            BY <1>1, <1>3, <2>1, <2>2, <2>3 DEF ChatInv, SubmissionInv, Asking, Fetching
      <2>5. ASSUME NEW t \in ToSet(messages), t.mine PROVE MineInv(t)'
            <3>1. MineInv(t)
                  BY <2>5 DEF ChatInv, TurnsInv, TurnInv
            <3>2. submission.pc # "idle" /\ submission.q = t.q =>
                      /\ t.conv = submission.conv
                      /\ t.parts = PartsOf(answers[t.q].wire, 1, submission.handled)
                  BY <3>1 DEF MineInv
            <3>3. submission'.pc \in Fetching
                  BY <2>1 DEF Fetching
            <3> QED BY <1>1, <2>1, <2>2, <2>3, <3>1, <3>2, <3>3, MineStays
      <2>6. TurnsInv'
            <3>1. \A t \in ToSet(messages) : ~t.mine => LoadedInv(t)'
                  BY <2>2, <2>3, NothingIsSaved, ShownAreTyped DEF ChatInv, TurnsInv, TurnInv
            <3>2. \A t \in ToSet(messages) : TurnInv(t)'
                  BY <2>5, <3>1 DEF TurnInv
            <3> QED BY <2>3, <3>2 DEF TurnsInv
      <2>7. busy' \in BOOLEAN /\ error' \in BOOLEAN /\ messages' \in Seq(Turn)
            BY <1>2, <2>3 DEF PageOK
      <2> QED BY <1>4, <2>1, <2>3, <2>4, <2>6, <2>7, TurnsStep
<1>5. CASE /\ saved[c].state = "open"
           /\ saved' = [saved EXCEPT ![c].rows = Append(@, q)]
           /\ answers' = [answers EXCEPT ![q].state = "open"]
           /\ submission' = [submission EXCEPT !.pc = "reading"]
      <2>1. ASSUME NEW k \in Questions, k = q, NEW d \in Convs, d = c,
                   NEW new, new = [saved[d] EXCEPT !.rows = Append(@, k)],
                   NEW b, b = [NoAnswer EXCEPT !.state = "open"]
            PROVE  ChatInv'
            <3>1. saved' = [saved EXCEPT ![d] = new]
                  BY <1>5, <2>1
            <3>2. answers' = [answers EXCEPT ![k] = b]
                  BY <1>3, <1>5, <2>1
            <3>3. saved[d].state = "open" /\ submission' = [submission EXCEPT !.pc = "reading"]
                  BY <1>5, <2>1
            <3>4. /\ submission.q = k /\ submission.conv = d /\ answers[k] = NoAnswer /\ k \in spent.asked
                  /\ removals \in SUBSET Removal
                  BY <1>2, <1>3, <2>1 DEF SentOK
            <3> QED BY <1>1, <1>2, <1>3, <2>1, <3>1, <3>2, <3>3, <3>4, PostedInv
      <2> QED BY <1>3, <2>1
<1> QED BY <1>4, <1>5 DEF ServePost

\* An answer that is being written grows, or ends.
LEMMA GrownInv ==
    ASSUME ChatInv, NEW q \in Questions, NEW b \in Answer, NEW x \in Seq(Event),
           UNCHANGED <<pageVars, loads, removals, spent>>, UNCHANGED <<saved, submission>>,
           answers' = [answers EXCEPT ![q] = b], answers[q].state = "open",
           b.wire = answers[q].wire \o x, b.state # "none", AnswerInv(q)'
    PROVE  ChatInv'
<1>1. ApiOK /\ SentOK
      BY ChatTypesAre DEF ChatInv
<1>2. q \in spent.asked
      BY DEF ChatInv, AnswerInv
<1>3. saved' \in [Convs -> Conv] /\ \A c \in Convs : saved'[c].state = saved[c].state
      BY <1>1 DEF ApiOK
<1>4. \A c \in Convs, k \in Questions : HasRow(c, k)' <=> HasRow(c, k)
      BY DEF HasRow
<1>5. submission \in Submission
      BY <1>1 DEF SentOK
<1>6. submission.pc \in Asking \union {"posting"} => submission.q # q
      <2>1. submission.pc \in Asking \union {"posting"} => answers[submission.q] = NoAnswer
            BY DEF ChatInv, SubmissionInv
      <2> QED BY <2>1, NoAnswerIs
<1> QED BY <1>2, <1>3, <1>4, <1>5, <1>6, AnswerMoves

\* A wire that grows by events that are not the last ones stays open.
LEMMA GenerateInv == ASSUME ChatInv, NEW q \in Questions, Generate(q) PROVE ChatInv'
<1> DEFINE w == answers[q].wire
           b == [answers[q] EXCEPT !.wire = Append(w, "part")]
<1>1. /\ answers[q].state = "open" /\ Parts(w) < MaxParts
      /\ answers' = [answers EXCEPT ![q] = b]
      /\ UNCHANGED <<pageVars, saved, submission, loads, removals, spent>>
      BY DEF Generate
<1>2. ApiOK /\ SentOK /\ AnswerInv(q) /\ answers[q] \in Answer
      BY ChatTypesAre DEF ChatInv, ApiOK
<1>3. w \in Seq(Event) /\ <<"part">> \in Seq(Event) /\ Len(<<"part">>) = 1 /\ "part" \notin Final
      /\ "part" \in Event
      BY <1>2 DEF Answer, Event, Final
<1>4. Append(w, "part") = w \o <<"part">>
      <2> HIDE DEF w
      <2> QED BY <1>3
<1>5. /\ w \o <<"part">> \in Seq(Event) /\ Len(w \o <<"part">>) = Len(w) + 1
      /\ \A i \in 1..Len(w) : (w \o <<"part">>)[i] = w[i]
      /\ (w \o <<"part">>)[Len(w) + 1] = "part"
      /\ Parts(w \o <<"part">>) = Parts(w) + PartsOf(w \o <<"part">>, Len(w) + 1, Len(w) + 1)
      <2> HIDE DEF w
      <2> DEFINE x == <<"part">>
      <2>1. /\ w \o x \in Seq(Event) /\ Len(w \o x) = Len(w) + Len(x)
            /\ \A i \in 1..Len(w) : (w \o x)[i] = w[i]
            /\ \A i \in 1..Len(x) : (w \o x)[Len(w) + i] = x[i]
            /\ Parts(w \o x) = Parts(w) + PartsOf(w \o x, Len(w) + 1, Len(w) + Len(x))
            BY <1>3, PartsGrow
      <2>2. Len(x) = 1 /\ x[1] = "part"
            OBVIOUS
      <2> HIDE DEF x
      <2>3. /\ w \o x \in Seq(Event) /\ Len(w \o x) = Len(w) + 1
            /\ \A i \in 1..Len(w) : (w \o x)[i] = w[i]
            /\ (w \o x)[Len(w) + 1] = "part"
            /\ Parts(w \o x) = Parts(w) + PartsOf(w \o x, Len(w) + 1, Len(w) + 1)
            BY <2>1, <2>2
      <2> QED BY <2>3 DEF x
<1> DEFINE v == w \o <<"part">>
<1>6. /\ v \in Seq(Event) /\ Len(v) = Len(w) + 1 /\ DOMAIN v = 1..(Len(w) + 1)
      /\ Len(w) \in Nat /\ DOMAIN w = 1..Len(w)
      /\ \A i \in 1..Len(w) : v[i] = w[i]
      /\ v[Len(w) + 1] = "part"
      /\ Parts(v) = Parts(w) + PartsOf(v, Len(w) + 1, Len(w) + 1)
      BY <1>3, <1>5, LenProperties
<1> HIDE DEF v
<1>7. PartsOf(v, Len(w) + 1, Len(w) + 1) = 1
      <2>1. {i \in (Len(w) + 1)..(Len(w) + 1) : v[i] = "part"} = {Len(w) + 1}
            BY <1>6
      <2> QED BY <2>1, FS_Singleton DEF PartsOf
<1>8. Parts(w) \in Nat
      <2>1. 1 \in Nat
            OBVIOUS
      <2> QED BY <1>6, <2>1, PartsAreCounted DEF Parts
<1>9. Parts(v) <= MaxParts
      BY <1>1, <1>6, <1>7, <1>8, QuestionAssumption
<1>10. /\ b \in Answer /\ b.state = "open" /\ b.status = answers[q].status /\ b.wire = v
       <2>1. b = [answers[q] EXCEPT !.wire = v]
             BY <1>4 DEF v
       <2> HIDE DEF b
       <2> QED BY <1>1, <1>2, <1>6, <2>1 DEF Answer
<1>11. q \in spent.asked /\ answers[q].status # "completed" /\ \A i \in DOMAIN w : w[i] \notin Final
       BY <1>1, <1>2 DEF AnswerInv
<1>12. \A i \in DOMAIN v : v[i] \notin Final
       <2>1. \A i \in DOMAIN v : i \in DOMAIN w \/ i = Len(w) + 1
             BY <1>6
       <2> HIDE DEF w
       <2> QED BY <1>3, <1>6, <1>11, <2>1
<1> HIDE DEF w, b
<1>13. answers'[q] = b /\ q \in spent'.asked
       BY <1>1, <1>2, <1>11 DEF ApiOK
<1>14. AnswerInv(q)'
       BY <1>9, <1>10, <1>11, <1>12, <1>13 DEF AnswerInv, Final
<1>15. b.wire = answers[q].wire \o <<"part">>
       BY <1>10 DEF v, w
<1>16. UNCHANGED <<pageVars, loads, removals, spent>> /\ UNCHANGED <<saved, submission>>
       BY <1>1
<1> QED BY <1>1, <1>3, <1>10, <1>11, <1>13, <1>14, <1>15, <1>16, GrownInv


\* What persist leaves of an answer.
LEMMA PersistedIs ==
    ASSUME ChatInv, NEW q \in Questions, answers[q].state = "open", NEW status \in Status,
           NEW b, b = Persisted(q, status)
    PROVE  /\ b \in Answer /\ b.state = "ended" /\ b.wire = answers[q].wire
           /\ (\E c \in Convs : HasRow(c, q)) =>
                 b.status = status /\ b.parts = Parts(answers[q].wire)
           /\ ~(\E c \in Convs : HasRow(c, q)) => b.status = answers[q].status
<1>1. answers[q] \in Answer /\ AnswerInv(q)
      BY ChatTypesAre DEF ChatInv, ApiOK
<1> DEFINE n == Parts(answers[q].wire)
<1>2. n \in 0..MaxParts
      <2>1. answers[q].wire \in Seq(Event) /\ Len(answers[q].wire) \in Nat /\ 1 \in Nat
            BY <1>1, LenProperties DEF Answer
      <2>2. n \in Nat
            BY <2>1, PartsAreCounted DEF Parts
      <2> QED BY <1>1, <2>2, QuestionAssumption DEF AnswerInv
<1> HIDE DEF n
<1>3. CASE \E c \in Convs : HasRow(c, q)
      <2>1. b = [answers[q] EXCEPT !.state = "ended", !.status = status, !.parts = n]
            BY <1>3 DEF Persisted, HasRow, n
      <2>2. b \in Answer /\ b.state = "ended" /\ b.wire = answers[q].wire /\ b.status = status /\ b.parts = n
            BY <1>1, <1>2, <2>1 DEF Answer
      <2> QED BY <1>3, <2>2 DEF n
<1>4. CASE ~(\E c \in Convs : HasRow(c, q))
      <2>1. b = [answers[q] EXCEPT !.state = "ended"]
            BY <1>4 DEF Persisted, HasRow
      <2>2. b \in Answer /\ b.state = "ended" /\ b.wire = answers[q].wire /\ b.status = answers[q].status
            BY <1>1, <2>1 DEF Answer
      <2> QED BY <1>4, <2>2
<1> QED BY <1>3, <1>4

LEMMA EndingIs ==
    ASSUME NEW status \in {"completed", "failed"}, NEW e, e = Ending(status)
    PROVE  /\ e \in Seq(Event) /\ Len(e) \in {1, 2} /\ e[Len(e)] = status
           /\ \A i \in 1..Len(e) : e[i] # "part" /\ (e[i] \in Final => i = Len(e))
<1>1. CASE status = "failed"
      <2>1. e = <<"error", "failed">>
            BY <1>1 DEF Ending
      <2>2. e \in Seq(Event)
            BY <2>1 DEF Event, Final
      <2>3. Len(e) = 2 /\ e[1] = "error" /\ e[2] = "failed"
            BY <2>1
      <2>4. ASSUME NEW i \in 1..Len(e) PROVE e[i] # "part" /\ (e[i] \in Final => i = Len(e))
            <3>1. i = 1 \/ i = 2
                  BY <2>3
            <3>2. "error" \notin Final
                  BY DEF Final
            <3> QED BY <2>3, <3>1, <3>2
      <2> QED BY <1>1, <2>2, <2>3, <2>4
<1>2. CASE status = "completed"
      <2>1. e = <<"completed">>
            BY <1>2 DEF Ending
      <2>2. e \in Seq(Event)
            BY <2>1 DEF Event, Final
      <2>3. Len(e) = 1 /\ e[1] = "completed"
            BY <2>1
      <2> QED BY <1>2, <2>2, <2>3
<1> QED BY <1>1, <1>2

LEMMA FinishInv ==
    ASSUME ChatInv, NEW q \in Questions, NEW status \in {"completed", "failed"}, Finish(q, status)
    PROVE  ChatInv'
<1>1. SUFFICES ASSUME NEW p, p = Persisted(q, status), NEW e, e = Ending(status),
                      NEW w, w = answers[q].wire, NEW b, b = [p EXCEPT !.wire = @ \o e]
               PROVE  ChatInv'
      OBVIOUS
<1>2. /\ answers[q].state = "open" /\ answers' = [answers EXCEPT ![q] = b]
      /\ UNCHANGED <<pageVars, saved, submission, loads, removals, spent>>
      BY <1>1 DEF Finish
<1>3. ApiOK /\ AnswerInv(q) /\ answers[q] \in Answer
      BY ChatTypesAre DEF ChatInv, ApiOK
<1>4. /\ p \in Answer /\ p.state = "ended" /\ p.wire = w
      /\ (\E c \in Convs : HasRow(c, q)) => p.status = status /\ p.parts = Parts(w)
      /\ ~(\E c \in Convs : HasRow(c, q)) => p.status = answers[q].status
      <2>1. status \in Status
            BY DEF Status, Final
      <2> QED BY <1>1, <1>2, <2>1, PersistedIs
<1>5. /\ e \in Seq(Event) /\ Len(e) \in {1, 2} /\ e[Len(e)] = status
      /\ \A i \in 1..Len(e) : e[i] # "part" /\ (e[i] \in Final => i = Len(e))
      BY <1>1, EndingIs
<1>6. w \in Seq(Event) /\ Len(w) \in Nat /\ DOMAIN w = 1..Len(w)
      BY <1>1, <1>3, LenProperties DEF Answer
<1> DEFINE v == w \o e
<1>7. /\ v \in Seq(Event) /\ Len(v) = Len(w) + Len(e) /\ DOMAIN v = 1..(Len(w) + Len(e))
      /\ \A i \in 1..Len(w) : v[i] = w[i]
      /\ \A i \in 1..Len(e) : v[Len(w) + i] = e[i]
      /\ Parts(v) = Parts(w) + PartsOf(v, Len(w) + 1, Len(w) + Len(e))
      <2>1. /\ v \in Seq(Event) /\ Len(v) = Len(w) + Len(e)
            /\ \A i \in 1..Len(w) : v[i] = w[i]
            /\ \A i \in 1..Len(e) : v[Len(w) + i] = e[i]
            /\ Parts(v) = Parts(w) + PartsOf(v, Len(w) + 1, Len(w) + Len(e))
            BY <1>5, <1>6, PartsGrow
      <2> HIDE DEF v
      <2> QED BY <2>1, LenProperties
<1>8. b \in Answer /\ b.state = "ended" /\ b.wire = v /\ b.status = p.status /\ b.parts = p.parts
      <2>1. b = [p EXCEPT !.wire = v]
            BY <1>1, <1>4
      <2> HIDE DEF v
      <2> QED BY <1>4, <1>7, <2>1 DEF Answer
<1> HIDE DEF v
<1>9. \A i \in DOMAIN v : i \in 1..Len(w) \/ (i - Len(w) \in 1..Len(e) /\ i = Len(w) + (i - Len(w)))
      BY <1>5, <1>6, <1>7
<1>10. PartsOf(v, Len(w) + 1, Len(w) + Len(e)) = 0
       <2>1. ASSUME NEW i \in (Len(w) + 1)..(Len(w) + Len(e)) PROVE v[i] # "part"
             <3>1. i - Len(w) \in 1..Len(e) /\ i = Len(w) + (i - Len(w))
                   BY <1>5, <1>6
             <3> QED BY <1>5, <1>7, <3>1
       <2> QED BY <2>1, NoParts
<1>11. Parts(v) = Parts(w) /\ Parts(v) <= MaxParts
       <2>1. 1 \in Nat
             OBVIOUS
       <2>2. Parts(w) \in Nat
             BY <1>6, <2>1, PartsAreCounted DEF Parts
       <2> QED BY <1>1, <1>3, <1>7, <1>10, <2>2 DEF AnswerInv
<1>12. \A i \in 1..Len(w) : w[i] \notin Final
       BY <1>1, <1>2, <1>3, <1>6 DEF AnswerInv
<1>13. ASSUME NEW i \in DOMAIN v, v[i] \in Final PROVE i = Len(v) /\ v[i] = status
       <2>1. CASE i \in 1..Len(w)
             BY <1>7, <1>12, <1>13, <2>1
       <2>2. CASE i - Len(w) \in 1..Len(e) /\ i = Len(w) + (i - Len(w))
             <3> DEFINE j == i - Len(w)
             <3>1. j \in 1..Len(e) /\ i = Len(w) + j /\ v[i] = e[j]
                   BY <1>7, <2>2
             <3>2. j = Len(e)
                   BY <1>5, <1>13, <3>1
             <3> QED BY <1>5, <1>7, <3>1, <3>2
       <2> QED BY <1>9, <2>1, <2>2
<1>14. answers'[q] = b /\ q \in spent.asked /\ spent' = spent /\ saved' = saved
       BY <1>2, <1>3, <1>8 DEF ApiOK, AnswerInv
<1>15. AnswerInv(q)'
       <2>1. \A i \in DOMAIN v : v[i] = "completed" =>
                \/ b.status = "completed" /\ b.parts = Parts(v)
                \/ \A c \in Convs : ~HasRow(c, q)
             <3>1. \A i \in DOMAIN v : v[i] = "completed" => status = "completed"
                   BY <1>13 DEF Final
             <3> QED BY <1>4, <1>8, <1>11, <3>1
       <2>2. \A c \in Convs : HasRow(c, q)' <=> HasRow(c, q)
             BY <1>14 DEF HasRow
       <2> QED BY <1>8, <1>11, <1>13, <1>14, <2>1, <2>2 DEF AnswerInv
<1>16. b.wire = answers[q].wire \o e
       BY <1>1, <1>8 DEF v
<1>17. UNCHANGED <<pageVars, loads, removals, spent>> /\ UNCHANGED <<saved, submission>> /\ b.state # "none"
       BY <1>2, <1>8
<1> QED BY <1>2, <1>5, <1>8, <1>15, <1>16, <1>17, GrownInv

LEMMA BreakInv == ASSUME ChatInv, NEW q \in Questions, Break(q) PROVE ChatInv'
<1>1. PICK b \in {Persisted(q, status) : status \in Final}
                  \union {[answers[q] EXCEPT !.state = "ended"]} :
             answers' = [answers EXCEPT ![q] = b]
      BY DEF Break
<1>2. /\ answers[q].state = "open"
      /\ UNCHANGED <<pageVars, saved, submission, loads, removals, spent>>
      BY DEF Break
<1>3. ApiOK /\ AnswerInv(q) /\ answers[q] \in Answer
      BY ChatTypesAre DEF ChatInv, ApiOK
<1>4. b \in Answer /\ b.state = "ended" /\ b.wire = answers[q].wire
      <2>1. ASSUME NEW status \in Final, b = Persisted(q, status)
            PROVE  b \in Answer /\ b.state = "ended" /\ b.wire = answers[q].wire
            <3>1. status \in Status
                  BY DEF Status
            <3> QED BY <1>2, <2>1, <3>1, PersistedIs
      <2>2. CASE b = [answers[q] EXCEPT !.state = "ended"]
            BY <1>3, <2>2 DEF Answer
      <2> QED BY <1>1, <2>1, <2>2
<1>5. /\ answers[q].wire \in Seq(Event) /\ <<>> \in Seq(Event)
      /\ b.wire = answers[q].wire \o <<>>
      <2>1. answers[q].wire \in Seq(Event)
            BY <1>3 DEF Answer
      <2> QED BY <1>4, <2>1, EmptySeq, ConcatEmptySeq
<1>6. answers'[q] = b /\ q \in spent.asked /\ spent' = spent
      BY <1>1, <1>2, <1>3, <1>4 DEF ApiOK, AnswerInv
<1>7. \A i \in DOMAIN answers[q].wire : answers[q].wire[i] \notin Final
      BY <1>2, <1>3 DEF AnswerInv
<1>8. AnswerInv(q)'
      BY <1>3, <1>4, <1>6, <1>7 DEF AnswerInv, Final
<1>9. UNCHANGED <<pageVars, loads, removals, spent>> /\ UNCHANGED <<saved, submission>> /\ b.state # "none"
      BY <1>2, <1>4
<1> QED BY <1>1, <1>2, <1>4, <1>5, <1>8, <1>9, GrownInv

---------------------------------------------------------------------------
(* The page. *)

LEMMA ChatQuietInv == ASSUME ChatInv, UNCHANGED chatVars PROVE ChatInv'
<1>1. /\ UNCHANGED <<mounted, active, messages, busy, error, loadVersion, lost, saved, answers>>
      /\ UNCHANGED <<submission, loads, removals, spent>>
      BY DEF chatVars, pageVars, apiVars
<1>2. PageOK /\ ApiOK /\ SentOK
      BY ChatTypesAre DEF ChatInv
<1>3. PageOK' /\ ApiOK' /\ SentOK'
      BY <1>1, <1>2 DEF PageOK, ApiOK, SentOK
<1>4. ExistsInv'
      BY <1>1 DEF ChatInv, ExistsInv, Listed
<1>5. UNCHANGED apiVars
      BY <1>1 DEF apiVars
<1>6. ShowsSelected'
      BY <1>1 DEF ChatInv, ShowsSelected, Pending
<1> QED BY <1>1, <1>2, <1>3, <1>5, <1>6, PageStep

LEMMA ChatNextInv == ASSUME ChatInv, [ChatNext]_chatVars PROVE ChatInv'
<1>1. CASE User
      BY <1>1, SelectInv, NewConversationInv, DeleteInv, SubmitInv, StopInv, LeaveInv DEF User
<1>2. CASE Page
      <2>1. Refused => ChatInv'
            BY SettleInv DEF Refused
      <2>2. StreamEnds => ChatInv'
            <3>1. (~Completed) \in BOOLEAN
                  OBVIOUS
            <3>2. ASSUME NEW f \in BOOLEAN, Settle(f) PROVE ChatInv'
                  BY <3>2, SettleInv
            <3> QED BY <3>1, <3>2 DEF StreamEnds
      <2>3. Aborted => ChatInv'
            BY SettleInv DEF Aborted
      <2> QED BY <1>2, <2>1, <2>2, <2>3, LoadReturnInv, RemoveReturnInv, CreatedInv, ReadInv DEF Page
<1>3. CASE Api
      <2>1. ASSUME NEW q \in Questions,
                   Generate(q) \/ Break(q) \/ \E s \in {"completed", "failed"} : Finish(q, s)
            PROVE  ChatInv'
            BY <2>1, GenerateInv, BreakInv, FinishInv
      <2> QED BY <1>3, <2>1, ServeLoadInv, ServeRemoveInv, ServeCreateInv, ServePostInv DEF Api
<1>4. CASE ConnectionLost
      BY <1>4, SettleInv DEF ConnectionLost
<1>5. CASE UNCHANGED chatVars
      BY <1>5, ChatQuietInv
<1> QED BY <1>1, <1>2, <1>3, <1>4, <1>5 DEF ChatNext

\* A turn of the page shows what has been read of its stream, and a stream that
\* tells of a whole answer tells of a saved one.
LEMMA ChatPromises == ChatInv => ChatTypeOK /\ ShowsSelected /\ CompletedIsSaved
<1> SUFFICES ASSUME ChatInv PROVE CompletedIsSaved
    BY DEF ChatInv
<1>1. SUFFICES ASSUME NEW t \in ToSet(messages), t.status = "completed", saved[t.conv].state = "open"
               PROVE  answers[t.q].status = "completed" /\ t.parts = answers[t.q].parts
      BY DEF CompletedIsSaved, ToSet
<1>2. t \in Turn /\ TurnInv(t)
      BY ShownAreTyped DEF ChatInv, TurnsInv
<1>3. CASE ~t.mine
      BY <1>1, <1>2, <1>3 DEF TurnInv, LoadedInv
<1>4. CASE t.mine
      <2>1. MineInv(t) /\ t.q \in Questions /\ t.conv \in Convs
            BY <1>2, <1>4 DEF TurnInv, Turn
      <2>2. AnswerInv(t.q)
            BY <2>1 DEF ChatInv
      <2>3. PICK i \in DOMAIN answers[t.q].wire : answers[t.q].wire[i] = "completed"
            BY <1>1, <2>1 DEF MineInv
      <2>4. answers[t.q].state = "ended"
            BY <2>2, <2>3 DEF AnswerInv, Final
      <2>5. HasRow(t.conv, t.q)
            BY <1>1, <2>1, <2>4 DEF MineInv
      <2>6. answers[t.q].status = "completed" /\ answers[t.q].parts = Parts(answers[t.q].wire)
            BY <2>1, <2>2, <2>3, <2>5 DEF AnswerInv
      <2> QED BY <1>1, <2>1, <2>6 DEF MineInv
<1> QED BY <1>3, <1>4

\* Only Settle lets a question come to its end.
LEMMA EndsAreTold ==
    ASSUME ChatInv, [ChatNext]_chatVars
    PROVE  [busy /\ ~busy' => Completed \/ submission.aborted \/ error']_chatVars
<1>1. SUFFICES ASSUME ChatNext, busy, ~busy' PROVE Completed \/ submission.aborted \/ error'
      OBVIOUS
<1>2. busy' # busy
      BY <1>1
<1>3. ~User
      BY <1>1, <1>2 DEF User, Select, NewConversation, Delete, Submit, Stop, Leave, pageVars
<1>4. ~Api
      BY <1>2 DEF Api, ServeLoad, ServeRemove, ServeCreate, ServePost, Generate, Break, Finish, pageVars
<1>5. Refused \/ StreamEnds \/ Aborted \/ ConnectionLost
      BY <1>1, <1>2, <1>3, <1>4 DEF ChatNext, Page, LoadReturn, RemoveReturn, Created, Read
<1>6. CASE Refused \/ ConnectionLost
      BY <1>6 DEF Refused, ConnectionLost, Settle
<1>7. CASE StreamEnds
      BY <1>7 DEF StreamEnds, Settle
<1>8. CASE Aborted
      BY <1>8 DEF Aborted
<1> QED BY <1>5, <1>6, <1>7, <1>8

---------------------------------------------------------------------------
(* The application. *)

WorkspaceInv == ChatInv /\ UploadsInv /\ ChangesInv

\* A step of the application is one of a page, and leaves the others alone.
LEMMA StepsApart ==
    [Next]_vars => [ChatNext]_chatVars /\ [LibNext]_libVars /\ [MembersNext]_memberVars
<1>1. ASSUME UNCHANGED vars PROVE UNCHANGED chatVars /\ UNCHANGED libVars /\ UNCHANGED memberVars
      BY <1>1 DEF vars
<1>2. OnChat(ChatNext) => ChatNext /\ UNCHANGED libVars /\ UNCHANGED memberVars
      BY DEF OnChat
<1>3. OnLibrary(LibNext) => LibNext /\ UNCHANGED chatVars /\ UNCHANGED memberVars
      BY DEF OnLibrary
<1>4. OnAdmin(MembersNext) => MembersNext /\ UNCHANGED chatVars /\ UNCHANGED libVars
      BY DEF OnAdmin
<1> QED BY <1>1, <1>2, <1>3, <1>4 DEF Next

\* The invariant of the three pages, from which the properties follow.
THEOREM WorkspaceInvariance == Spec => []WorkspaceInv
<1>1. Init => WorkspaceInv
      BY ChatInitInv, LibInitInv, MembersInitInv DEF Init, WorkspaceInv
<1>2. WorkspaceInv /\ [Next]_vars => WorkspaceInv'
      <2> SUFFICES ASSUME WorkspaceInv, [Next]_vars PROVE WorkspaceInv'
          OBVIOUS
      <2>1. [ChatNext]_chatVars /\ [LibNext]_libVars /\ [MembersNext]_memberVars
            BY StepsApart
      <2>2. ChatInv'
            BY <2>1, ChatNextInv DEF WorkspaceInv
      <2>3. UploadsInv'
            BY <2>1, LibNextInv DEF WorkspaceInv
      <2>4. ChangesInv'
            BY <2>1, MembersNextInv DEF WorkspaceInv
      <2> QED BY <2>2, <2>3, <2>4 DEF WorkspaceInv
<1> QED BY <1>1, <1>2, PTL DEF Spec

\* Types; and the form for uploads is never left busy without an upload, and
\* is busy for the one that there is, unless an old picker let in a second.
THEOREM PagesAreSafe == Spec => []PagesInv
<1>1. WorkspaceInv => PagesInv
      <2> SUFFICES ASSUME WorkspaceInv PROVE PagesInv
          OBVIOUS
      <2>1. ChatTypeOK
            BY ChatPromises DEF WorkspaceInv
      <2>2. LibTypeOK /\ FormIsFreed
            BY FormPromises DEF WorkspaceInv, UploadsInv
      <2>3. MembersTypeOK
            BY DEF WorkspaceInv, ChangesInv
      <2> QED BY <2>1, <2>2, <2>3 DEF PagesInv, TypeOK
<1> QED BY <1>1, WorkspaceInvariance, PTL

\* What Chat shows belongs to the conversation that is selected, unless its
\* messages are to come or did not arrive.
THEOREM SelectionIsShown == Spec => []ShowsSelected
<1>1. WorkspaceInv => ShowsSelected
      BY ChatPromises DEF WorkspaceInv
<1> QED BY <1>1, WorkspaceInvariance, PTL

\* An answer that Chat shows as completed is saved as it is shown, as long as
\* its conversation exists.
THEOREM CompletedAnswersAreSaved == Spec => []CompletedIsSaved
<1>1. WorkspaceInv => CompletedIsSaved
      BY ChatPromises DEF WorkspaceInv
<1> QED BY <1>1, WorkspaceInvariance, PTL

\* A question that ends early is not passed over: an error is shown unless the
\* user has stopped it or left the page.
THEOREM EarlyEndsAreTold == Spec => EarlyEndIsTold
<1>1. WorkspaceInv /\ [Next]_vars
      => [busy /\ ~busy' => Completed \/ submission.aborted \/ error']_chatVars
      BY StepsApart, EndsAreTold DEF WorkspaceInv
<1> QED BY <1>1, WorkspaceInvariance, PTL DEF Spec, EarlyEndIsTold

\* Members keep the role and the access that were chosen for them, whatever
\* the order of the requests, unless a page was out of date.
THEOREM ChosenIsKept == Spec => []ChoicesHold
<1>1. WorkspaceInv => ChoicesHold
      BY DEF WorkspaceInv, ChangesInv
<1> QED BY <1>1, WorkspaceInvariance, PTL
=============================================================================
