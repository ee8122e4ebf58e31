---------------------------- MODULE LibraryPage -----------------------------
(***************************************************************************)
(* The frame Shell with the pages Documents and Dashboard in it, in        *)
(* components/workspace/Workspace.tsx: the documents that are shown, the   *)
(* figures that follow them, uploads, deletions and re-indexing.           *)
(*                                                                         *)
(* A request is answered with what the library holds at some time after it *)
(* was sent.  Answers arrive in any order, and every answer replaces what  *)
(* is shown, whichever request it belongs to.                              *)
(*                                                                         *)
(* Abstractions.  A document is its status.  Answers that say the same are *)
(* one.  Other members and the worker of the API change the library too.   *)
(* overlap is history: files were chosen in a picker that had been opened  *)
(* before the upload that was still at work.                               *)
(***************************************************************************)
EXTENDS Naturals, FiniteSets

CONSTANTS
    Docs,          \* documents that may come to exist, each of one file
    Loops,         \* calls of upload that may run at one time
    MaxActions,    \* bound: actions of the user
    MaxChanges,    \* bound: changes made elsewhere
    MaxFailures,   \* bound: requests that fail
    MaxInFlight    \* bound: unanswered requests for documents, or for figures

ASSUME LibraryAssumption == IsFiniteSet(Docs) /\ MaxInFlight \in Nat \ {0}

VARIABLES
    library,       \* library[d] : the status of d at the API
    page,          \* the page inside Shell
    documents,     \* state of Shell
    figures,       \* state of Dashboard
    asking,        \* requests for documents that the API has not answered
    lists,         \* answers to such requests, on their way
    counting,      \* the same for figures
    reports,
    uploads,       \* uploads[l] : where a call of upload is
    manages,       \* deletions and re-indexings without an answer
    uploading,     \* busy, of Documents
    failures,      \* the files that its error names
    picker,        \* the browser's dialog to choose files is open
    overlap,
    used           \* what the bounds count

shell == <<documents, asking, lists>>
board == <<figures, counting, reports>>
form  == <<uploads, manages, uploading, failures, picker, overlap>>
libVars == <<library, page, shell, board, form, used>>

Statuses == {"none", "queued", "indexed", "failed"}
Library  == [Docs -> Statuses]

\* analytics, and the cards that show it.
Figures(docs) ==
    [documents |-> Cardinality({d \in Docs : docs[d] # "none"}),
     indexed   |-> Cardinality({d \in Docs : docs[d] = "indexed"}),
     pending   |-> Cardinality({d \in Docs : docs[d] = "queued"}),
     failed    |-> Cardinality({d \in Docs : docs[d] = "failed"})]

Counts == [documents : Nat, indexed : Nat, pending : Nat, failed : Nat]
NoLoop == [pc |-> "idle", here |-> FALSE, files |-> {}, failed |-> {}]

LibTypeOK ==
    /\ library \in Library /\ documents \in Library /\ lists \in SUBSET Library
    /\ page \in {"dashboard", "documents"}
    /\ figures \in Counts /\ reports \in SUBSET Counts
    /\ asking \in 0..MaxInFlight /\ counting \in 0..MaxInFlight
    /\ uploads \in [Loops -> [pc : {"idle", "running"}, here : BOOLEAN,
                              files : SUBSET Docs, failed : SUBSET Docs]]
    /\ manages \in SUBSET [doc : Docs, kind : {"delete", "reindex"}]
    /\ failures \in SUBSET Docs
    /\ {uploading, picker, overlap} \subseteq BOOLEAN
    /\ used \in [actions : Nat, changes : Nat, failures : Nat]

\* Shell and a page have mounted, and have sent their first requests.
LibInit ==
    /\ library \in [Docs -> {"none", "queued"}]
    /\ page \in {"dashboard", "documents"}
    /\ documents = [d \in Docs |-> "none"] /\ asking = 1 /\ lists = {}
    /\ figures = Figures(documents) /\ counting = (IF page = "dashboard" THEN 1 ELSE 0) /\ reports = {}
    /\ uploads = [l \in Loops |-> NoLoop] /\ manages = {}
    /\ uploading = FALSE /\ failures = {} /\ picker = FALSE /\ overlap = FALSE
    /\ used = [actions |-> 0, changes |-> 0, failures |-> 0]

More(n) == IF n < MaxInFlight THEN n + 1 ELSE n
Act     == used.actions < MaxActions /\ used' = [used EXCEPT !.actions = @ + 1]
Fail    == used.failures < MaxFailures /\ used' = [used EXCEPT !.failures = @ + 1]

-----------------------------------------------------------------------------
(* Shell and Dashboard.                                                    *)

\* Mutant: only while a document that is shown is being indexed.
Poll_Queued ==
    /\ \E d \in Docs : documents[d] = "queued"
    /\ asking' = More(asking)
    /\ UNCHANGED <<library, page, documents, lists, board, form, used>>

\* Every five seconds the documents are asked for again.
Poll ==
    /\ asking' = More(asking)
    /\ UNCHANGED <<library, page, documents, lists, board, form, used>>

\* refresh, after its await: Dashboard asks for figures with every list.
Refreshed(docs) ==
    /\ docs \in lists
    /\ lists' = lists \ {docs}
    /\ documents' = docs
    /\ counting' = IF page = "dashboard" THEN More(counting) ELSE counting
    /\ UNCHANGED <<library, page, asking, figures, reports, form, used>>

Reported(counts) ==
    /\ counts \in reports
    /\ reports' = reports \ {counts}
    /\ figures' = counts
    /\ UNCHANGED <<library, page, shell, counting, form, used>>

\* The page that is left loses its state; what it awaits goes on.
Navigate(to) ==
    /\ page # to /\ Act
    /\ page' = to
    /\ figures' = Figures([d \in Docs |-> "none"]) /\ reports' = {}
    /\ counting' = IF to = "dashboard" THEN 1 ELSE 0
    /\ uploads' = [l \in Loops |-> [uploads[l] EXCEPT !.here = FALSE]]
    /\ uploading' = FALSE /\ failures' = {} /\ picker' = FALSE /\ overlap' = FALSE
    /\ UNCHANGED <<library, shell, manages>>

-----------------------------------------------------------------------------
(* Documents.                                                              *)

\* upload, up to its first await.
Upload(l, files) ==
    /\ uploads[l].pc = "idle" /\ files # {} /\ Act
    /\ uploads' = [uploads EXCEPT ![l] = [pc |-> "running", here |-> TRUE,
                                          files |-> files, failed |-> {}]]
    /\ uploading' = TRUE
    /\ failures' = {}
    /\ UNCHANGED <<library, page, shell, board, manages>>

\* Files that do not exist as documents, and are not being uploaded.
Fresh == {d \in Docs : library[d] = "none" /\ \A l \in Loops : d \notin uploads[l].files}

\* Calls of upload that this visit of the page has started.
Uploading == {l \in Loops : uploads[l].pc = "running" /\ uploads[l].here}

\* The button Browse files is disabled while files are uploaded.
Browse ==
    /\ page = "documents" /\ ~uploading /\ ~picker
    /\ picker' = TRUE
    /\ UNCHANGED <<library, page, shell, board, uploads, manages, uploading,
                   failures, overlap, used>>

Dismiss ==
    /\ picker /\ picker' = FALSE
    /\ UNCHANGED <<library, page, shell, board, uploads, manages, uploading,
                   failures, overlap, used>>

\* The picker is confirmed, whatever goes on in the page by now.
Choose(l) ==
    /\ picker /\ picker' = FALSE
    /\ \E files \in SUBSET Fresh : Upload(l, files)
    /\ overlap' = (overlap \/ Uploading # {})

\* Mutant: files may be dropped at any time.
Drop_Busy(l) ==
    /\ page = "documents"
    /\ \E files \in SUBSET Fresh : Upload(l, files)
    /\ UNCHANGED <<picker, overlap>>

\* Files are dropped on the zone, which takes none while files are uploaded.
Drop(l) ==
    /\ page = "documents" /\ ~uploading
    /\ \E files \in SUBSET Fresh : Upload(l, files)
    /\ UNCHANGED <<picker, overlap>>

\* A file is sent, and its document made or refused.
Send(l, d) ==
    /\ uploads[l].pc = "running" /\ d \in uploads[l].files
    /\ \/ /\ library' = [library EXCEPT ![d] = "queued"]
          /\ uploads' = [uploads EXCEPT ![l].files = @ \ {d}]
          /\ UNCHANGED used
       \/ /\ Fail
          /\ uploads' = [uploads EXCEPT ![l].files = @ \ {d}, ![l].failed = @ \union {d}]
          /\ UNCHANGED library
    /\ UNCHANGED <<page, shell, board, manages, uploading, failures, picker, overlap>>

\* upload, after its last file: the failures are shown, and it refreshes.
Uploaded(l) ==
    /\ uploads[l].pc = "running" /\ uploads[l].files = {}
    /\ uploads' = [uploads EXCEPT ![l] = NoLoop]
    /\ IF uploads[l].here THEN uploading' = FALSE /\ failures' = uploads[l].failed
       ELSE UNCHANGED <<uploading, failures>>
    /\ overlap' = (overlap /\ Uploading \ {l} # {})
    /\ asking' = More(asking)
    /\ UNCHANGED <<library, page, documents, lists, board, manages, picker, used>>

\* action, up to its await, for a document that is shown.
Manage(d, kind) ==
    /\ page = "documents" /\ documents[d] # "none" /\ Act
    /\ manages' = manages \union {[doc |-> d, kind |-> kind]}
    /\ UNCHANGED <<library, page, shell, board, uploads, uploading, failures,
                   picker, overlap>>

\* The API deletes or queues the document, and action refreshes; a document
\* that is gone, or a request that fails, is an error instead.
Managed(r) ==
    /\ r \in manages
    /\ manages' = manages \ {r}
    /\ \/ /\ library[r.doc] # "none"
          /\ library' = [library EXCEPT ![r.doc] = IF r.kind = "delete" THEN "none" ELSE "queued"]
          /\ asking' = More(asking)
          /\ UNCHANGED used
       \/ /\ library[r.doc] # "none" => Fail
          /\ library[r.doc] = "none" => UNCHANGED used
          /\ UNCHANGED <<library, asking>>
    /\ UNCHANGED <<page, documents, lists, board, uploads, uploading, failures,
                   picker, overlap>>

-----------------------------------------------------------------------------
(* The API.                                                                *)

\* GET /documents and GET /analytics.
ServeList ==
    /\ asking > 0
    /\ asking' = asking - 1
    /\ lists' = lists \union {library}
    /\ UNCHANGED <<library, page, documents, board, form, used>>

ServeReport ==
    /\ counting > 0
    /\ counting' = counting - 1
    /\ reports' = reports \union {Figures(library)}
    /\ UNCHANGED <<library, page, shell, figures, form, used>>

Lose ==
    /\ Fail
    /\ \/ asking > 0 /\ asking' = asking - 1 /\ UNCHANGED counting
       \/ counting > 0 /\ counting' = counting - 1 /\ UNCHANGED asking
    /\ UNCHANGED <<library, page, documents, lists, figures, reports, form>>

\* The worker or another member changes a document.
Elsewhere(d, status) ==
    /\ used.changes < MaxChanges
    /\ used' = [used EXCEPT !.changes = @ + 1]
    /\ library[d] # status /\ library' = [library EXCEPT ![d] = status]
    /\ UNCHANGED <<page, shell, board, form>>

Answers ==
    \/ \E docs \in lists : Refreshed(docs)
    \/ \E counts \in reports : Reported(counts)
    \/ \E l \in Loops : Uploaded(l) \/ \E d \in Docs : Send(l, d)
    \/ \E r \in manages : Managed(r)

LibNext ==
    \/ Poll \/ Answers \/ ServeList \/ ServeReport \/ Lose
    \/ \E to \in {"dashboard", "documents"} : Navigate(to)
    \/ Browse \/ Dismiss
    \/ \E l \in Loops : Choose(l) \/ Drop(l)
    \/ \E d \in Docs, kind \in {"delete", "reindex"} : Manage(d, kind)
    \/ \E d \in Docs, status \in Statuses : Elsewhere(d, status)

\* The timer fires, the API answers, and every answer arrives.
LibFairness ==
    /\ WF_libVars(Poll) /\ WF_libVars(ServeList) /\ WF_libVars(ServeReport)
    /\ WF_libVars(\E docs \in lists : Refreshed(docs))
    /\ WF_libVars(\E counts \in reports : Reported(counts))

LibSpec == LibInit /\ [][LibNext]_libVars /\ LibFairness

-----------------------------------------------------------------------------
(* What must hold.                                                         *)

\* Once the library stays as it is, the documents that are shown come to be
\* its documents, and stay so, and so do the figures of an open Dashboard: no
\* late answer is shown for good.
ShowsLibrary ==
    <>[](documents = library /\ (page = "dashboard" => figures = Figures(library)))

\* The form is busy only while files that were given to it are uploaded: it
\* never stays so, however uploads overlap.  And it is busy for as long as they
\* are, and one call uploads at a time, unless a picker was confirmed that had
\* been open since before: then the call that ends first releases the form.
FormIsFreed ==
    /\ uploading => Uploading # {}
    /\ overlap \/ (Cardinality(Uploading) <= 1 /\ (Uploading # {} => uploading))
=============================================================================
