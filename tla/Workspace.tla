----------------------------- MODULE Workspace ------------------------------
(***************************************************************************)
(* The signed-in part of the browser application: the pages of             *)
(* app/(dashboard), of which one is mounted at a time, inside Shell.       *)
(*                                                                         *)
(* Pages share no state but the documents of Shell, which Chat and Admin   *)
(* only read; a behaviour is what one page does from the time it is        *)
(* opened, and Documents and Dashboard are visited in turn.                *)
(***************************************************************************)
EXTENDS ChatPage, LibraryPage, MembersPage

VARIABLE open      \* the page that is open

vars == <<open, chatVars, libVars, memberVars>>

\* A page that is not open has nothing to show.
Init ==
    /\ open \in {"chat", "library", "admin"}
    /\ ChatInit /\ LibInit /\ MembersInit
    /\ open # "chat" => \A c \in Convs : saved[c].state = "open"
    /\ open # "library" => page = "documents" /\ library = documents
    /\ open # "admin" => \A m \in Members : account[m] = NoRow

OnChat(A)    == open = "chat" /\ A /\ UNCHANGED <<open, libVars, memberVars>>
OnLibrary(A) == open = "library" /\ A /\ UNCHANGED <<open, chatVars, memberVars>>
OnAdmin(A)   == open = "admin" /\ A /\ UNCHANGED <<open, chatVars, libVars>>

Next ==
    \/ OnChat(ChatNext)
    \/ OnLibrary(LibNext)
    \/ OnAdmin(MembersNext)

\* What the browser and the API go on with by themselves, as in the modules
\* of the pages.
Fairness ==
    /\ WF_vars(OnChat(Page)) /\ WF_vars(OnChat(Api))
    /\ WF_vars(OnLibrary(Poll))
    /\ WF_vars(OnLibrary(ServeList)) /\ WF_vars(OnLibrary(ServeReport))
    /\ WF_vars(OnLibrary(\E docs \in lists : Refreshed(docs)))
    /\ WF_vars(OnLibrary(\E counts \in reports : Reported(counts)))

Spec == Init /\ [][Next]_vars /\ Fairness

TypeOK == ChatTypeOK /\ LibTypeOK /\ MembersTypeOK

\* Types; and of the form for uploads: it is never left busy, and busy while
\* files are on their way unless an old picker let a second upload in.
PagesInv == TypeOK /\ FormIsFreed
=============================================================================
