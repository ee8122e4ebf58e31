--------------------------- MODULE LegacyServices ---------------------------
(***************************************************************************)
(* The services of the multi-service deployment that work on messages: the *)
(* document service with its worker, the text that the worker makes of a   *)
(* file, and the audit service; and what is there for services to share,   *)
(* the client of RabbitMQ and the cache.  What these five have in common   *)
(* is not in their modules, and a behaviour is one of the five.            *)
(***************************************************************************)
EXTENDS LegacyDocuments, DocumentText, AuditLog, Messaging, SharedCache

VARIABLE service      \* whose behaviour this is

vars == <<service, docVars, textVars, auditVars, messagingVars, cacheVars>>

Init ==
    /\ service \in {"documents", "text", "audit", "messaging", "cache"}
    /\ DocInit /\ TextInit /\ AuditInit /\ CacheInit
    /\ IF service = "messaging" THEN MessagingInit ELSE Opening([letters |-> {}, readers |-> {}]) /\ ~quorum

OnDocuments(A) == service = "documents" /\ A /\ UNCHANGED <<service, textVars, auditVars, messagingVars, cacheVars>>
OnText(A)      == service = "text" /\ A /\ UNCHANGED <<service, docVars, auditVars, messagingVars, cacheVars>>
OnAudit(A)     == service = "audit" /\ A /\ UNCHANGED <<service, docVars, textVars, messagingVars, cacheVars>>
OnMessaging(A) == service = "messaging" /\ A /\ UNCHANGED <<service, docVars, textVars, auditVars, cacheVars>>
OnCache(A)     == service = "cache" /\ A /\ UNCHANGED <<service, docVars, textVars, auditVars, messagingVars>>

Next ==
    \/ OnDocuments(DocNext) \/ OnText(TextNext) \/ OnAudit(AuditNext)
    \/ OnMessaging(MessagingNext) \/ OnCache(CacheNext)

\* Workers and consumers run as long as they are up, and workers are started again;
\* a deletion goes on to the end of its transaction, and the database grants a
\* row to those who wait for it.  Nothing makes a user or another service act.
Fairness ==
    /\ \A d \in Docs :
        /\ WF_vars(OnDocuments(Receive(d))) /\ WF_vars(OnDocuments(Deleting(d)))
        /\ SF_vars(OnDocuments(Working(d)))
    /\ WF_vars(OnText(Turn))
    /\ WF_vars(OnAudit(Flushing)) /\ WF_vars(OnAudit(Elapse))
    /\ \A c \in Readers : WF_vars(OnMessaging(Reading(c)))

Spec == Init /\ [][Next]_vars /\ Fairness

TypeOK == DocTypeOK /\ AuditTypeOK /\ MessagingTypeOK /\ CacheTypeOK

\* Types, but for those of the text, which TextIsChunked has; a document that can
\* be downloaded has its file, a message saves its chunks once per delivery at
\* most, an export that is reported as completed has every row that it was asked
\* for, a message that left its queue was processed or put back as often as it
\* may be, and is processed again only after its channel was lost, and what the
\* cache answers is not older than it may be.
ServicesInv ==
    /\ TypeOK
    /\ FileBehindRow /\ SavedOncePerDelivery
    /\ ExportIsWhole
    /\ LettersAreKept /\ HandledAgainAfterTrouble
    /\ AnswersAreRecent

\* Every message is dealt with in the end: that of a document is settled, a
\* text that is being chunked is chunked in the end, an audit event that was
\* taken leaves the process, be its batch full or not, and a message of a shared
\* consumer is processed or rejected.
WorkIsDone == MessagesAreSettled /\ ChunkingEnds /\ QueuedIsFlushed /\ LettersAreSettled
=============================================================================
