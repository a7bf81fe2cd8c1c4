------------------------------ MODULE Reports -------------------------------
(***************************************************************************)
(* The report service (services/report_service/app/main.py): a request on  *)
(* reports:request is answered by a row in reports, a file and an entry on *)
(* reports:ready.  A transient error leaves the request pending; a         *)
(* permanent one, and a project that is gone, let it be acknowledged.      *)
(***************************************************************************)
EXTENDS ConsumerLoop

CONSTANTS
    ReportRequests,     \* [project, type, format, malformed]: what may be asked for
    KnownProjects       \* the projects there are

VARIABLES
    draft,          \* per listener: the file of the report being stored, in a set
    reports,        \* the rows: [id, project, type, file, for]
    ready           \* ids of requests announced on reports:ready

reportVars == <<loopVars, draft, reports, ready>>

ReportPlaces == {"commit", "ready", "ack"}

ReportsInit ==
    /\ LoopInit
    /\ draft = [w \in Workers |-> {}]
    /\ reports = {}
    /\ ready = {}

-----------------------------------------------------------------------------
(* What generate_report returns and stores.                                *)

(* generate_pdf: a PDF, HTML without weasyprint, or nothing.               *)
PdfFiles == {"pdf", "html", "none"}

(* generate_pptx: without python-pptx the PDF.                             *)
PptxFiles == {"pptx", "none"} \cup PdfFiles

FilesFor(format) == IF format = "pptx" THEN PptxFiles ELSE PdfFiles

NewReport(request, file, id) ==
    [id |-> Cardinality(reports) + 1, project |-> request.project, type |-> request.type,
     file |-> file, for |-> id]

ReportTypes == {"hourly", "daily", "weekly", "monthly", "quarterly", "yearly", "custom"}

-----------------------------------------------------------------------------
(* listen_for_requests.                                                    *)

AskReport(request) == Add(request) /\ UNCHANGED <<draft, reports, ready>>

(* int() of the project raises outside the handler: the batch is left.     *)
MalformedRequest(w, id) ==
    /\ At(w, "handle", id)
    /\ EntryAt(id).malformed
    /\ Abandon(w)
    /\ UNCHANGED <<stream, group, draft, reports, ready>>

(* A transient error: sleep and continue, the request stays pending.       *)
LeavePending(w, id) == Finished(w, id) /\ UNCHANGED <<stream, group>>

(* The queries of generate_report and build_report_data: no such project,  *)
(* a report of an unknown type, a database error, or the data.             *)
BuildReport(w, id, reply) ==
    LET request == EntryAt(id)
    IN  /\ At(w, "handle", id)
        /\ ~request.malformed
        /\ IF Raised(reply)
           THEN LeavePending(w, id) /\ UNCHANGED draft
           ELSE IF request.project \notin KnownProjects \/ request.type \notin ReportTypes
           THEN Step(w, "ack") /\ UNCHANGED draft
           ELSE /\ \E file \in FilesFor(request.format) : draft' = [draft EXCEPT ![w] = {file}]
                /\ Step(w, "commit")
        /\ UNCHANGED <<reports, ready>>

CommitReport(w, id, reply) ==
    /\ At(w, "commit", id)
    /\ \E file \in draft[w] :
          reports' = IF Applied(reply) THEN reports \cup {NewReport(EntryAt(id), file, id)}
                     ELSE reports
    /\ draft' = [draft EXCEPT ![w] = {}]
    /\ IF Raised(reply) THEN LeavePending(w, id) ELSE Step(w, "ready")
    /\ UNCHANGED ready

\* Mutant of PublishReady: a failed publication does not keep the request.
PublishReadySwallowing(w, id, reply) ==
    /\ At(w, "ready", id)
    /\ ready' = IF Applied(reply) THEN ready \cup {id} ELSE ready
    /\ Step(w, "ack")
    /\ UNCHANGED <<draft, reports>>

PublishReady(w, id, reply) ==
    /\ At(w, "ready", id)
    /\ ready' = IF Applied(reply) THEN ready \cup {id} ELSE ready
    /\ IF Raised(reply) THEN LeavePending(w, id) ELSE Step(w, "ack")
    /\ UNCHANGED <<draft, reports>>

AckReport(w, id, reply) ==
    /\ At(w, "ack", id)
    /\ Acknowledge(w, id, reply)
    /\ UNCHANGED <<draft, reports, ready>>

-----------------------------------------------------------------------------
CrashReports(w) ==
    /\ CrashLoop(w)
    /\ draft' = [draft EXCEPT ![w] = {}]
    /\ UNCHANGED <<reports, ready>>

Listen(w) ==
    \E reply \in Replies :
        \/ Consume(w, reply) /\ UNCHANGED <<draft, reports, ready>>
        \/ \E id \in todo[w] :
              \/ MalformedRequest(w, id)
              \/ BuildReport(w, id, reply)
              \/ CommitReport(w, id, reply)
              \/ PublishReady(w, id, reply)
              \/ AckReport(w, id, reply)

ReportsNext ==
    \/ \E request \in ReportRequests : AskReport(request)
    \/ \E w \in Workers : Listen(w) \/ CrashReports(w)

ReportsSpec == ReportsInit /\ [][ReportsNext]_reportVars

-----------------------------------------------------------------------------
ReportsTypeOK ==
    /\ LoopTypeOK(ReportRequests, ReportPlaces)
    /\ draft \in [Workers -> SUBSET PptxFiles]
    /\ ready \subseteq Nat

(* A request that can be answered and is acknowledged has its report in    *)
(* the table and has been announced: whatever fails in between, it stays   *)
(* pending.                                                                *)
AckedIsReported ==
    \A id \in group.acked :
        EntryAt(id).project \in KnownProjects /\ EntryAt(id).type \in ReportTypes
            => id \in ready /\ \E r \in reports : r.for = id
=============================================================================
