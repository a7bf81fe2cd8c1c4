----------------------------- MODULE ExportJobs -----------------------------
(***************************************************************************)
(* Export jobs (services/export_service/app/main.py): a POST stores a job  *)
(* and asks for it on export:request; the consumer of the same process     *)
(* marks it PROCESSING, writes a file, and marks it COMPLETED or FAILED.   *)
(* The request is acknowledged in a finally, whatever happened.            *)
(***************************************************************************)
EXTENDS ConsumerLoop

CONSTANTS
    Corpus,         \* mentions of the project: [platform, likes, flagged]
    ExportRequests, \* [format, filters] of the POSTs
    PdfRows         \* mentions a PDF shows

Formats == {"csv", "excel", "json", "pdf"}

ASSUME ExportAssumption ==
    /\ IsFiniteSet(Corpus)
    /\ PdfRows \in Nat
    /\ \A ask \in ExportRequests : ask.format \in Formats

VARIABLES
    jobs,           \* rows of export_jobs: [id, ask, status, rows]
    creating,       \* ids of jobs committed whose event is not yet published
    exported,       \* per consumer: the rows it exported, in a set
    files,          \* [job, kind, shown]: what is in exports_output
    hit             \* history: jobs that an error or a crash cut short

exportVars == <<loopVars, jobs, creating, exported, files, hit>>

JobStatus == {"PENDING", "PROCESSING", "COMPLETED", "FAILED"}

ExportPlaces == {"generate", "complete", "fail"}

ExportsInit ==
    /\ LoopInit
    /\ jobs = {}
    /\ creating = {}
    /\ exported = [w \in Workers |-> {}]
    /\ files = {}
    /\ hit = {}

-----------------------------------------------------------------------------
(* What is exported.                                                       *)

(* _build_mention_filters: an absent, empty or zero filter is none.        *)
Satisfies(mention, filters) ==
    /\ filters.platform \in {"", mention.platform}
    /\ mention.likes >= filters.minLikes
    /\ filters.flagged \in {"", mention.flagged}

SelectedRows(stored, filters) == Cardinality({m \in stored : Satisfies(m, filters)})

(* The generators: the files each may write, how many mentions it shows.   *)
CsvFile(id, rows) == {[job |-> id, kind |-> "csv", shown |-> rows]}

ExcelFile(id, rows) == {[job |-> id, kind |-> "xlsx", shown |-> rows]}

JsonFile(id, rows) == {[job |-> id, kind |-> "json", shown |-> rows]}

(* Without WeasyPrint the HTML.                                            *)
PdfFile(id, rows) ==
    {[job |-> id, kind |-> kind, shown |-> IF rows < PdfRows THEN rows ELSE PdfRows] :
        kind \in {"pdf", "html"}}

ExportFiles(format, id, rows) ==
    CASE format = "csv" -> CsvFile(id, rows)
      [] format = "excel" -> ExcelFile(id, rows)
      [] format = "json" -> JsonFile(id, rows)
      [] format = "pdf" -> PdfFile(id, rows)

-----------------------------------------------------------------------------
(* The columns of a job that one commit writes.                            *)
Marked(id, status, rows) ==
    {IF job.id = id THEN [job EXCEPT !.status = status, !.rows = rows] ELSE job : job \in jobs}

Mark(id, status, rows, reply) == jobs' = IF Applied(reply) THEN Marked(id, status, rows) ELSE jobs

Cut(raised, ids) == hit' = IF raised THEN hit \cup ids ELSE hit

(* The jobs of the entries at hand: lost with the batch.                   *)
JobsOf(w) == {EntryAt(id) : id \in todo[w]}

-----------------------------------------------------------------------------
(* create_export.                                                          *)

CommitJob(ask, reply) ==
    LET id == Cardinality(jobs) + 1
    IN  /\ Cardinality(jobs) < MaxEntries
        /\ jobs' = IF Applied(reply)
                   THEN jobs \cup {[id |-> id, ask |-> ask, status |-> "PENDING", rows |-> 0]}
                   ELSE jobs
        /\ creating' = IF Raised(reply) THEN creating ELSE creating \cup {id}
        /\ Cut(reply = "lost", {id})
        /\ UNCHANGED <<loopVars, exported, files>>

(* A publication that raises answers 500 and leaves the job PENDING.       *)
AskExport(id, reply) ==
    /\ id \in creating
    /\ creating' = creating \ {id}
    /\ IF Applied(reply) THEN Add(id) ELSE UNCHANGED loopVars
    /\ Cut(Raised(reply), {id})
    /\ UNCHANGED <<jobs, exported, files>>

-----------------------------------------------------------------------------
(* export_consumer_loop around process_export_job.                         *)

(* The commit of PROCESSING is outside the try that marks a job FAILED.    *)
StartJob(w, id, reply) ==
    /\ At(w, "handle", id)
    /\ Mark(EntryAt(id), "PROCESSING", 0, reply)
    /\ Step(w, IF Raised(reply) THEN "finally" ELSE "generate")
    /\ Cut(Raised(reply), {EntryAt(id)})
    /\ UNCHANGED <<creating, exported, files>>

(* The query of the mentions there are by now, and the file.               *)
Generate(w, id, reply) ==
    /\ At(w, "generate", id)
    /\ IF Raised(reply)
       THEN Step(w, "fail") /\ UNCHANGED <<exported, files>>
       ELSE \E job \in jobs, stored \in SUBSET Corpus :
               LET rows == SelectedRows(stored, job.ask.filters)
               IN  /\ job.id = EntryAt(id)
                   /\ \E file \in ExportFiles(job.ask.format, job.id, rows) :
                         files' = files \cup {file}
                   /\ exported' = [exported EXCEPT ![w] = {rows}]
                   /\ Step(w, "complete")
    /\ UNCHANGED <<jobs, creating, hit>>

CompleteJob(w, id, reply) ==
    /\ At(w, "complete", id)
    /\ \E rows \in exported[w] : Mark(EntryAt(id), "COMPLETED", rows, reply)
    /\ exported' = [exported EXCEPT ![w] = {}]
    /\ Step(w, IF Raised(reply) THEN "fail" ELSE "finally")
    /\ UNCHANGED <<creating, files, hit>>

(* row_count and file_path stay as they are.                               *)
Failed(id) == {IF job.id = id THEN [job EXCEPT !.status = "FAILED"] ELSE job : job \in jobs}

\* Mutant of FailJob: the except clause logs the error and nothing else.
FailJobLogging(w, id, reply) ==
    /\ At(w, "fail", id)
    /\ Step(w, "finally")
    /\ Cut(Raised(reply), {EntryAt(id)})
    /\ UNCHANGED <<jobs, creating, exported, files>>

FailJob(w, id, reply) ==
    /\ At(w, "fail", id)
    /\ jobs' = IF Applied(reply) THEN Failed(EntryAt(id)) ELSE jobs
    /\ Step(w, "finally")
    /\ Cut(Raised(reply), {EntryAt(id)})
    /\ UNCHANGED <<creating, exported, files>>

AckExport(w, id, reply) ==
    /\ AckFinally(w, id, reply)
    /\ Cut(Raised(reply), JobsOf(w) \ {EntryAt(id)})
    /\ UNCHANGED <<jobs, creating, exported, files>>

ConsumeExports(w, reply) ==
    /\ Consume(w, reply)
    /\ Cut(Raised(reply), {EntryAt(id) : id \in Fresh(stream, group, BatchSize)})
    /\ UNCHANGED <<jobs, creating, exported, files>>

-----------------------------------------------------------------------------
(* The process of API and consumer dies.                                   *)
CrashExports(w) ==
    /\ CrashLoop(w)
    /\ creating' = {}
    /\ exported' = [exported EXCEPT ![w] = {}]
    /\ Cut(TRUE, JobsOf(w) \cup creating)
    /\ UNCHANGED <<jobs, files>>

ExportConsumer(w) ==
    \E reply \in Replies :
        \/ ConsumeExports(w, reply)
        \/ \E id \in todo[w] :
              \/ StartJob(w, id, reply)
              \/ Generate(w, id, reply)
              \/ CompleteJob(w, id, reply)
              \/ FailJob(w, id, reply)
              \/ AckExport(w, id, reply)

ExportsNext ==
    \/ \E reply \in Replies :
          \/ \E ask \in ExportRequests : CommitJob(ask, reply)
          \/ \E id \in creating : AskExport(id, reply)
    \/ \E w \in Workers : ExportConsumer(w) \/ CrashExports(w)

ExportsSpec == ExportsInit /\ [][ExportsNext]_exportVars

-----------------------------------------------------------------------------
ExportsTypeOK ==
    /\ LoopTypeOK(Nat, ExportPlaces)
    /\ \A job \in jobs : job.status \in JobStatus /\ job.ask \in ExportRequests
    /\ creating \cup hit \subseteq 1 .. Cardinality(jobs) + 1
    /\ exported \in [Workers -> SUBSET Nat]

(* The request for a job is still to come, not delivered (or trimmed), or  *)
(* a consumer has it.                                                      *)
Awaited(job) ==
    \/ job.id \in creating
    \/ \E id \in Ids(stream) \ (group.pending \cup group.acked) : EntryAt(id) = job.id
    \/ \E w \in Workers : job.id \in JobsOf(w)

(* A job is not left PENDING or PROCESSING: once its request has been      *)
(* taken it is COMPLETED or FAILED, unless an error or a crash struck      *)
(* where the service has no answer to it.  And a job that is COMPLETED has *)
(* a file that shows all its rows, or as many as a PDF shows.              *)
StuckIsExplained ==
    \A job \in jobs :
        /\ job.status \in {"PENDING", "PROCESSING"} => Awaited(job) \/ job.id \in hit
        /\ job.status = "COMPLETED" =>
              \E file \in files : file.job = job.id /\ (file.shown = job.rows \/ file.shown = PdfRows)
=============================================================================
