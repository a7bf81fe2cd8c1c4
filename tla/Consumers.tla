----------------------------- MODULE Consumers ------------------------------
(***************************************************************************)
(* The consumers of the streams around the pipeline, each by itself.  They *)
(* share no state: every service has streams and a database of its own     *)
(* here, so exploring one service after the other, as the choice of        *)
(* service in the initial state does, loses no behaviour of any of them.   *)
(* The audit service alone is explored in two instances: its consumer with *)
(* purges and the retention loop, and, with the rows there are, purges and *)
(* every kind of retention round while policies change.                    *)
(***************************************************************************)
EXTENDS Media, Enrichment, Notification, AuditTrail, Reports, Workflows, ReportSchedule,
        ExportJobs, DeadLetters

CONSTANT Services       \* the services that are explored

VARIABLE service

loopOwn == <<stream, group, place, todo>>
mediaOwn == <<result, mediaResults, mediaRow>>
enrichmentOwn == <<enriched, enrichResults, done, lapses>>
notificationOwn == <<clock, counters, rulesLeft, alerting, alertLog, notified, alertDlq>>
auditOwn == <<day, rows, policy, configured, members, anonymous, round, purge, named>>
reportsOwn == <<draft, reports, ready>>
workflowsOwn ==
    <<workflows, created, stored, flagged, loaded, running, actionsLeft, triggerEvents, counted>>
exportsOwn == <<jobs, creating, exported, files, hit>>

consumersVars ==
    <<service, loopOwn, mediaOwn, enrichmentOwn, notificationOwn, auditOwn, reportsOwn,
      workflowsOwn, scheduleVars, exportsOwn, deadOwn>>

ConsumersInit ==
    /\ service \in Services
    /\ MediaInit
    /\ EnrichmentInit
    /\ NotificationInit
    /\ AuditInit
    /\ ReportsInit
    /\ WorkflowsInit
    /\ ReportScheduleInit
    /\ ExportsInit
    /\ DeadLettersInit

(* A step of one service leaves the others alone.                          *)
Only(s) ==
    /\ service = s
    /\ UNCHANGED service
    /\ s # "media" => UNCHANGED mediaOwn
    /\ s # "enrichment" => UNCHANGED enrichmentOwn
    /\ s # "notification" => UNCHANGED notificationOwn
    /\ s \notin {"audit", "retention"} => UNCHANGED auditOwn
    /\ s # "reports" => UNCHANGED reportsOwn
    /\ s # "workflows" => UNCHANGED workflowsOwn
    /\ s # "schedule" => UNCHANGED scheduleVars
    /\ s = "schedule" => UNCHANGED loopOwn
    /\ s # "exports" => UNCHANGED exportsOwn
    /\ s # "deadletters" => UNCHANGED deadOwn

ConsumersNext ==
    \/ Only("media") /\ MediaNext
    \/ Only("enrichment") /\ EnrichmentNext
    \/ Only("notification") /\ NotificationNext
    \/ Only("audit") /\ AuditNext /\ configured' = 0 /\ \A t \in OrgRounds : round'[t] = Idle
    \/ Only("retention") /\ AuditNext /\ UNCHANGED loopOwn
    \/ Only("reports") /\ ReportsNext
    \/ Only("workflows") /\ WorkflowsNext
    \/ Only("schedule") /\ ReportScheduleNext
    \/ Only("exports") /\ ExportsNext
    \/ Only("deadletters") /\ DeadLettersNext

ConsumersSpec == ConsumersInit /\ [][ConsumersNext]_consumersVars

-----------------------------------------------------------------------------
ConsumersTypeOK ==
    /\ service = "media" => MediaTypeOK
    /\ service = "enrichment" => EnrichmentTypeOK
    /\ service = "notification" => NotificationTypeOK
    /\ service \in {"audit", "retention"} => AuditTypeOK
    /\ service = "reports" => ReportsTypeOK
    /\ service = "workflows" => WorkflowsTypeOK
    /\ service = "schedule" => ReportScheduleTypeOK
    /\ service = "exports" => ExportsTypeOK
    /\ service = "deadletters" => DeadLettersTypeOK

(* Those of the services' properties that speak of the stream at hand.     *)
ReportRequestsAnswered == service = "reports" => AckedIsReported

ExportsSettled == service = "exports" => StuckIsExplained

NothingLostByTheBus == service = "deadletters" => NothingVanishes
=============================================================================
