--------------------------- MODULE ReportSchedule ---------------------------
(***************************************************************************)
(* The two loops that make the periodic reports: scheduled_reports of the  *)
(* report service (services/report_service/app/main.py), which generates   *)
(* them itself, and report_scheduler_loop of the scheduler service         *)
(* (services/scheduler_service/app/main.py), which publishes requests for  *)
(* the same hours and for the schedules POST /report-schedules keeps in    *)
(* memory.  Both look at the clock every five minutes and act in the first *)
(* five minutes of an hour.  Time is counted in ticks; an hour at which    *)
(* reports are due begins every Period ticks.                              *)
(***************************************************************************)
EXTENDS StreamGroup, FiniteSets, SequencesExt

CONSTANTS
    Projects,           \* the active projects
    Period,             \* ticks between two hours at which reports are due
    WindowTicks,        \* the five minutes, as window and as sleep
    RetryTicks,         \* the minute report_scheduler_loop sleeps after an error
    Answers,            \* the outcomes of a Redis or database call
    MaxTick,            \* bound: ticks
    MaxRestarts         \* bound: times each loop starts anew

ASSUME ReportScheduleAssumption ==
    /\ {Period, WindowTicks, RetryTicks} \subseteq Nat \ {0}
    /\ RetryTicks < WindowTicks
    /\ {MaxTick, MaxRestarts} \subseteq Nat
    /\ Answers \subseteq BusReply

VARIABLES
    tick,           \* the clock
    reporter,       \* scheduled_reports: [at, wake, left, window, restarts]
    generated,      \* its reports: <<id, project, window>>
    schedules,      \* _report_schedules, by project, in insertion order
    scheduler,      \* report_scheduler_loop: [at, wake, left, custom, size, window, restarts]
    requested       \* its entries on reports:request: <<n, project, by, window>>, the
                    \* custom ones not counted: n is 0

scheduleVars == <<tick, reporter, generated, schedules, scheduler, requested>>

ReportScheduleInit ==
    /\ tick = 0
    /\ reporter = [at |-> "asleep", wake |-> 0, left |-> {}, window |-> 0, restarts |-> 0]
    /\ generated = {}
    /\ schedules = << >>
    /\ scheduler = [at |-> "asleep", wake |-> 0, left |-> {}, custom |-> << >>, size |-> 0,
                    window |-> 0, restarts |-> 0]
    /\ requested = {}

-----------------------------------------------------------------------------
Window(t) == t \div Period
InWindow(t) == t % Period < WindowTicks

\* Mutant of Asleep: the loop polls every minute.
AsleepShortly(loop) == [loop EXCEPT !.at = "asleep", !.wake = tick + RetryTicks, !.left = {}]

Asleep(loop) == [loop EXCEPT !.at = "asleep", !.wake = tick + WindowTicks, !.left = {}]

(* scheduled_reports looks at the clock and reads the active projects; an  *)
(* exception here ends the process, which restarts at once.                *)
ReporterRound(reply) ==
    /\ reporter.at = "asleep"
    /\ tick >= reporter.wake
    /\ IF InWindow(tick)
       THEN IF Raised(reply)
            THEN /\ reporter.restarts < MaxRestarts
                 /\ reporter' = [reporter EXCEPT !.wake = tick, !.restarts = @ + 1]
            ELSE reporter' = [reporter EXCEPT !.at = "round", !.left = Projects,
                                              !.window = Window(tick)]
       ELSE reporter' = Asleep(reporter)
    /\ UNCHANGED <<tick, generated, schedules, scheduler, requested>>

(* generate_report for the next project; a failure is only logged.         *)
GenerateScheduled(project, reply) ==
    LET left == reporter.left \ {project}
    IN  /\ reporter.at = "round"
        /\ project \in reporter.left
        /\ generated' = IF Applied(reply)
                        THEN generated \cup {<<Cardinality(generated), project, reporter.window>>}
                        ELSE generated
        /\ reporter' = IF left = {} THEN Asleep(reporter) ELSE [reporter EXCEPT !.left = left]
        /\ UNCHANGED <<tick, schedules, scheduler, requested>>

(* The report service is killed and starts anew, in the midst of a round   *)
(* or between two.                                                         *)
CrashReporter ==
    /\ reporter.restarts < MaxRestarts
    /\ reporter' = [reporter EXCEPT !.at = "asleep", !.wake = tick, !.left = {}, !.restarts = @ + 1]
    /\ UNCHANGED <<tick, generated, schedules, scheduler, requested>>

(* What report_scheduler_loop does until its next await once the default   *)
(* requests are out: begin to iterate over _report_schedules.items().      *)
IntoCustom(loop) ==
    IF schedules = << >>
    THEN Asleep(loop)
    ELSE [loop EXCEPT !.at = "custom", !.left = {}, !.custom = schedules, !.size = Len(schedules)]

(* It looks at the clock and reads the active projects; at other times it  *)
(* passes over its schedules without an await.                             *)
SchedulerRound(reply) ==
    /\ scheduler.at = "asleep"
    /\ tick >= scheduler.wake
    /\ scheduler' = IF ~InWindow(tick) THEN Asleep(scheduler)
                    ELSE IF Raised(reply) THEN [scheduler EXCEPT !.wake = tick + RetryTicks]
                    ELSE [scheduler EXCEPT !.at = "default", !.window = Window(tick),
                                           !.left = Projects]
    /\ UNCHANGED <<tick, reporter, generated, schedules, requested>>

(* XADD of a request; a failure is logged and the loop goes on.            *)
PublishDue(project, by, reply) ==
    LET n == IF by = "custom" THEN 0 ELSE Cardinality(requested) + 1
    IN  requested' = IF Applied(reply) THEN requested \cup {<<n, project, by, scheduler.window>>}
                     ELSE requested

RequestDefault(project, reply) ==
    LET left == scheduler.left \ {project}
    IN  /\ scheduler.at = "default"
        /\ project \in scheduler.left
        /\ PublishDue(project, "default", reply)
        /\ scheduler' = IF left = {} THEN IntoCustom(scheduler) ELSE [scheduler EXCEPT !.left = left]
        /\ UNCHANGED <<tick, reporter, generated, schedules>>

(* The request of the schedule at hand, then the iterator's next step: a   *)
(* dictionary whose size has changed raises RuntimeError, which costs a    *)
(* minute of sleep and a new look at the clock.                            *)
RequestCustom(reply) ==
    /\ scheduler.at = "custom"
    /\ IF scheduler.custom = << >>
       THEN UNCHANGED requested
       ELSE PublishDue(Head(scheduler.custom), "custom", reply)
    /\ scheduler' = IF Len(schedules) # scheduler.size
                    THEN [scheduler EXCEPT !.at = "asleep", !.wake = tick + RetryTicks,
                                           !.custom = << >>, !.restarts = @ + 1]
                    ELSE IF Len(scheduler.custom) <= 1 THEN Asleep(scheduler)
                    ELSE [scheduler EXCEPT !.custom = Tail(@)]
    /\ UNCHANGED <<tick, reporter, generated, schedules>>

Scheduled == {schedules[i] : i \in DOMAIN schedules}

(* A dictionary has a key once, if at all.                                 *)
Without(projects, project) ==
    IF \E i \in DOMAIN projects : projects[i] = project
    THEN RemoveAt(projects, CHOOSE i \in DOMAIN projects : projects[i] = project)
    ELSE projects

(* POST and DELETE /report-schedules, one schedule a project, change the   *)
(* dictionary while the loop awaits: an entry ahead of it appears or goes. *)
CreateReportSchedule(project) ==
    /\ project \notin Scheduled
    /\ schedules' = Append(schedules, project)
    /\ scheduler' = IF scheduler.at = "custom"
                    THEN [scheduler EXCEPT !.custom = Append(@, project)] ELSE scheduler
    /\ UNCHANGED <<tick, reporter, generated, requested>>

DeleteReportSchedules(project) ==
    /\ project \in Scheduled
    /\ schedules' = Without(schedules, project)
    /\ scheduler' = IF scheduler.at = "custom" /\ scheduler.custom # << >>
                    THEN [scheduler EXCEPT !.custom =
                             <<Head(@)>> \o Without(Tail(@), project)]
                    ELSE scheduler
    /\ UNCHANGED <<tick, reporter, generated, requested>>

(* A restart of the scheduler service loses the schedules.                 *)
CrashScheduler ==
    /\ scheduler.restarts < MaxRestarts
    /\ schedules' = << >>
    /\ scheduler' = [scheduler EXCEPT !.at = "asleep", !.wake = tick, !.left = {},
                                      !.custom = << >>, !.restarts = @ + 1]
    /\ UNCHANGED <<tick, reporter, generated, requested>>

-----------------------------------------------------------------------------
TimePasses ==
    /\ tick < MaxTick
    /\ tick' = tick + 1
    /\ UNCHANGED <<reporter, generated, schedules, scheduler, requested>>

ReportScheduleNext ==
    \/ \E reply \in Answers :
          \/ ReporterRound(reply)
          \/ SchedulerRound(reply)
          \/ RequestCustom(reply)
          \/ \E project \in Projects : GenerateScheduled(project, reply) \/ RequestDefault(project, reply)
    \/ \E project \in Projects : CreateReportSchedule(project) \/ DeleteReportSchedules(project)
    \/ CrashReporter
    \/ CrashScheduler
    \/ TimePasses

ReportScheduleSpec == ReportScheduleInit /\ [][ReportScheduleNext]_scheduleVars

-----------------------------------------------------------------------------
ReportScheduleTypeOK ==
    /\ tick \in 0 .. MaxTick
    /\ reporter.at \in {"asleep", "round"} /\ reporter.left \subseteq Projects
    /\ scheduler.at \in {"asleep", "default", "custom"} /\ scheduler.left \subseteq Projects
    /\ Scheduled \subseteq Projects

(* Each of the two loops makes at most one report, or request, for a       *)
(* project and an hour, and one more whenever it started anew: after a     *)
(* crash, a failed query or a schedule created while it was publishing.    *)
OncePerWindow ==
    \A project \in Projects, window \in 0 .. Window(MaxTick) :
        /\ Cardinality({g \in generated : g[2] = project /\ g[3] = window})
              <= 1 + reporter.restarts
        /\ Cardinality({r \in requested : r[2] = project /\ r[3] = "default" /\ r[4] = window})
              <= 1 + scheduler.restarts
=============================================================================
