---------------------------- MODULE Notification ----------------------------
(***************************************************************************)
(* The notification service (services/notification_service/app/main.py):   *)
(* every analyzed mention is counted in the replica's memory, the alert    *)
(* rules of its project are evaluated over these counters, and a rule that *)
(* triggers is logged in its own transaction before anyone is notified.    *)
(*                                                                         *)
(* A transient error leaves the entry pending; a permanent one moves it to *)
(* the dead-letter stream.  Either way what the entry did before, counters *)
(* and alerts of earlier rules, stays done.                                *)
(***************************************************************************)
EXTENDS ConsumerLoop

CONSTANTS
    AnalyzedMentions,   \* [project, negative, influencer, malformed]: what may arrive
    AlertRules,         \* [project, type, window, percent, channels, url]: the active rules
    MinSample,          \* 5: mentions negative_surge asks for
    KeepTicks,          \* two hours, what the counters keep
    MaxClock            \* bound: ticks

ASSUME NotificationAssumption == {MinSample, KeepTicks, MaxClock} \subseteq Nat

VARIABLES
    clock,          \* ticks since the start
    counters,       \* per replica: mention_counts, as [id, at]
    rulesLeft,      \* per replica: rules not evaluated yet
    alerting,       \* per replica: the rule whose alert is being sent, in a set
    alertLog,       \* alert_logs: [rule, id, recent]
    notified,       \* history: <<rule, id>> sent to a channel
    alertDlq        \* ids in mentions:analyzed:dlq of this group

notificationVars == <<loopVars, clock, counters, rulesLeft, alerting, alertLog, notified,
                      alertDlq>>

NotificationPlaces ==
    {"load", "rules", "send", "ack", "dlq", "dlq_ack", "last_resort"}

NotificationInit ==
    /\ LoopInit
    /\ clock = 0
    /\ counters = [w \in Workers |-> {}]
    /\ rulesLeft = [w \in Workers |-> {}]
    /\ alerting = [w \in Workers |-> {}]
    /\ alertLog = {}
    /\ notified = {}
    /\ alertDlq = {}

RulesOf(project) == {rule \in AlertRules : rule.project = project}

(* now, taken when the mention was counted.                                *)
CountedAt(w, id) == CHOOSE t \in 0 .. clock : [id |-> id, at |-> t] \in counters[w]

(* What the replica's memory holds of the project within a rule's window.  *)
Recent(w, rule, id) ==
    {c \in counters[w] : /\ EntryAt(c.id).project = rule.project
                         /\ c.at > CountedAt(w, id) - rule.window}

(* Whether a rule may trigger for the mention at hand.  The weekly average *)
(* volume_spike compares with may be anything, so it may or may not.       *)
Triggered(w, rule, id) ==
    LET recent == Recent(w, rule, id)
        negative == {c \in recent : EntryAt(c.id).negative}
    IN  CASE rule.type = "volume_spike" -> IF recent = {} THEN {FALSE} ELSE BOOLEAN
          [] rule.type = "negative_surge" ->
               {Cardinality(recent) > MinSample
                   /\ Cardinality(negative) * 100 > rule.percent * Cardinality(recent)}
          [] rule.type = "influencer" -> {EntryAt(id).influencer}
          [] OTHER -> {FALSE}

-----------------------------------------------------------------------------
(* Whether each channel of a rule may reach anyone.  Up to three attempts  *)
(* through a circuit breaker end in success or in a log line.              *)
PostWebhook(rule) == IF rule.url = "valid" THEN BOOLEAN ELSE {FALSE}

PostSlack(rule) == IF rule.url = "valid" THEN BOOLEAN ELSE {FALSE}

(* Without an address in the rule's URL the mail goes to SMTP_FROM.        *)
SendEmail(rule) == BOOLEAN

ChannelReaches(rule, channel) ==
    CASE channel = "webhook" -> PostWebhook(rule)
      [] channel = "slack"   -> PostSlack(rule)
      [] channel = "email"   -> SendEmail(rule)
      [] OTHER               -> {FALSE}

-----------------------------------------------------------------------------
AddAnalyzed(mention) ==
    /\ Add(mention)
    /\ UNCHANGED <<clock, counters, rulesLeft, alerting, alertLog, notified, alertDlq>>

Tick ==
    /\ clock < MaxClock
    /\ clock' = clock + 1
    /\ UNCHANGED <<loopVars, counters, rulesLeft, alerting, alertLog, notified, alertDlq>>

(* The except clause of the loop: a transient error leaves the entry       *)
(* pending, a permanent one sends it to the dead-letter stream.            *)
Except(w, id, transient) ==
    /\ rulesLeft' = [rulesLeft EXCEPT ![w] = {}]
    /\ IF transient
       THEN Finished(w, id)
       ELSE Goto(w, "dlq") /\ UNCHANGED todo
    /\ UNCHANGED <<stream, group>>

(* evaluate_rules up to its first await: count the mention and forget what *)
(* is older than two hours.                                                *)
CountMention(w, id) ==
    LET counted == counters[w] \cup {[id |-> id, at |-> clock]}
    IN  /\ At(w, "handle", id)
        /\ ~EntryAt(id).malformed
        /\ counters' = [counters EXCEPT ![w] =
              {c \in counted : EntryAt(c.id).project = EntryAt(id).project
                                  => c.at > clock - KeepTicks}]
        /\ Step(w, "load")
        /\ UNCHANGED <<clock, rulesLeft, alerting, alertLog, notified, alertDlq>>

(* int() of a field of the event raises ValueError.                        *)
RefuseAnalyzed(w, id) ==
    /\ At(w, "handle", id)
    /\ EntryAt(id).malformed
    /\ Except(w, id, FALSE)
    /\ UNCHANGED <<clock, counters, alerting, alertLog, notified, alertDlq>>

LoadRules(w, id, reply) ==
    /\ At(w, "load", id)
    /\ IF Raised(reply)
       THEN Except(w, id, TRUE)
       ELSE /\ rulesLeft' = [rulesLeft EXCEPT ![w] = RulesOf(EntryAt(id).project)]
            /\ Step(w, "rules")
    /\ UNCHANGED <<clock, counters, alerting, alertLog, notified, alertDlq>>

(* A rule that does not trigger; volume_spike asks the database first.     *)
PassRule(w, id, rule, reply) ==
    /\ At(w, "rules", id)
    /\ rule \in rulesLeft[w]
    /\ IF rule.type = "volume_spike" /\ Raised(reply)
       THEN Except(w, id, TRUE)
       ELSE /\ FALSE \in Triggered(w, rule, id)
            /\ rulesLeft' = [rulesLeft EXCEPT ![w] = @ \ {rule}]
            /\ Step(w, "rules")
    /\ UNCHANGED <<clock, counters, alerting, alertLog, notified, alertDlq>>

Alert(w, id, rule) ==
    [rule |-> rule, id |-> id, recent |-> Cardinality(Recent(w, rule, id))]

\* Mutant of LogAlert: the alert is sent even when its commit failed.
LogAlertSwallowing(w, id, rule, reply) ==
    /\ At(w, "rules", id)
    /\ rule \in rulesLeft[w]
    /\ TRUE \in Triggered(w, rule, id)
    /\ alertLog' = IF Applied(reply) THEN alertLog \cup {Alert(w, id, rule)} ELSE alertLog
    /\ rulesLeft' = [rulesLeft EXCEPT ![w] = @ \ {rule}]
    /\ alerting' = [alerting EXCEPT ![w] = {rule}]
    /\ Step(w, "send")
    /\ UNCHANGED <<clock, counters, notified, alertDlq>>

(* A rule that triggers: INSERT into alert_logs and COMMIT.                *)
LogAlert(w, id, rule, reply) ==
    /\ At(w, "rules", id)
    /\ rule \in rulesLeft[w]
    /\ TRUE \in Triggered(w, rule, id)
    /\ alertLog' = IF Applied(reply) THEN alertLog \cup {Alert(w, id, rule)} ELSE alertLog
    /\ IF Raised(reply)
       THEN Except(w, id, TRUE) /\ UNCHANGED alerting
       ELSE /\ rulesLeft' = [rulesLeft EXCEPT ![w] = @ \ {rule}]
            /\ alerting' = [alerting EXCEPT ![w] = {rule}]
            /\ Step(w, "send")
    /\ UNCHANGED <<clock, counters, notified, alertDlq>>

(* send_notifications: every channel in turn, none of which raises.        *)
SendNotifications(w, id, rule) ==
    /\ At(w, "send", id)
    /\ rule \in alerting[w]
    /\ \E reached \in SUBSET rule.channels :
          /\ \A channel \in rule.channels : (channel \in reached) \in ChannelReaches(rule, channel)
          /\ notified' = IF reached = {} THEN notified ELSE notified \cup {<<rule, id>>}
    /\ alerting' = [alerting EXCEPT ![w] = {}]
    /\ Step(w, "rules")
    /\ UNCHANGED <<clock, counters, rulesLeft, alertLog, alertDlq>>

(* bus.ack after the last rule, inside the same try.                       *)
AckEvaluated(w, id, reply) ==
    /\ At(w, "rules", id)
    /\ rulesLeft[w] = {}
    /\ group' = IF Applied(reply) THEN XAck(group, id) ELSE group
    /\ Finished(w, id)
    /\ UNCHANGED <<stream, clock, counters, rulesLeft, alerting, alertLog, notified, alertDlq>>

(* move_to_dlq; if any part of it raises, the entry is just acknowledged.  *)
MoveAnalyzed(w, id, reply) ==
    /\ At(w, "dlq", id)
    /\ IF Exists(stream, id)
       THEN /\ alertDlq' = IF Applied(reply) THEN alertDlq \cup {id} ELSE alertDlq
            /\ Step(w, IF Raised(reply) THEN "last_resort" ELSE "dlq_ack")
       ELSE /\ IF Raised(reply) THEN Step(w, "last_resort")
               ELSE Finished(w, id) /\ UNCHANGED <<stream, group>>
            /\ UNCHANGED alertDlq
    /\ UNCHANGED <<clock, counters, rulesLeft, alerting, alertLog, notified>>

MoveAnalyzedAck(w, id, reply) ==
    /\ At(w, "dlq_ack", id)
    /\ group' = IF Applied(reply) THEN XAck(group, id) ELSE group
    /\ IF Raised(reply) THEN Goto(w, "last_resort") /\ UNCHANGED todo ELSE Finished(w, id)
    /\ UNCHANGED <<stream, clock, counters, rulesLeft, alerting, alertLog, notified, alertDlq>>

AckUnmoved(w, id, reply) ==
    /\ At(w, "last_resort", id)
    /\ Acknowledge(w, id, reply)
    /\ UNCHANGED <<clock, counters, rulesLeft, alerting, alertLog, notified, alertDlq>>

(* A restart begins with empty counters.                                   *)
CrashNotification(w) ==
    /\ CrashLoop(w)
    /\ counters' = [counters EXCEPT ![w] = {}]
    /\ rulesLeft' = [rulesLeft EXCEPT ![w] = {}]
    /\ alerting' = [alerting EXCEPT ![w] = {}]
    /\ UNCHANGED <<clock, alertLog, notified, alertDlq>>

NotificationStep(w) ==
    \/ \E reply \in Replies :
          \/ /\ Consume(w, reply)
             /\ UNCHANGED <<clock, counters, rulesLeft, alerting, alertLog, notified, alertDlq>>
          \/ \E id \in todo[w] :
                \/ LoadRules(w, id, reply)
                \/ \E rule \in rulesLeft[w] : PassRule(w, id, rule, reply) \/ LogAlert(w, id, rule, reply)
                \/ AckEvaluated(w, id, reply)
                \/ MoveAnalyzed(w, id, reply)
                \/ MoveAnalyzedAck(w, id, reply)
                \/ AckUnmoved(w, id, reply)
    \/ \E id \in todo[w] :
          \/ CountMention(w, id)
          \/ RefuseAnalyzed(w, id)
          \/ \E rule \in alerting[w] : SendNotifications(w, id, rule)

NotificationNext ==
    \/ \E mention \in AnalyzedMentions : AddAnalyzed(mention)
    \/ Tick
    \/ \E w \in Workers : NotificationStep(w) \/ CrashNotification(w)

NotificationSpec == NotificationInit /\ [][NotificationNext]_notificationVars

-----------------------------------------------------------------------------
NotificationTypeOK ==
    /\ LoopTypeOK(AnalyzedMentions, NotificationPlaces)
    /\ clock \in 0 .. MaxClock
    /\ counters \in [Workers -> SUBSET [id : Nat, at : 0 .. MaxClock]]
    /\ rulesLeft \in [Workers -> SUBSET AlertRules]
    /\ alerting \in [Workers -> SUBSET AlertRules]
    /\ alertLog \in SUBSET [rule : AlertRules, id : Nat, recent : Nat]
    /\ notified \in SUBSET (AlertRules \X Nat)
    /\ alertDlq \in SUBSET Nat

(* Nobody is notified of an alert that is not in alert_logs, and what its  *)
(* text counts are mentions delivered so far, each of them once and in the *)
(* memory of one replica, however entries were dropped or left pending.    *)
AlertIsJustified ==
    /\ \A n \in notified : \E a \in alertLog : a.rule = n[1] /\ a.id = n[2]
    /\ \A a \in alertLog :
          a.recent <= Cardinality({id \in 1 .. group.last : EntryAt(id).project = a.rule.project})
    /\ \A v, w \in Workers : \A c \in counters[v], d \in counters[w] :
          c.id = d.id => v = w /\ c = d
=============================================================================
