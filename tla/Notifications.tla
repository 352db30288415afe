----------------------------- MODULE Notifications -----------------------------
(***************************************************************************)
(* Who is told of an alert.                                                *)
(*                                                                         *)
(* A rule names the channels it tells, or none, and then it tells all.     *)
(* An evaluation reads the rule, then the channels it names, records an    *)
(* event and leaves the telling to a goroutine, which looks the channels   *)
(* up again and sends to one after the other.  Meanwhile administrators    *)
(* change the rule and delete channels; a channel that is deleted is taken *)
(* out of the rule, a rule that is deleted takes its events along.         *)
(*                                                                         *)
(* When the engine records an event is the matter of AlertEngine: here it  *)
(* may do so in every evaluation of the rule.                              *)
(***************************************************************************)
EXTENDS Integers, Sequences

CONSTANTS
  Channels,    \* ids of notification channels; an id is never used again
  Senders,     \* goroutines of notifyEvent
  MaxAlerts,   \* bound on events
  MaxChanges,  \* bound on requests of administrators
  MaxMishaps   \* bound on store errors and restarts

ASSUME NotificationsAssumption ==
  MaxAlerts \in Nat /\ MaxChanges \in Nat /\ MaxMishaps \in Nat

VARIABLES
  builtIn,     \* the rule is one that the controller comes with
  ruleRow,     \* the rule in alert_rules: not made yet, there or deleted
  links,       \* alert_rule_channels: the channels it names
  channelRows, \* notification_channels
  evaluation,  \* the evaluation under way: what it does next and the channels it read
  sender,      \* per goroutine: its event, the channels of the rule, those it has yet
               \* to send to, and whether a sending succeeded
  eventRows,   \* alert_events
  notified,    \* those of them marked as notified
  asked,       \* history: the channels the last request for the rule named
  gone,        \* history: the channels that were deleted
  origin,      \* history: per event, what was asked and which channels there were when
               \* the rule's channels were read, and which had gone when it was recorded
  told,        \* history: what was sent to whom
  changes, mishaps

tables == <<builtIn, ruleRow, links, channelRows>>
history == <<asked, gone, origin>>
notificationVars == <<tables, evaluation, sender, eventRows, notified, history, told, changes, mishaps>>

Evaluation(pc, named, meant, present) ==
  [pc |-> pc, named |-> named, meant |-> meant, present |-> present]
NoEvaluation == Evaluation("idle", {}, {}, {})

Sender(pc, event, named, ahead, success) ==
  [pc |-> pc, event |-> event, named |-> named, ahead |-> ahead, success |-> success]
NoSender == Sender("idle", 0, {}, {}, FALSE)

NotificationsInit ==
  /\ builtIn \in BOOLEAN /\ ruleRow = IF builtIn THEN "there" ELSE "none"
  /\ links = {} /\ channelRows = {}
  /\ evaluation = NoEvaluation
  /\ sender = [s \in Senders |-> NoSender]
  /\ eventRows = {} /\ notified = {}
  /\ asked = {} /\ gone = {} /\ origin = <<>> /\ told = {}
  /\ changes = 0 /\ mishaps = 0

-----------------------------------------------------------------------------
(* Administrators.                                                         *)

Change == changes < MaxChanges /\ changes' = changes + 1

\* A new channel, and the id it gets.
CreateNotificationChannel(c) ==
  /\ Change /\ c \notin channelRows \cup gone
  /\ channelRows' = channelRows \cup {c}
  /\ UNCHANGED <<builtIn, ruleRow, links, evaluation, sender, eventRows, notified, history, told, mishaps>>

\* The foreign key takes it out of the rule.
DeleteNotificationChannel(c) ==
  /\ Change /\ c \in channelRows
  /\ channelRows' = channelRows \ {c} /\ links' = links \ {c}
  /\ gone' = gone \cup {c}
  /\ UNCHANGED <<builtIn, ruleRow, evaluation, sender, eventRows, notified, asked, origin, told, mishaps>>

\* The rule is made, or changed; one of the channels it names may be gone, and then the
\* transaction fails.
SaveRule(named, before) ==
  /\ Change /\ ruleRow = before /\ ruleRow' = "there"
  /\ named \subseteq channelRows
  /\ links' = named /\ asked' = named
  /\ UNCHANGED <<builtIn, channelRows, evaluation, sender, eventRows, notified, gone, origin, told, mishaps>>

CreateRule(named) == SaveRule(named, "none")
UpdateRule(named) == SaveRule(named, "there")

DeleteRule ==
  /\ Change /\ ruleRow = "there" /\ ruleRow' = "deleted"
  /\ links' = {} /\ eventRows' = {} /\ notified' = {}
  /\ UNCHANGED <<builtIn, channelRows, evaluation, sender, history, told, mishaps>>

-----------------------------------------------------------------------------
(* The evaluation, under the engine's mutex.                               *)

\* The first of the two statements of ListAlertRules.
ListRuleRows ==
  /\ evaluation = NoEvaluation /\ ruleRow = "there"
  /\ evaluation' = Evaluation("channels", {}, {}, {})
  /\ UNCHANGED <<tables, sender, eventRows, notified, history, told, changes, mishaps>>

\* The second.
ListRuleChannels ==
  /\ evaluation.pc = "channels"
  /\ evaluation' = Evaluation("event", links, asked, channelRows)
  /\ UNCHANGED <<tables, sender, eventRows, notified, history, told, changes, mishaps>>

\* The event is in the table, and a goroutine is started to tell of it.
Record(s) ==
  /\ sender[s] = NoSender
  /\ Len(origin) < MaxAlerts
  /\ origin' = Append(origin, [meant |-> evaluation.meant, present |-> evaluation.present, gone |-> gone])
  /\ sender' = [sender EXCEPT ![s] = Sender("list", Len(origin'), evaluation.named, {}, FALSE)]
  /\ evaluation' = NoEvaluation
  /\ UNCHANGED <<tables, notified, asked, gone, told, changes, mishaps>>

\* Mutant of AddAlertEvent: no foreign key ties the event to a rule that is there.
AddAlertEventMutant(s) ==
  /\ evaluation.pc = "event"
  /\ Record(s)
  /\ eventRows' = eventRows \cup {Len(origin')}

AddAlertEvent(s) ==
  /\ evaluation.pc = "event" /\ ruleRow = "there"
  /\ Record(s)
  /\ eventRows' = eventRows \cup {Len(origin')}

\* There is nothing to tell, or the rule is gone and the insert fails.
EndEvaluation ==
  /\ evaluation.pc = "event" /\ evaluation' = NoEvaluation
  /\ UNCHANGED <<tables, sender, eventRows, notified, history, told, changes, mishaps>>

-----------------------------------------------------------------------------
(* notifyEvent.                                                            *)

Turn(s, to) == sender' = [sender EXCEPT ![s] = to]

\* Mutant of Chosen: the channels the rule names are not looked up.
ChosenMutant(named) == IF named = {} THEN channelRows ELSE named

\* All channels are enabled: no request disables one.
Chosen(named) == IF named = {} THEN channelRows ELSE channelRows \cap named

ListNotificationChannelRecords(s) ==
  /\ sender[s].pc = "list"
  /\ LET ahead == Chosen(sender[s].named)
     IN Turn(s, IF ahead = {} THEN NoSender
                ELSE Sender("send", sender[s].event, sender[s].named, ahead, FALSE))
  /\ UNCHANGED <<tables, evaluation, eventRows, notified, history, told, changes, mishaps>>

\* One request: it arrives, or not, and only one that arrives can be answered well; a
\* channel that cannot be decrypted is left out, as if its request had failed.
SendNotification(s, c) ==
  /\ sender[s].pc = "send" /\ c \in sender[s].ahead
  /\ \E arrives, answered \in BOOLEAN :
       /\ answered => arrives
       /\ told' = IF arrives THEN told \cup {<<sender[s].event, c>>} ELSE told
       /\ Turn(s, [sender[s] EXCEPT !.ahead = @ \ {c}, !.success = @ \/ answered])
  /\ UNCHANGED <<tables, evaluation, eventRows, notified, history, changes, mishaps>>

\* The last channel was sent to.
MarkAlertEventNotified(s) ==
  /\ sender[s].pc = "send" /\ sender[s].ahead = {}
  /\ notified' = IF sender[s].success THEN notified \cup ({sender[s].event} \cap eventRows)
                                      ELSE notified
  /\ Turn(s, NoSender)
  /\ UNCHANGED <<tables, evaluation, eventRows, history, told, changes, mishaps>>

-----------------------------------------------------------------------------
(* Failures.                                                               *)

Mishap == mishaps < MaxMishaps /\ mishaps' = mishaps + 1

\* A statement of the evaluation fails.
EvaluationFails ==
  /\ Mishap /\ evaluation # NoEvaluation /\ evaluation' = NoEvaluation
  /\ UNCHANGED <<tables, sender, eventRows, notified, history, told, changes>>

\* The channels cannot be read, or the event not marked.
NotifyFails(s) ==
  /\ Mishap
  /\ sender[s].pc = "list" \/ (sender[s].pc = "send" /\ sender[s].ahead = {})
  /\ Turn(s, NoSender)
  /\ UNCHANGED <<tables, evaluation, eventRows, notified, history, told, changes>>

\* The controller restarts; what was not sent yet never will be, and a built-in rule that
\* was deleted is there again, for all channels.
Halt ==
  /\ Mishap
  /\ evaluation' = NoEvaluation /\ sender' = [s \in Senders |-> NoSender]
  /\ \/ /\ builtIn /\ ruleRow = "deleted"
        /\ ruleRow' = "there" /\ asked' = {}
     \/ /\ ~(builtIn /\ ruleRow = "deleted")
        /\ UNCHANGED <<ruleRow, asked>>
  /\ UNCHANGED <<builtIn, links, channelRows, eventRows, notified, gone, origin, told, changes>>

-----------------------------------------------------------------------------
NotificationsNext ==
  \/ \E c \in Channels : CreateNotificationChannel(c) \/ DeleteNotificationChannel(c)
  \/ \E named \in SUBSET Channels : CreateRule(named) \/ UpdateRule(named)
  \/ DeleteRule
  \/ ListRuleRows \/ ListRuleChannels \/ EndEvaluation \/ EvaluationFails \/ Halt
  \/ \E s \in Senders :
       \/ AddAlertEvent(s) \/ ListNotificationChannelRecords(s)
       \/ \E c \in Channels : SendNotification(s, c)
       \/ MarkAlertEventNotified(s) \/ NotifyFails(s)

NotificationsSpec == NotificationsInit /\ [][NotificationsNext]_notificationVars

-----------------------------------------------------------------------------
(* Properties.                                                             *)

Alerts == 1 .. Len(origin)

\* Every variable of the notifications holds a value of its type, and only events in
\* the table are marked as notified.
NotificationsTypeOK ==
  /\ builtIn \in BOOLEAN /\ ruleRow \in {"none", "there", "deleted"}
  /\ links \subseteq channelRows /\ channelRows \subseteq Channels \ gone
  /\ evaluation \in [pc : {"idle", "channels", "event"}, named : SUBSET Channels,
                     meant : SUBSET Channels, present : SUBSET Channels]
  /\ sender \in [Senders -> [pc : {"idle", "list", "send"}, event : 0 .. MaxAlerts,
                             named : SUBSET Channels, ahead : SUBSET Channels, success : BOOLEAN]]
  /\ notified \subseteq eventRows /\ eventRows \subseteq Alerts
  /\ asked \subseteq Channels /\ gone \subseteq Channels
  /\ Len(origin) <= MaxAlerts
  /\ told \subseteq Alerts \X Channels
  /\ changes \in 0 .. MaxChanges /\ mishaps \in 0 .. MaxMishaps

\* An alert goes to a channel the administrator did not choose only if none of the chosen
\* ones was left when the rule was read (alerts.go:326-339, store.go:1237): a change of
\* the rule, or its deletion, between the two reads never makes a rule for some channels
\* one for all.
OnlyChosenAreTold ==
  \A e \in Alerts, c \in Channels :
    <<e, c>> \in told /\ c \notin origin[e].meant => origin[e].meant \cap origin[e].present = {}

\* A channel that was deleted before an event was recorded is not told of it, although
\* the evaluation had read before that the rule names it (alerts.go:321).
DeletedAreNotTold ==
  \A e \in Alerts, c \in Channels : <<e, c>> \in told => c \notin origin[e].gone
================================================================================
