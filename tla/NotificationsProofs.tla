-------------------------- MODULE NotificationsProofs --------------------------
(***************************************************************************)
(* What TLAPS proves about Notifications: types, and who is told, for any  *)
(* number of channels, goroutines, alerts and requests.                    *)
(***************************************************************************)
EXTENDS Notifications, SequenceTheorems, TLAPS

USE NotificationsAssumption DEF NotificationsAssumption

Origins == [meant : SUBSET Channels, present : SUBSET Channels, gone : SUBSET Channels]
Evaluations == [pc : {"idle", "channels", "event"}, named : SUBSET Channels,
                meant : SUBSET Channels, present : SUBSET Channels]
SenderStates == [pc : {"idle", "list", "send"}, event : 0 .. MaxAlerts,
                 named : SUBSET Channels, ahead : SUBSET Channels, success : BOOLEAN]

\* Every goroutine is about an event that was recorded.
SendersInv ==
  /\ origin \in Seq(Origins)
  /\ \A s \in Senders : sender[s].pc # "idle" => sender[s].event \in Alerts

LEMMA IdleTypes == NoEvaluation \in Evaluations /\ NoSender \in SenderStates
BY DEF NoEvaluation, Evaluation, NoSender, Sender, Evaluations, SenderStates

LEMMA NotificationsTypeInit == NotificationsInit => NotificationsTypeOK /\ SendersInv
<1> SUFFICES ASSUME NotificationsInit PROVE NotificationsTypeOK /\ SendersInv
  OBVIOUS
<1>1. origin \in Seq(Origins) /\ Len(origin) = 0 /\ Len(origin) <= MaxAlerts
  BY DEF NotificationsInit
<1>2. sender \in [Senders -> SenderStates] /\ \A s \in Senders : sender[s] = NoSender
  BY IdleTypes DEF NotificationsInit
<1>3. changes \in 0 .. MaxChanges /\ mishaps \in 0 .. MaxMishaps
  BY DEF NotificationsInit
<1>4. builtIn \in BOOLEAN /\ ruleRow \in {"none", "there", "deleted"}
  BY DEF NotificationsInit
<1>5. NotificationsTypeOK
  BY <1>1, <1>2, <1>3, <1>4, IdleTypes DEF NotificationsInit, NotificationsTypeOK, Evaluations, SenderStates
<1>6. SendersInv
  BY <1>1, <1>2 DEF SendersInv, NoSender, Sender
<1> QED BY <1>5, <1>6

\* What SendNotification leaves of the goroutine.
LEMMA SendTurn ==
  ASSUME NotificationsTypeOK, NEW s \in Senders, NEW c \in Channels, SendNotification(s, c)
  PROVE  /\ sender' \in [Senders -> SenderStates]
         /\ sender'[s].pc = "send" /\ sender'[s].event = sender[s].event
         /\ sender'[s].named = sender[s].named /\ sender'[s].ahead = sender[s].ahead \ {c}
         /\ \A r \in Senders \ {s} : sender'[r] = sender[r]
<1> DEFINE r == sender[s]
<1>1. sender \in [Senders -> SenderStates] /\ r \in SenderStates
  BY DEF NotificationsTypeOK, SenderStates
<1>2. PICK arrives \in BOOLEAN, answered \in BOOLEAN :
        Turn(s, [sender[s] EXCEPT !.ahead = @ \ {c}, !.success = @ \/ answered])
  BY DEF SendNotification
<1> DEFINE ok == r.success \/ answered
<1>3. ok \in BOOLEAN
  OBVIOUS
<1>4. sender' = [sender EXCEPT ![s] = [[r EXCEPT !.ahead = r.ahead \ {c}] EXCEPT !.success = ok]]
  BY <1>2, <1>1 DEF Turn, SenderStates
<1> HIDE DEF ok
<1>5. [r EXCEPT !.ahead = r.ahead \ {c}] = Sender(r.pc, r.event, r.named, r.ahead \ {c}, r.success)
  <2> DEFINE left == r.ahead \ {c}
  <2>1. r = Sender(r.pc, r.event, r.named, r.ahead, r.success)
    BY <1>1 DEF SenderStates, Sender
  <2>2. ASSUME NEW a, NEW e, NEW n, NEW d, NEW b
        PROVE  [Sender(a, e, n, d, b) EXCEPT !.ahead = left] = Sender(a, e, n, left, b)
    BY DEF Sender
  <2> HIDE DEF r, left
  <2>3. [Sender(r.pc, r.event, r.named, r.ahead, r.success) EXCEPT !.ahead = left]
        = Sender(r.pc, r.event, r.named, left, r.success)
    BY <2>2
  <2>4. [r EXCEPT !.ahead = left] = Sender(r.pc, r.event, r.named, left, r.success)
    BY <2>1, <2>3
  <2> QED BY <2>4 DEF left
<1>6. [Sender(r.pc, r.event, r.named, r.ahead \ {c}, r.success) EXCEPT !.success = ok]
      = Sender(r.pc, r.event, r.named, r.ahead \ {c}, ok)
  BY DEF Sender
<1>7. Sender(r.pc, r.event, r.named, r.ahead \ {c}, ok) \in SenderStates
  BY <1>1, <1>3 DEF SenderStates, Sender
<1>8. /\ sender' \in [Senders -> SenderStates]
      /\ sender'[s] = Sender(r.pc, r.event, r.named, r.ahead \ {c}, ok)
      /\ \A q \in Senders \ {s} : sender'[q] = sender[q]
  <2> HIDE DEF r
  <2> QED BY <1>1, <1>4, <1>5, <1>6, <1>7
<1>9. r.pc = "send"
  BY DEF SendNotification
<1> QED BY <1>8, <1>9 DEF Sender

LEMMA EvaluationType ==
  ASSUME NEW pc \in {"idle", "channels", "event"}, NEW named \in SUBSET Channels,
         NEW meant \in SUBSET Channels, NEW present \in SUBSET Channels
  PROVE  Evaluation(pc, named, meant, present) \in Evaluations
BY DEF Evaluation, Evaluations

\* What AddAlertEvent records, and tells its goroutine.
LEMMA RecordEffect ==
  ASSUME NotificationsTypeOK, SendersInv, NEW s \in Senders, AddAlertEvent(s)
  PROVE  /\ origin' \in Seq(Origins) /\ Len(origin') = Len(origin) + 1 /\ Len(origin') <= MaxAlerts
         /\ Len(origin') \in Alerts' /\ Alerts \subseteq Alerts'
         /\ \A e \in Alerts : origin'[e] = origin[e]
         /\ origin'[Len(origin')] =
              [meant |-> evaluation.meant, present |-> evaluation.present, gone |-> gone]
         /\ sender' \in [Senders -> SenderStates]
         /\ sender'[s] = Sender("list", Len(origin'), evaluation.named, {}, FALSE)
         /\ \A r \in Senders \ {s} : sender'[r] = sender[r]
         /\ eventRows' = eventRows \cup {Len(origin')}
<1> DEFINE new == [meant |-> evaluation.meant, present |-> evaluation.present, gone |-> gone]
<1>1. origin \in Seq(Origins) /\ Len(origin) \in Nat /\ origin' = Append(origin, new) /\ Len(origin) < MaxAlerts
  BY DEF AddAlertEvent, Record, SendersInv
<1>2. new \in Origins
  BY DEF NotificationsTypeOK, Origins
<1> HIDE DEF new
<1>3. /\ origin' \in Seq(Origins) /\ Len(origin') = Len(origin) + 1
      /\ \A e \in 1 .. Len(origin) : origin'[e] = origin[e]
      /\ origin'[Len(origin) + 1] = new
  BY <1>1, <1>2
<1>4. Len(origin') <= MaxAlerts /\ Len(origin') \in Alerts' /\ Alerts \subseteq Alerts'
  BY <1>1, <1>3 DEF Alerts
<1>5. Sender("list", Len(origin'), evaluation.named, {}, FALSE) \in SenderStates
  <2>1. Len(origin') \in 0 .. MaxAlerts
    BY <1>1, <1>3, <1>4
  <2> QED BY <2>1 DEF NotificationsTypeOK, Sender, SenderStates
<1>6. /\ sender' \in [Senders -> SenderStates]
      /\ sender'[s] = Sender("list", Len(origin'), evaluation.named, {}, FALSE)
      /\ \A r \in Senders \ {s} : sender'[r] = sender[r]
  BY <1>5 DEF AddAlertEvent, Record, NotificationsTypeOK, SenderStates
<1>7. eventRows' = eventRows \cup {Len(origin')}
  BY DEF AddAlertEvent
<1> QED BY <1>1, <1>3, <1>4, <1>6, <1>7 DEF Alerts, new

\* What looking the channels up again leaves of the goroutine.
LEMMA ListTurn ==
  ASSUME NotificationsTypeOK, NEW s \in Senders, ListNotificationChannelRecords(s)
  PROVE  /\ sender' \in [Senders -> SenderStates]
         /\ \A r \in Senders \ {s} : sender'[r] = sender[r]
         /\ \/ sender'[s] = NoSender
            \/ /\ sender'[s].pc = "send" /\ sender'[s].event = sender[s].event
               /\ sender'[s].named = sender[s].named
               /\ sender'[s].ahead = Chosen(sender[s].named)
<1> DEFINE ahead == Chosen(sender[s].named)
<1>1. sender \in [Senders -> SenderStates] /\ channelRows \subseteq Channels
  BY DEF NotificationsTypeOK, SenderStates
<1>2. ahead \subseteq Channels
  BY <1>1 DEF Chosen
<1>3. \/ sender' = [sender EXCEPT ![s] = NoSender]
      \/ sender' = [sender EXCEPT ![s] = Sender("send", sender[s].event, sender[s].named, ahead, FALSE)]
  BY DEF ListNotificationChannelRecords, Turn
<1> HIDE DEF ahead
<1>4. Sender("send", sender[s].event, sender[s].named, ahead, FALSE) \in SenderStates
  BY <1>1, <1>2 DEF Sender, SenderStates
<1>5. CASE sender' = [sender EXCEPT ![s] = NoSender]
  BY <1>1, <1>5, IdleTypes
<1>6. CASE sender' = [sender EXCEPT ![s] = Sender("send", sender[s].event, sender[s].named, ahead, FALSE)]
  <2>1. /\ sender' \in [Senders -> SenderStates]
        /\ \A r \in Senders \ {s} : sender'[r] = sender[r]
        /\ sender'[s] = Sender("send", sender[s].event, sender[s].named, ahead, FALSE)
    BY <1>1, <1>4, <1>6
  <2> QED BY <2>1 DEF Sender, ahead
<1> QED BY <1>3, <1>5, <1>6

\* A goroutine that ends.
LEMMA EndTurn ==
  ASSUME NotificationsTypeOK, NEW s \in Senders, Turn(s, NoSender)
  PROVE  /\ sender' \in [Senders -> SenderStates] /\ sender'[s] = NoSender
         /\ \A r \in Senders \ {s} : sender'[r] = sender[r]
<1>1. sender \in [Senders -> SenderStates]
  BY DEF NotificationsTypeOK, SenderStates
<1> QED BY <1>1, IdleTypes DEF Turn

LEMMA NotificationsTypeStep ==
  NotificationsTypeOK /\ SendersInv /\ [NotificationsNext]_notificationVars => NotificationsTypeOK'
<1> SUFFICES ASSUME NotificationsTypeOK, SendersInv, [NotificationsNext]_notificationVars
             PROVE  NotificationsTypeOK'
  OBVIOUS
<1> USE DEF tables, history, Alerts
<1>1. Change => changes' \in 0 .. MaxChanges
  BY DEF Change, NotificationsTypeOK
<1>2. Mishap => mishaps' \in 0 .. MaxMishaps
  BY DEF Mishap, NotificationsTypeOK
<1>3. ASSUME NEW c \in Channels, CreateNotificationChannel(c) \/ DeleteNotificationChannel(c)
      PROVE  NotificationsTypeOK'
  BY <1>1, <1>3 DEF CreateNotificationChannel, DeleteNotificationChannel, NotificationsTypeOK
<1>4. ASSUME NEW named \in SUBSET Channels, CreateRule(named) \/ UpdateRule(named)
      PROVE  NotificationsTypeOK'
  BY <1>1, <1>4 DEF CreateRule, UpdateRule, SaveRule, NotificationsTypeOK
<1>5. CASE DeleteRule
  BY <1>1, <1>5 DEF DeleteRule, NotificationsTypeOK
<1>6. CASE ListRuleRows \/ ListRuleChannels \/ EndEvaluation
  <2>1. evaluation' \in Evaluations
    <3>1. links \subseteq Channels /\ asked \subseteq Channels /\ channelRows \subseteq Channels
      BY DEF NotificationsTypeOK
    <3> QED BY <1>6, <3>1, IdleTypes, EvaluationType DEF ListRuleRows, ListRuleChannels, EndEvaluation
  <2> QED BY <1>6, <2>1 DEF ListRuleRows, ListRuleChannels, EndEvaluation, NotificationsTypeOK, Evaluations
<1>7. CASE EvaluationFails
  BY <1>2, <1>7, IdleTypes DEF EvaluationFails, NotificationsTypeOK, Evaluations
<1>8. CASE Halt
  <2>1. evaluation' \in Evaluations /\ sender' \in [Senders -> SenderStates]
    BY <1>8, IdleTypes DEF Halt
  <2>2. ruleRow' \in {"none", "there", "deleted"} /\ asked' \subseteq Channels
    BY <1>8 DEF Halt, NotificationsTypeOK
  <2> QED BY <1>2, <1>8, <2>1, <2>2 DEF Halt, NotificationsTypeOK, Evaluations, SenderStates
<1>9. ASSUME NEW s \in Senders, AddAlertEvent(s) PROVE NotificationsTypeOK'
  <2>1. /\ UNCHANGED <<builtIn, ruleRow, links, channelRows, notified, asked, gone, told, changes, mishaps>>
        /\ evaluation' = NoEvaluation
    BY <1>9 DEF AddAlertEvent, Record
  <2>2. /\ notified' \subseteq eventRows' /\ eventRows' \subseteq Alerts'
        /\ told' \subseteq Alerts' \X Channels
    BY <1>9, <2>1, RecordEffect DEF NotificationsTypeOK
  <2>3. Len(origin') <= MaxAlerts /\ sender' \in [Senders -> SenderStates]
    BY <1>9, RecordEffect
  <2> QED BY <2>1, <2>2, <2>3, IdleTypes DEF NotificationsTypeOK, Evaluations, SenderStates
<1>10. ASSUME NEW s \in Senders, ListNotificationChannelRecords(s) PROVE NotificationsTypeOK'
  BY <1>10, ListTurn DEF ListNotificationChannelRecords, NotificationsTypeOK, SenderStates
<1>11. ASSUME NEW s \in Senders, NEW c \in Channels, SendNotification(s, c) PROVE NotificationsTypeOK'
  <2>1. <<sender[s].event, c>> \in Alerts \X Channels
    BY <1>11 DEF SendNotification, SendersInv
  <2>2. told' \subseteq Alerts \X Channels
    BY <1>11, <2>1 DEF SendNotification, NotificationsTypeOK
  <2> QED BY <1>11, <2>2, SendTurn DEF SendNotification, NotificationsTypeOK, SenderStates
<1>12. ASSUME NEW s \in Senders, MarkAlertEventNotified(s) PROVE NotificationsTypeOK'
  BY <1>12, EndTurn DEF MarkAlertEventNotified, NotificationsTypeOK, SenderStates
<1>13. ASSUME NEW s \in Senders, NotifyFails(s) PROVE NotificationsTypeOK'
  BY <1>2, <1>13, EndTurn DEF NotifyFails, NotificationsTypeOK, SenderStates
<1>14. CASE UNCHANGED notificationVars
  BY <1>14 DEF notificationVars, NotificationsTypeOK
<1> QED
  BY <1>3, <1>4, <1>5, <1>6, <1>7, <1>8, <1>9, <1>10, <1>11, <1>12, <1>13, <1>14 DEF NotificationsNext

LEMMA SendersStep ==
  NotificationsTypeOK /\ SendersInv /\ [NotificationsNext]_notificationVars => SendersInv'
<1> SUFFICES ASSUME NotificationsTypeOK, SendersInv, [NotificationsNext]_notificationVars
             PROVE  SendersInv'
  OBVIOUS
<1> USE DEF tables, history, Alerts
<1>1. NoSender.pc = "idle"
  BY DEF NoSender, Sender
<1>2. ASSUME UNCHANGED <<sender, origin>> PROVE SendersInv'
  BY <1>2 DEF SendersInv
<1>3. ASSUME NEW c \in Channels, CreateNotificationChannel(c) \/ DeleteNotificationChannel(c)
      PROVE  SendersInv'
  BY <1>2, <1>3 DEF CreateNotificationChannel, DeleteNotificationChannel
<1>4. ASSUME NEW named \in SUBSET Channels, CreateRule(named) \/ UpdateRule(named)
      PROVE  SendersInv'
  BY <1>2, <1>4 DEF CreateRule, UpdateRule, SaveRule
<1>5. CASE DeleteRule \/ ListRuleRows \/ ListRuleChannels \/ EndEvaluation \/ EvaluationFails
  BY <1>2, <1>5 DEF DeleteRule, ListRuleRows, ListRuleChannels, EndEvaluation, EvaluationFails
<1>6. CASE Halt
  BY <1>1, <1>6 DEF Halt, SendersInv
<1>7. ASSUME NEW s \in Senders, AddAlertEvent(s) PROVE SendersInv'
  BY <1>7, RecordEffect DEF SendersInv, Sender
<1>8. ASSUME NEW s \in Senders, UNCHANGED origin, \A r \in Senders \ {s} : sender'[r] = sender[r],
             \/ sender'[s] = NoSender
             \/ sender[s].pc # "idle" /\ sender'[s].event = sender[s].event
      PROVE  SendersInv'
  BY <1>1, <1>8 DEF SendersInv
<1>9. ASSUME NEW s \in Senders, ListNotificationChannelRecords(s) PROVE SendersInv'
  BY <1>8, <1>9, ListTurn DEF ListNotificationChannelRecords
<1>10. ASSUME NEW s \in Senders, NEW c \in Channels, SendNotification(s, c) PROVE SendersInv'
  BY <1>8, <1>10, SendTurn DEF SendNotification
<1>11. ASSUME NEW s \in Senders, MarkAlertEventNotified(s) \/ NotifyFails(s) PROVE SendersInv'
  BY <1>8, <1>11, EndTurn DEF MarkAlertEventNotified, NotifyFails
<1>12. CASE UNCHANGED notificationVars
  BY <1>2, <1>12 DEF notificationVars
<1> QED
  BY <1>3, <1>4, <1>5, <1>6, <1>7, <1>9, <1>10, <1>11, <1>12 DEF NotificationsNext

\* NotificationsTypeOK is an invariant, for any number of channels and alerts.
THEOREM NotificationsTypeCorrect == NotificationsSpec => []NotificationsTypeOK
<1>1. NotificationsTypeOK /\ SendersInv /\ [NotificationsNext]_notificationVars
      => NotificationsTypeOK' /\ SendersInv'
  BY NotificationsTypeStep, SendersStep
<1> QED
  BY <1>1, NotificationsTypeInit, PTL DEF NotificationsSpec

-----------------------------------------------------------------------------
(* What the rule names, and what was read of it.                           *)

\* The rule names those of the channels that were asked for that are still there,
\* as long as it is there itself; and so does what the evaluation read of it,
\* as long as the rule was not deleted since: what it reads of a rule that is
\* deleted comes to nothing, since the event is not recorded.
RuleInv ==
  /\ asked \subseteq channelRows \cup gone
  /\ links = IF ruleRow = "there" THEN asked \cap channelRows ELSE {}
  /\ evaluation.pc # "idle" => ruleRow # "none"
  /\ evaluation.pc = "event" /\ ruleRow = "there" =>
       evaluation.named = evaluation.meant \cap evaluation.present

LEMMA EvaluationFields ==
  /\ NoEvaluation.pc = "idle"
  /\ \A pc, named, meant, present :
       LET e == Evaluation(pc, named, meant, present)
       IN  e.pc = pc /\ e.named = named /\ e.meant = meant /\ e.present = present
BY DEF NoEvaluation, Evaluation

LEMMA RuleStep ==
  NotificationsTypeOK /\ RuleInv /\ [NotificationsNext]_notificationVars => RuleInv'
<1> SUFFICES ASSUME NotificationsTypeOK, RuleInv, [NotificationsNext]_notificationVars PROVE RuleInv'
  OBVIOUS
<1> USE DEF tables, history
<1>1. ASSUME UNCHANGED <<tables, evaluation, asked, gone>> PROVE RuleInv'
  BY <1>1 DEF RuleInv
<1>2. ASSUME UNCHANGED <<tables, asked, gone>>, evaluation' = NoEvaluation PROVE RuleInv'
  BY <1>2, EvaluationFields DEF RuleInv
<1>3. ASSUME NEW c \in Channels, CreateNotificationChannel(c) PROVE RuleInv'
  BY <1>3 DEF CreateNotificationChannel, RuleInv
<1>4. ASSUME NEW c \in Channels, DeleteNotificationChannel(c) PROVE RuleInv'
  BY <1>4 DEF DeleteNotificationChannel, RuleInv
<1>5. ASSUME NEW named \in SUBSET Channels, CreateRule(named) \/ UpdateRule(named) PROVE RuleInv'
  BY <1>5 DEF CreateRule, UpdateRule, SaveRule, RuleInv
<1>6. CASE DeleteRule
  BY <1>6 DEF DeleteRule, RuleInv
<1>7. CASE ListRuleRows
  BY <1>7, EvaluationFields DEF ListRuleRows, RuleInv
<1>8. CASE ListRuleChannels
  BY <1>8, EvaluationFields DEF ListRuleChannels, RuleInv
<1>9. CASE EndEvaluation \/ EvaluationFails
  BY <1>2, <1>9 DEF EndEvaluation, EvaluationFails
<1>10. CASE Halt
  BY <1>10, EvaluationFields DEF Halt, RuleInv
<1>11. ASSUME NEW s \in Senders, AddAlertEvent(s) PROVE RuleInv'
  BY <1>2, <1>11 DEF AddAlertEvent, Record
<1>12. ASSUME NEW s \in Senders,
              \/ ListNotificationChannelRecords(s) \/ MarkAlertEventNotified(s) \/ NotifyFails(s)
              \/ \E c \in Channels : SendNotification(s, c)
       PROVE  RuleInv'
  BY <1>1, <1>12 DEF ListNotificationChannelRecords, MarkAlertEventNotified, NotifyFails, SendNotification
<1>13. CASE UNCHANGED notificationVars
  BY <1>1, <1>13 DEF notificationVars
<1> QED
  BY <1>3, <1>4, <1>5, <1>6, <1>7, <1>8, <1>9, <1>10, <1>11, <1>12, <1>13 DEF NotificationsNext

-----------------------------------------------------------------------------
(* Who is told.                                                            *)

\* The event may be sent to the channel.
MayTell(e, c) ==
  /\ c \notin origin[e].gone
  /\ c \in origin[e].meant \/ origin[e].meant \cap origin[e].present = {}

\* The channels a goroutine has from the rule are those of its event.
TellingInv ==
  /\ \A e \in Alerts : origin[e].gone \subseteq gone
  /\ \A s \in Senders : sender[s].pc # "idle" =>
       sender[s].named = origin[sender[s].event].meant \cap origin[sender[s].event].present
  /\ \A s \in Senders : sender[s].pc = "send" =>
       \A c \in sender[s].ahead : MayTell(sender[s].event, c)
  /\ \A e \in Alerts, c \in Channels : <<e, c>> \in told => MayTell(e, c)

LEMMA TellingStep ==
  NotificationsTypeOK /\ SendersInv /\ RuleInv /\ TellingInv /\ [NotificationsNext]_notificationVars
  => TellingInv'
<1> SUFFICES ASSUME NotificationsTypeOK, SendersInv, RuleInv, TellingInv,
                    [NotificationsNext]_notificationVars
             PROVE  TellingInv'
  OBVIOUS
<1> USE DEF tables, history
<1>1. NoSender.pc = "idle"
  BY DEF NoSender, Sender
<1>2. ASSUME UNCHANGED <<sender, origin, told>>, gone \subseteq gone' PROVE TellingInv'
  BY <1>2 DEF TellingInv, MayTell, Alerts
<1>3. ASSUME NEW c \in Channels, CreateNotificationChannel(c) \/ DeleteNotificationChannel(c)
      PROVE  TellingInv'
  BY <1>2, <1>3 DEF CreateNotificationChannel, DeleteNotificationChannel
<1>4. ASSUME NEW named \in SUBSET Channels, CreateRule(named) \/ UpdateRule(named) PROVE TellingInv'
  BY <1>2, <1>4 DEF CreateRule, UpdateRule, SaveRule
<1>5. CASE DeleteRule \/ ListRuleRows \/ ListRuleChannels \/ EndEvaluation \/ EvaluationFails
  BY <1>2, <1>5 DEF DeleteRule, ListRuleRows, ListRuleChannels, EndEvaluation, EvaluationFails
<1>6. CASE Halt
  BY <1>1, <1>6 DEF Halt, TellingInv, MayTell, Alerts
<1>7. ASSUME NEW s \in Senders, AddAlertEvent(s) PROVE TellingInv'
  <2> DEFINE new == Len(origin')
  <2>1. /\ Alerts \subseteq Alerts' /\ new \notin Alerts /\ Alerts' = Alerts \cup {new}
        /\ \A e \in Alerts : origin'[e] = origin[e]
    <3>1. Len(origin) \in Nat /\ Len(origin') = Len(origin) + 1
      <4>1. origin \in Seq(Origins)
        BY DEF SendersInv
      <4>2. Len(origin) \in Nat
        BY <4>1
      <4> QED BY <1>7, <4>2, RecordEffect
    <3>2. \A e \in Alerts : origin'[e] = origin[e]
      BY <1>7, RecordEffect
    <3> QED BY <3>1, <3>2 DEF Alerts
  <2>2. origin'[new] = [meant |-> evaluation.meant, present |-> evaluation.present, gone |-> gone]
    BY <1>7, RecordEffect
  <2>3. /\ sender'[s].pc = "list" /\ sender'[s].event = new /\ sender'[s].named = evaluation.named
        /\ \A r \in Senders \ {s} : sender'[r] = sender[r]
    BY <1>7, RecordEffect DEF Sender
  <2>4. evaluation.named = evaluation.meant \cap evaluation.present /\ gone' = gone /\ told' = told
    BY <1>7 DEF AddAlertEvent, Record, RuleInv
  <2>5. told \subseteq Alerts \X Channels
    BY DEF NotificationsTypeOK
  <2> HIDE DEF new
  <2>6. ASSUME NEW e \in Alerts, NEW c PROVE MayTell(e, c)' <=> MayTell(e, c)
    BY <2>1 DEF MayTell
  <2>7. \A e \in Alerts' : origin'[e].gone \subseteq gone'
    BY <2>1, <2>2, <2>4 DEF TellingInv
  <2>8. ASSUME NEW r \in Senders, sender'[r].pc # "idle"
        PROVE  sender'[r].named = origin'[sender'[r].event].meant \cap origin'[sender'[r].event].present
    <3>1. CASE r = s
      BY <2>2, <2>3, <2>4, <3>1
    <3>2. CASE r # s
      <4>1. sender'[r] = sender[r] /\ sender[r].event \in Alerts
        BY <2>3, <2>8, <3>2 DEF SendersInv
      <4> QED BY <2>1, <2>8, <4>1 DEF TellingInv
    <3> QED BY <3>1, <3>2
  <2>9. ASSUME NEW r \in Senders, sender'[r].pc = "send", NEW c \in sender'[r].ahead
        PROVE  MayTell(sender[r].event, c)'
    <3>1. r # s
      BY <2>3, <2>9
    <3>2. sender'[r] = sender[r] /\ sender[r].event \in Alerts
      BY <2>3, <2>9, <3>1 DEF SendersInv
    <3>3. MayTell(sender[r].event, c)
      BY <2>9, <3>2 DEF TellingInv
    <3>4. origin'[sender'[r].event] = origin[sender[r].event]
      BY <2>1, <3>2
    <3> QED BY <3>3, <3>4 DEF MayTell
  <2>10. \A e \in Alerts', c \in Channels : <<e, c>> \in told' => MayTell(e, c)'
    BY <2>4, <2>5, <2>6 DEF TellingInv
  <2> QED BY <2>7, <2>8, <2>9, <2>10 DEF TellingInv
\* A goroutine goes on, and what it is about stays as it is.
<1>8. ASSUME NEW s \in Senders, UNCHANGED <<origin, gone>>, \A r \in Senders \ {s} : sender'[r] = sender[r],
             \/ sender'[s] = NoSender
             \/ /\ sender[s].pc # "idle" /\ sender'[s].event = sender[s].event
                /\ sender'[s].named = sender[s].named
                /\ \A c \in sender'[s].ahead : MayTell(sender[s].event, c),
             \A e \in Alerts, c \in Channels : <<e, c>> \in told' => MayTell(e, c)
      PROVE  TellingInv'
  <2>1. Alerts' = Alerts /\ \A e, c : MayTell(e, c)' <=> MayTell(e, c)
    BY <1>8 DEF Alerts, MayTell
  <2>2. \A e \in Alerts' : origin'[e].gone \subseteq gone'
    BY <1>8, <2>1 DEF TellingInv
  <2>3. ASSUME NEW r \in Senders, sender'[r].pc # "idle"
        PROVE  sender'[r].named = origin'[sender'[r].event].meant \cap origin'[sender'[r].event].present
    BY <1>1, <1>8, <2>3 DEF TellingInv
  <2>4. ASSUME NEW r \in Senders, sender'[r].pc = "send", NEW c \in sender'[r].ahead
        PROVE  MayTell(sender[r].event, c)'
    BY <1>1, <1>8, <2>4 DEF TellingInv, MayTell
  <2>5. \A e \in Alerts', c \in Channels : <<e, c>> \in told' => MayTell(e, c)'
    BY <1>8, <2>1
  <2> QED BY <2>2, <2>3, <2>4, <2>5 DEF TellingInv
<1>9. \A e \in Alerts, c \in Channels : <<e, c>> \in told => MayTell(e, c)
  BY DEF TellingInv
<1>10. ASSUME NEW s \in Senders, ListNotificationChannelRecords(s) PROVE TellingInv'
  <2> DEFINE e == sender[s].event
  <2>1. /\ e \in Alerts /\ sender[s].named = origin[e].meant \cap origin[e].present
        /\ origin[e].gone \subseteq gone
    BY <1>10 DEF ListNotificationChannelRecords, TellingInv, SendersInv
  <2>2. channelRows \cap gone = {}
    BY DEF NotificationsTypeOK
  <2>3. \A c \in Chosen(sender[s].named) : MayTell(e, c)
    BY <2>1, <2>2 DEF Chosen, MayTell
  <2>4. sender[s].pc # "idle" /\ UNCHANGED <<origin, gone, told>>
    BY <1>10 DEF ListNotificationChannelRecords
  <2> QED BY <1>8, <1>9, <1>10, <2>3, <2>4, ListTurn
<1>11. ASSUME NEW s \in Senders, NEW c \in Channels, SendNotification(s, c) PROVE TellingInv'
  <2>1. /\ sender[s].pc = "send" /\ c \in sender[s].ahead /\ UNCHANGED <<origin, gone>>
        /\ told' \subseteq told \cup {<<sender[s].event, c>>}
    BY <1>11 DEF SendNotification
  <2>2. \A d \in sender[s].ahead : MayTell(sender[s].event, d)
    BY <2>1 DEF TellingInv
  <2>3. \A e \in Alerts, d \in Channels : <<e, d>> \in told' => MayTell(e, d)
    BY <1>9, <2>1, <2>2
  <2>4. /\ sender'[s].event = sender[s].event /\ sender'[s].named = sender[s].named
        /\ sender'[s].ahead \subseteq sender[s].ahead
        /\ \A r \in Senders \ {s} : sender'[r] = sender[r]
    BY <1>11, SendTurn
  <2> QED BY <1>8, <2>1, <2>2, <2>3, <2>4
<1>12. ASSUME NEW s \in Senders, MarkAlertEventNotified(s) \/ NotifyFails(s) PROVE TellingInv'
  BY <1>8, <1>9, <1>12, EndTurn DEF MarkAlertEventNotified, NotifyFails
<1>13. CASE UNCHANGED notificationVars
  BY <1>2, <1>13 DEF notificationVars
<1> QED
  BY <1>3, <1>4, <1>5, <1>6, <1>7, <1>10, <1>11, <1>12, <1>13 DEF NotificationsNext

LEMMA TellingInvariant == NotificationsSpec => [](TellingInv)
<1>1. NotificationsInit => RuleInv /\ TellingInv
  <2> SUFFICES ASSUME NotificationsInit PROVE RuleInv /\ TellingInv
    OBVIOUS
  <2>1. RuleInv
    BY EvaluationFields DEF NotificationsInit, RuleInv
  <2>2. Alerts = {} /\ \A s \in Senders : sender[s].pc = "idle"
    BY DEF NotificationsInit, Alerts, NoSender, Sender
  <2> QED BY <2>1, <2>2 DEF NotificationsInit, TellingInv
<1>2. NotificationsTypeOK /\ SendersInv /\ RuleInv /\ TellingInv /\ [NotificationsNext]_notificationVars
      => NotificationsTypeOK' /\ SendersInv' /\ RuleInv' /\ TellingInv'
  BY NotificationsTypeStep, SendersStep, RuleStep, TellingStep
<1> QED
  BY <1>1, <1>2, NotificationsTypeInit, PTL DEF NotificationsSpec

\* OnlyChosenAreTold is an invariant, whatever changes of the rule and of the
\* channels come between the reads of an evaluation.
THEOREM ChosenCorrect == NotificationsSpec => []OnlyChosenAreTold
<1>1. TellingInv => OnlyChosenAreTold
  BY DEF TellingInv, MayTell, OnlyChosenAreTold
<1> QED
  BY <1>1, TellingInvariant, PTL

\* DeletedAreNotTold is an invariant, for the same reason.
THEOREM DeletedCorrect == NotificationsSpec => []DeletedAreNotTold
<1>1. TellingInv => DeletedAreNotTold
  BY DEF TellingInv, MayTell, DeletedAreNotTold
<1> QED
  BY <1>1, TellingInvariant, PTL
==============================================================================
