------------------------------- MODULE MCReports -------------------------------
(***************************************************************************)
(* What becomes of reports: how they come in (AgentReport), where their    *)
(* samples are kept (Metrics), and who is told of the alerts they raise    *)
(* (Notifications).  The three have no variable in common, so a behaviour  *)
(* of all is one of each, side by side; each is checked with the others at *)
(* rest, and states add up instead of being multiplied.                    *)
(***************************************************************************)
EXTENDS AgentReport, Metrics, Notifications, TLC

\* Buckets of one, two and four instants, each kept for two of the next tier's.
MCTiers == <<[seconds |-> 1, retention |-> 2],
             [seconds |-> 2, retention |-> 4],
             [seconds |-> 4, retention |-> 8]>>

\* Handlers are interchangeable.
SameHandlers == Permutations(Handlers)

VARIABLE part \* which of the three moves

MCInit ==
  /\ Init /\ MetricsInit /\ NotificationsInit
  /\ part \in {"reports", "metrics", "notifications"}
  /\ part # "metrics" => legacy = <<>>
  /\ part # "notifications" => ~builtIn

Reporting == part = "reports" /\ UNCHANGED <<metricsVars, notificationVars, part>>
\* One edit or one fault, while there is time to see what comes of it.
Undisturbed == Reporting /\ edits + faults = 0 /\ now <= MaxTime \div 2
Keeping == part = "metrics" /\ UNCHANGED <<vars, notificationVars, part>>
Telling == part = "notifications" /\ UNCHANGED <<vars, metricsVars, part>>

MCNext ==
  \/ Reporting /\ Tick
  \/ Reporting /\ Send
  \/ Reporting /\ Reinstall
  \/ \E h \in Handlers, n \in Numbers : Reporting /\ Receive(h, n)
  \/ \E h \in Handlers : Reporting /\ GetNodeCredential(h)
  \/ \E h \in Handlers : Reporting /\ Unsigned(h)
  \/ \E h \in Handlers : Reporting /\ Claim(h)
  \/ \E h \in Handlers : Reporting /\ Refuse(h)
  \/ \E h \in Handlers : Reporting /\ UpdateReport(h)
  \/ \E h \in Handlers : Undisturbed /\ StoreError(h)
  \/ Undisturbed /\ SetNodeTokenHash
  \/ Undisturbed /\ SetNodeRevoked
  \/ Undisturbed /\ Restart
  \/ Keeping /\ CompactLegacyMetrics
  \/ Keeping /\ Open
  \/ Keeping /\ Reopen
  \/ Keeping /\ ReportArrives
  \/ Keeping /\ RecordReport
  \/ Keeping /\ PruneMetrics
  \/ \E r \in Readers, range \in Ranges : Keeping /\ AskMetrics(r, range)
  \/ \E r \in Readers, limit \in Limits : Keeping /\ ChooseTier(r, limit)
  \/ \E r \in Readers : Keeping /\ ReadBuckets(r)
  \/ Keeping /\ InstantPasses
  \/ \E c \in Channels : Telling /\ CreateNotificationChannel(c)
  \/ \E c \in Channels : Telling /\ DeleteNotificationChannel(c)
  \/ \E named \in SUBSET Channels : Telling /\ CreateRule(named)
  \/ \E named \in SUBSET Channels : Telling /\ UpdateRule(named)
  \/ Telling /\ DeleteRule
  \/ Telling /\ ListRuleRows
  \/ Telling /\ ListRuleChannels
  \/ Telling /\ EndEvaluation
  \/ Telling /\ EvaluationFails
  \/ Telling /\ Halt
  \/ \E s \in Senders : Telling /\ AddAlertEvent(s)
  \/ \E s \in Senders : Telling /\ ListNotificationChannelRecords(s)
  \/ \E s \in Senders, c \in Channels : Telling /\ SendNotification(s, c)
  \/ \E s \in Senders : Telling /\ MarkAlertEventNotified(s)
  \/ \E s \in Senders : Telling /\ NotifyFails(s)

MCSpec == MCInit /\ [][MCNext]_<<vars, metricsVars, notificationVars, part>>

\* Every variable of the three holds a value of its type.
TypesOK == TypeOK /\ MetricsTypeOK /\ NotificationsTypeOK
================================================================================
