------------------------------ MODULE MCBrowsers ------------------------------
(***************************************************************************)
(* What the controller does for browsers: administrators (Sessions), the   *)
(* public dashboard, and live telemetry.  The three have no variable in    *)
(* common, so a behaviour of all is one of each, side by side; each is     *)
(* checked with the others at rest, and states add up instead of being     *)
(* multiplied.                                                             *)
(***************************************************************************)
EXTENDS Sessions, PublicDashboard, Telemetry, TLC

\* Handlers are interchangeable.  All three name the same ones: a permutation of
\* them permutes those of the part that moves, and leaves the others at rest.
\* So are the orders of a page.
Symmetry == Permutations(Handlers) \cup Permutations(Modes)

VARIABLE part \* which of the three moves

MCInit ==
  /\ Init /\ DashboardInit /\ TelemetryInit
  /\ part \in {"sessions", "dashboard", "telemetry"}

Administration == part = "sessions" /\ UNCHANGED <<dashboardVars, telemetryVars, part>>
Dashboard == part = "dashboard" /\ UNCHANGED <<vars, telemetryVars, part>>
Live == part = "telemetry" /\ UNCHANGED <<vars, dashboardVars, part>>

MCNext ==
  \/ \E h \in Handlers : Administration /\ Handle(h)
  \/ Administration /\ Tick
  \/ Administration /\ PruneAdminSessions
  \/ Administration /\ Restart
  \/ \E r \in Requests, order \in Modes : Dashboard /\ AskPage(r, order)
  \/ \E r \in Requests : Dashboard /\ GetSetting(r)
  \/ \E r \in Requests : Dashboard /\ ServeCached(r)
  \/ \E r \in Requests : Dashboard /\ MarkSilent(r)
  \/ \E r \in Requests : Dashboard /\ MarkSilentFails(r)
  \/ \E r \in Requests : Dashboard /\ ListNodes(r)
  \/ \E r \in Requests : Dashboard /\ KeepPage(r)
  \/ \E r \in Requests : Dashboard /\ EditSettings(r)
  \/ \E r \in Requests, keys \in {{"name"}, {"map"}, {"name", "map"}} :
       Dashboard /\ ChangeSettings(r, keys)
  \/ \E r \in Requests : Dashboard /\ SetSetting(r)
  \/ \E r \in Requests : Dashboard /\ Invalidate(r)
  \/ \E r \in Requests : Dashboard /\ RequestFails(r)
  \/ Dashboard /\ NodeReports
  \/ Dashboard /\ MarkOffline
  \/ Dashboard /\ ClockTicks
  \/ Dashboard /\ ControllerRestarts
  \/ \E p \in Publishers : Live /\ Publish(p)
  \/ \E p \in Publishers, s \in Streams : Live /\ Visit(p, s)
  \/ \E p \in Publishers : Live /\ Offer(p)
  \/ \E p \in Publishers : Live /\ EndRound(p)
  \/ \E s \in Streams : Live /\ Subscribe(s)
  \/ \E s \in Streams : Live /\ Take(s)
  \/ \E s \in Streams : Live /\ Keepalive(s)
  \/ \E s \in Streams : Live /\ Write(s)
  \/ \E s \in Streams : Live /\ Gone(s)
  \/ \E s \in Streams : Live /\ CheckSession(s)
  \/ \E s \in Streams : Live /\ Unsubscribe(s)
  \/ \E s \in Streams : Live /\ SessionEnds(s)

MCSpec == MCInit /\ [][MCNext]_<<vars, dashboardVars, telemetryVars, part>>

\* Every variable of the three holds a value of its type.
TypesOK == TypeOK /\ DashboardTypeOK /\ TelemetryTypeOK
================================================================================
