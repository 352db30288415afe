----------------------------- MODULE AlertEngine -----------------------------
(***************************************************************************)
(* The alert engine of the controller (internal/controller/alerts.go) and  *)
(* the rows of the store it works on.                                      *)
(*                                                                         *)
(* An evaluation holds the engine's mutex, reads the node rows, then the   *)
(* rules, and then works through its (rule, node) pairs: it reads the      *)
(* pair's alert state, decides, records an event when one is due, and      *)
(* writes the state back.  Each of these is one statement on the store's   *)
(* single connection, so administrators and reports can commit between any *)
(* two of them: they do not take the engine's mutex.                       *)
(*                                                                         *)
(* Time is a clock of whole ticks starting at 1; 0 is Go's zero time.      *)
(***************************************************************************)
EXTENDS Integers, FiniteSets

CONSTANTS
  Nodes,        \* node ids
  Rules,        \* alert rule ids
  Workers,      \* the goroutines a report starts to evaluate its node
  Maintenance,  \* the maintenance loop, which evaluates every node
  NoOne,        \* nobody holds the engine's mutex
  Configs,      \* the rule settings an administrator can save
  BuiltIn,      \* the rules the controller comes with, and their first settings
  NotCreated,   \* a rule that does not exist yet
  Deleted,      \* a rule that was deleted; no administrator can bring it back
  Certs,        \* TLS certificate fingerprints
  NoCert,       \* the empty fingerprint
  Reports,      \* what a report can say: [hot, cert]
  MaxTime,      \* bound on the clock
  MaxEdits,     \* bound on what administrators do
  MaxFaults     \* bound on store errors and restarts

Evaluators == Workers \cup {Maintenance}
Pairs      == Rules \X Nodes
Types      == {"threshold", "offline", "tls_changed", "tls_invalid"}
Statuses   == {"resolved", "pending", "firing"}
Kinds      == {"none", "firing", "reminder", "resolved"}
Config     == [type: Types, enabled: BOOLEAN, duration: Nat, cooldown: Nat]

ASSUME ConstantsAssumption ==
  /\ Configs \subseteq Config
  /\ DOMAIN BuiltIn \subseteq Rules /\ \A r \in DOMAIN BuiltIn : BuiltIn[r] \in Configs
  /\ NotCreated \notin Configs /\ Deleted \notin Configs /\ NotCreated # Deleted
  /\ Nodes # {} /\ Rules # {}
  /\ NoOne \notin Evaluators
  /\ NoCert \notin Certs
  /\ Reports \subseteq [hot: BOOLEAN, cert: Certs \cup {NoCert}]
  /\ MaxTime \in Nat /\ MaxEdits \in Nat /\ MaxFaults \in Nat

VARIABLES
  clock,    \* the wall clock
  edits,    \* how many requests of administrators have been served
  faults,   \* how many store errors and restarts have happened
  node,     \* nodes: the columns the engine reads
  rule,     \* alert_rules
  state,    \* alert_states; a missing row reads as NoState
  muting,   \* nodes whose mute request has run its first statement only
  wanted,   \* nodes with an evaluateNode goroutine that waits to run
  mu,       \* the holder of the engine's mutex
  pc, view, todo, plan,  \* per evaluator: where it is, what it read, what is left, what it decided
  last,     \* history: the kind of the pair's latest event ("none" before the first)
  alarmAt,  \* history: the evaluation time of the pair's latest firing or reminder
  calmAt,   \* history: the time of the latest stored evaluation that found no active condition
  orphan    \* history: the pair's latest event was recorded but its state never stored

evalVars == <<mu, pc, view, todo, plan>>
histVars == <<last, alarmAt, calmAt, orphan>>
vars == <<clock, edits, faults, node, rule, state, muting, wanted, evalVars, histVars>>

NodeRow  == [status: {"pending", "online", "offline", "revoked"}, hot: BOOLEAN,
             cert: Certs \cup {NoCert}, muted: BOOLEAN, revoked: BOOLEAN]
RuleRow  == Configs \cup {NotCreated, Deleted}
StateRow == [status: Statuses, first: Nat, notified: Nat, fp: Certs \cup {NoCert}]
View     == [scope: SUBSET Nodes, nodes: [Nodes -> NodeRow], rules: [Rules -> RuleRow], at: Nat]
Plan     == [pair: Pairs, kind: Kinds, active: BOOLEAN, new: StateRow]

NoState == [status |-> "resolved", first |-> 0, notified |-> 0, fp |-> NoCert]
Row(status, hot, cert, muted, revoked) ==
  [status |-> status, hot |-> hot, cert |-> cert, muted |-> muted, revoked |-> revoked]
NewNode == Row("pending", FALSE, NoCert, FALSE, FALSE)
ViewOf(scope, nodes, rules, at) == [scope |-> scope, nodes |-> nodes, rules |-> rules, at |-> at]
NoRules == [r \in Rules |-> NotCreated]
NoView  == ViewOf({}, [n \in Nodes |-> NewNode], NoRules, 0)
NoPlan  == [pair |-> CHOOSE p \in Pairs : TRUE, kind |-> "none", active |-> FALSE, new |-> NoState]

Exists(r) == rule[r] \in Configs

-----------------------------------------------------------------------------
(* What one evaluation decides: pure functions of what it read.            *)

\* A threshold rule stands for all the rules whose condition the latest
\* report settles: cpu, memory, disk, latency, packet loss, service down, TLS expiry.
Condition(cfg, row, old) ==
  CASE cfg.type = "threshold"   -> [active |-> row.hot, fp |-> NoCert]
    [] cfg.type = "offline"     -> [active |-> row.status = "offline", fp |-> NoCert]
    [] cfg.type = "tls_invalid" -> [active |-> row.hot, fp |-> IF row.hot THEN row.cert ELSE NoCert]
    [] cfg.type = "tls_changed" ->
         [active |-> row.cert # NoCert /\ old.fp \notin {NoCert, row.cert},
          fp     |-> IF row.cert = NoCert THEN old.fp ELSE row.cert]

\* The moment the condition became active, as far as the stored state knows.
Since(old, at) == IF old.status = "resolved" \/ old.first = 0 THEN at ELSE old.first

\* Mutant of ReminderDue: the cooldown counts from the moment the condition began.
ReminderDueMutant(cfg, old, at) == cfg.cooldown > 0 /\ at - old.first >= cfg.cooldown

ReminderDue(cfg, old, at) ==
  /\ cfg.cooldown > 0
  /\ old.notified = 0 \/ at - old.notified >= cfg.cooldown

\* An active condition of a rule that keeps state.
Raise(cfg, c, old, at) ==
  LET firing == old.status = "firing" \/ at - Since(old, at) >= cfg.duration
      kind   == CASE firing /\ old.status # "firing" -> "firing"
                  [] old.status = "firing" /\ ReminderDue(cfg, old, at) -> "reminder"
                  [] OTHER -> "none"
  IN  [kind |-> kind, active |-> TRUE,
       new  |-> [status   |-> IF firing THEN "firing" ELSE "pending",
                 first    |-> Since(old, at),
                 notified |-> IF kind = "none" THEN old.notified ELSE at,
                 fp       |-> c.fp]]

\* The state of an alert that is not raised.
Lowered(c, old) ==
  [status |-> "resolved", first |-> 0, notified |-> old.notified, fp |-> c.fp]

\* Mutant of Clear: only an alert that fired is reset.
ClearMutant(c, old) ==
  [kind |-> IF old.status = "firing" THEN "resolved" ELSE "none", active |-> FALSE,
   new  |-> IF old.status = "firing" THEN Lowered(c, old) ELSE old]

\* Mutant of Clear: an alert that is still pending says so, too.
ClearPendingMutant(c, old) ==
  [kind |-> IF old.status = "resolved" THEN "none" ELSE "resolved", active |-> FALSE,
   new  |-> Lowered(c, old)]

\* A condition that is not active resolves the alert, and says so if it was firing.
Clear(c, old) ==
  [kind |-> IF old.status = "firing" THEN "resolved" ELSE "none", active |-> FALSE,
   new  |-> Lowered(c, old)]

\* A muted node is tracked but neither fires nor notifies.
Hush(c, old) ==
  [kind |-> "none", active |-> FALSE, new |-> Lowered(c, old)]

\* Mutant of Pulse: an event kind the rest of the program does not know.
PulseMutant(c, old, at) ==
  [kind |-> "changed", active |-> TRUE,
   new  |-> [Lowered(c, old) EXCEPT !.notified = at]]

\* A changed certificate is a single event; the alert does not stay raised.
Pulse(c, old, at) ==
  [kind |-> "firing", active |-> TRUE,
   new  |-> [Lowered(c, old) EXCEPT !.notified = at]]

Decide(cfg, row, old, at) ==
  LET c == Condition(cfg, row, old)
  IN  CASE row.muted -> Hush(c, old)
        [] ~row.muted /\ ~c.active -> Clear(c, old)
        [] ~row.muted /\ c.active /\ cfg.type = "tls_changed" -> Pulse(c, old, at)
        [] ~row.muted /\ c.active /\ cfg.type # "tls_changed" -> Raise(cfg, c, old, at)

-----------------------------------------------------------------------------
Init ==
  /\ clock = 1 /\ edits = 0 /\ faults = 0
  /\ node = [n \in Nodes |-> NewNode]
  /\ rule \in [Rules -> Configs \cup {NotCreated}]
  /\ \A r \in DOMAIN BuiltIn : rule[r] # NotCreated
  /\ state = [p \in Pairs |-> NoState]
  /\ muting = {} /\ wanted = {} /\ mu = NoOne
  /\ pc = [t \in Evaluators |-> "idle"]
  /\ view = [t \in Evaluators |-> NoView]
  /\ todo = [t \in Evaluators |-> {}]
  /\ plan = [t \in Evaluators |-> NoPlan]
  /\ last = [p \in Pairs |-> "none"]
  /\ alarmAt = [p \in Pairs |-> 0] /\ calmAt = [p \in Pairs |-> 0]
  /\ orphan = [p \in Pairs |-> FALSE]

(* The engine. *)

\* Take the mutex and read the node rows.
Begin(t, scope) ==
  /\ mu = NoOne /\ pc[t] = "idle"
  /\ mu' = t
  /\ pc' = [pc EXCEPT ![t] = "rules"]
  /\ view' = [view EXCEPT ![t] = ViewOf(scope, node, NoRules, 0)]
  /\ UNCHANGED <<clock, edits, faults, node, rule, state, muting, todo, plan, histVars>>

\* A report's goroutine reads its node even when it is revoked or muted by now.
EvaluateNode(t, n) ==
  /\ n \in wanted
  /\ wanted' = wanted \ {n}
  /\ Begin(t, {n})

\* Mutant of EvaluateAll: only nodes that report are evaluated.
EvaluateAllMutant ==
  /\ Begin(Maintenance, {n \in Nodes : node[n].status = "online"})
  /\ UNCHANGED wanted

\* The maintenance loop reads the nodes that are not revoked.
EvaluateAll ==
  /\ Begin(Maintenance, {n \in Nodes : ~node[n].revoked})
  /\ UNCHANGED wanted

ListRules(t) ==
  /\ pc[t] = "rules"
  /\ pc' = [pc EXCEPT ![t] = "next"]
  /\ view' = [view EXCEPT ![t] = ViewOf(view[t].scope, view[t].nodes, rule, clock)]
  /\ todo' = [todo EXCEPT ![t] =
       {p \in Pairs : rule[p[1]] \in Configs /\ rule[p[1]].enabled /\ p[2] \in view[t].scope}]
  /\ UNCHANGED <<clock, edits, faults, node, rule, state, muting, wanted, mu, plan, histVars>>

\* Read the pair's state and decide.  Pairs are independent, so their order is left open.
ReadState(t) ==
  /\ pc[t] = "next"
  /\ \E p \in todo[t] :
       LET d == Decide(view[t].rules[p[1]], view[t].nodes[p[2]], state[p], view[t].at)
       IN  /\ todo' = [todo EXCEPT ![t] = @ \ {p}]
           /\ plan' = [plan EXCEPT ![t] =
                [pair |-> p, kind |-> d.kind, active |-> d.active, new |-> d.new]]
           /\ pc' = [pc EXCEPT ![t] = IF d.kind = "none" THEN "store" ELSE "event"]
  /\ UNCHANGED <<clock, edits, faults, node, rule, state, muting, wanted, mu, view, histVars>>

\* Record the event and start its notification.  The foreign key refuses the
\* event of a deleted rule, and the evaluation of the pair ends there.
AddEvent(t) ==
  LET p == plan[t].pair IN
  /\ pc[t] = "event"
  /\ IF Exists(p[1])
     THEN /\ pc' = [pc EXCEPT ![t] = "store"]
          /\ last' = [last EXCEPT ![p] = plan[t].kind]
          /\ alarmAt' = IF plan[t].kind = "resolved" THEN alarmAt
                        ELSE [alarmAt EXCEPT ![p] = view[t].at]
          /\ UNCHANGED plan
     ELSE /\ pc' = [pc EXCEPT ![t] = "next"]
          /\ plan' = [plan EXCEPT ![t] = NoPlan]
          /\ UNCHANGED <<last, alarmAt>>
  /\ UNCHANGED <<clock, edits, faults, node, rule, state, muting, wanted, mu, view, todo, calmAt, orphan>>

\* Write the state back: refused, too, when the rule is gone.
UpsertAlertState(t) ==
  LET p == plan[t].pair IN
  /\ pc[t] = "store"
  /\ pc' = [pc EXCEPT ![t] = "next"]
  /\ plan' = [plan EXCEPT ![t] = NoPlan]
  /\ \/ /\ Exists(p[1])
        /\ state' = [state EXCEPT ![p] = plan[t].new]
        /\ calmAt' = IF plan[t].active THEN calmAt ELSE [calmAt EXCEPT ![p] = view[t].at]
        /\ orphan' = [orphan EXCEPT ![p] =
             @ /\ plan[t].kind = "none" /\ plan[t].new.status = "firing"]
     \/ /\ ~Exists(p[1])
        /\ UNCHANGED <<state, calmAt, orphan>>
  /\ UNCHANGED <<clock, edits, faults, node, rule, muting, wanted, mu, view, todo, last, alarmAt>>

\* Everything is evaluated: the deferred Unlock.
Finish(t) ==
  /\ pc[t] = "next" /\ todo[t] = {}
  /\ mu' = NoOne
  /\ pc' = [pc EXCEPT ![t] = "idle"]
  /\ view' = [view EXCEPT ![t] = NoView]
  /\ UNCHANGED <<clock, edits, faults, node, rule, state, muting, wanted, todo, plan, histVars>>

\* A statement of the evaluation fails.  The first two end the evaluation, the
\* others only the pair: the loop logs the error and goes on.
StoreError(t) ==
  /\ faults < MaxFaults /\ faults' = faults + 1
  /\ \/ /\ pc[t] = "rules"
        /\ mu' = NoOne
        /\ pc' = [pc EXCEPT ![t] = "idle"]
        /\ view' = [view EXCEPT ![t] = NoView]
        /\ UNCHANGED <<todo, plan, orphan>>
     \/ /\ pc[t] = "next"
        /\ \E p \in todo[t] : todo' = [todo EXCEPT ![t] = @ \ {p}]
        /\ UNCHANGED <<mu, pc, view, plan, orphan>>
     \/ /\ pc[t] \in {"event", "store"}
        /\ orphan' = [orphan EXCEPT ![plan[t].pair] =
             @ \/ (pc[t] = "store" /\ plan[t].kind # "none")]
        /\ pc' = [pc EXCEPT ![t] = "next"]
        /\ plan' = [plan EXCEPT ![t] = NoPlan]
        /\ UNCHANGED <<mu, view, todo>>
  /\ UNCHANGED <<clock, edits, node, rule, state, muting, wanted, last, alarmAt, calmAt>>

\* The rules at startup: those of the database, and every built-in rule that is missing
\* there, because it was deleted, with its first settings.
SeedAlertRules ==
  [r \in Rules |-> IF r \in DOMAIN BuiltIn /\ ~Exists(r) THEN BuiltIn[r] ELSE rule[r]]

\* The controller stops and starts again: only the database survives.
Restart ==
  /\ faults < MaxFaults /\ faults' = faults + 1
  /\ muting' = {} /\ wanted' = {} /\ mu' = NoOne
  /\ pc' = [t \in Evaluators |-> "idle"]
  /\ view' = [t \in Evaluators |-> NoView]
  /\ todo' = [t \in Evaluators |-> {}]
  /\ plan' = [t \in Evaluators |-> NoPlan]
  /\ orphan' = [p \in Pairs |-> orphan[p] \/ \E t \in Evaluators :
       pc[t] = "store" /\ plan[t].pair = p /\ plan[t].kind # "none"]
  /\ rule' = SeedAlertRules
  /\ UNCHANGED <<clock, edits, node, state, last, alarmAt, calmAt>>

(* Reports, the clock and administrators. *)

\* UpdateReport, then `go evaluateNode`.
Report(n) ==
  /\ ~node[n].revoked
  /\ \E rep \in Reports :
       node' = [node EXCEPT ![n] = Row("online", rep.hot, rep.cert, @.muted, @.revoked)]
  /\ wanted' = wanted \cup {n}
  /\ UNCHANGED <<clock, edits, faults, rule, state, muting, evalVars, histVars>>

MarkOffline(n) ==
  /\ ~node[n].revoked /\ node[n].status = "online"
  /\ node' = [node EXCEPT ![n].status = "offline"]
  /\ UNCHANGED <<clock, edits, faults, rule, state, muting, wanted, evalVars, histVars>>

\* One more request of an administrator.
Edit == edits < MaxEdits /\ edits' = edits + 1

SetNodeRevoked(n, revoked) ==
  /\ Edit
  /\ LET status == IF revoked THEN "revoked" ELSE "pending"
     IN  node' = [node EXCEPT ![n] = Row(status, @.hot, @.cert, @.muted, revoked)]
  /\ UNCHANGED <<clock, faults, rule, state, muting, wanted, evalVars, histVars>>

\* The first statement of SetNodeAlertsMuted; un-muting has no other.
SetNodeAlertsMuted(n, muted) ==
  /\ Edit
  /\ node' = [node EXCEPT ![n].muted = muted]
  /\ muting' = IF muted THEN muting \cup {n} ELSE muting
  /\ UNCHANGED <<clock, faults, rule, state, wanted, evalVars, histVars>>

\* Its second statement resolves the node's alert states.
ResolveMuted(n) ==
  /\ n \in muting
  /\ muting' = muting \ {n}
  /\ state' = [p \in Pairs |-> IF p[2] = n
                THEN [state[p] EXCEPT !.status = "resolved", !.first = 0] ELSE state[p]]
  /\ UNCHANGED <<clock, edits, faults, node, rule, wanted, evalVars, histVars>>

CreateAlertRule(r, cfg) ==
  /\ Edit
  /\ rule[r] = NotCreated
  /\ rule' = [rule EXCEPT ![r] = cfg]
  /\ UNCHANGED <<clock, faults, node, state, muting, wanted, evalVars, histVars>>

UpdateAlertRule(r, cfg) ==
  /\ Edit
  /\ Exists(r)
  /\ rule' = [rule EXCEPT ![r] = cfg]
  /\ UNCHANGED <<clock, faults, node, state, muting, wanted, evalVars, histVars>>

\* The foreign keys delete the rule's states and events with it.
DeleteAlertRule(r) ==
  /\ Edit
  /\ Exists(r)
  /\ rule' = [rule EXCEPT ![r] = Deleted]
  /\ state' = [p \in Pairs |-> IF p[1] = r THEN NoState ELSE state[p]]
  /\ last' = [p \in Pairs |-> IF p[1] = r THEN "none" ELSE last[p]]
  /\ UNCHANGED <<clock, faults, node, muting, wanted, evalVars, alarmAt, calmAt, orphan>>

Tick ==
  /\ clock < MaxTime
  /\ clock' = clock + 1
  /\ UNCHANGED <<edits, faults, node, rule, state, muting, wanted, evalVars, histVars>>

Step(t) ==
  ListRules(t) \/ ReadState(t) \/ AddEvent(t) \/ UpsertAlertState(t) \/ Finish(t)

Engine ==
  \/ EvaluateAll
  \/ \E t \in Workers, n \in Nodes : EvaluateNode(t, n)
  \/ \E t \in Evaluators : Step(t) \/ StoreError(t)

Environment ==
  \/ Tick \/ Restart
  \/ \E n \in Nodes : Report(n) \/ MarkOffline(n) \/ ResolveMuted(n)
  \/ \E n \in Nodes, b \in BOOLEAN : SetNodeRevoked(n, b) \/ SetNodeAlertsMuted(n, b)
  \/ \E r \in Rules, cfg \in Configs : CreateAlertRule(r, cfg) \/ UpdateAlertRule(r, cfg)
  \/ \E r \in Rules : DeleteAlertRule(r)

Next == Engine \/ Environment

\* The maintenance ticker never stops, sync.Mutex hands itself to a goroutine
\* that has waited too long, and a goroutine that can run is eventually run.
Fairness ==
  /\ SF_vars(EvaluateAll)
  /\ \A t \in Evaluators : WF_vars(Step(t))

Spec == Init /\ [][Next]_vars /\ Fairness
-----------------------------------------------------------------------------
(* Properties.                                                             *)

\* Every variable holds a value of its type.
TypeOK ==
  /\ clock \in Nat /\ edits \in Nat /\ faults \in Nat
  /\ node \in [Nodes -> NodeRow]
  /\ rule \in [Rules -> RuleRow]
  /\ state \in [Pairs -> StateRow]
  /\ muting \in SUBSET Nodes /\ wanted \in SUBSET Nodes
  /\ mu \in Evaluators \cup {NoOne}
  /\ pc \in [Evaluators -> {"idle", "rules", "next", "event", "store"}]
  /\ view \in [Evaluators -> View]
  /\ todo \in [Evaluators -> SUBSET Pairs]
  /\ plan \in [Evaluators -> Plan]
  /\ last \in [Pairs -> Kinds]
  /\ alarmAt \in [Pairs -> Nat] /\ calmAt \in [Pairs -> Nat]
  /\ orphan \in [Pairs -> BOOLEAN]

\* An alert's events alternate: a reminder or a resolved event (alerts.go:164,
\* 175) is about to be recorded only if the pair's latest event is a firing or
\* a reminder.  The only exception is a pair whose latest event was recorded
\* while the state that goes with it was lost to an error or a restart.
EventsAlternate ==
  \A t \in Evaluators : 
    pc[t] = "event" /\ plan[t].kind \in {"reminder", "resolved"} /\ Exists(plan[t].pair[1]) =>
    \/ last[plan[t].pair] \in {"firing", "reminder"}
    \/ orphan[plan[t].pair]

\* DurationSeconds is honoured (alerts.go:152): a rule that keeps state fires
\* only when no evaluation stored within its duration found the condition
\* inactive or the node muted, whatever mutes, restarts, changes of the rule
\* and evaluations of other goroutines happened meanwhile.
FiringIsSustained ==
  \A t \in Evaluators :
    LET cfg == view[t].rules[plan[t].pair[1]]
    IN  pc[t] = "event" /\ plan[t].kind = "firing" /\ cfg.type # "tls_changed" =>
          view[t].at - calmAt[plan[t].pair] >= cfg.duration

\* CooldownSeconds is honoured (alerts.go:157): a reminder comes at least the
\* cooldown after the pair's latest firing or reminder, unless the record of
\* that one was lost.
RemindersAreSpaced ==
  \A t \in Evaluators :
    LET p == plan[t].pair
    IN  pc[t] = "event" /\ plan[t].kind = "reminder" =>
          \/ view[t].at - alarmAt[p] >= view[t].rules[p[1]].cooldown
          \/ orphan[p]

\* What an undisturbed pair settles to.
ShouldBeQuiet(r, n) ==
  /\ Exists(r) /\ rule[r].enabled /\ ~node[n].revoked
  /\ node[n].muted \/ (rule[r].type = "threshold" /\ ~node[n].hot)
ShouldBeFiring(r, n) ==
  /\ Exists(r) /\ rule[r].enabled /\ rule[r].type = "threshold" /\ rule[r].duration = 0
  /\ ~node[n].revoked /\ ~node[n].muted /\ node[n].hot

\* Alerts follow the condition they are about: once the condition of an enabled
\* rule stays clear, or the node stays muted, the alert stops firing for good,
\* and once it stays active the alert of a rule without a duration stays raised,
\* even if reports stop, evaluations fail or the controller restarts on the way.
AlertsSettle ==
  \A r \in Rules, n \in Nodes :
    /\ <>[]ShouldBeQuiet(r, n)  => <>[](state[<<r, n>>].status # "firing")
    /\ <>[]ShouldBeFiring(r, n) => <>[](state[<<r, n>>].status = "firing")

\* "A muted node never fires or notifies" (store.go:1022): no event is recorded
\* for a node whose mute has been committed.
MutedNodesAreSilent ==
  [][\A t \in Evaluators : pc[t] = "event" /\ pc'[t] = "store" =>
       ~node[plan[t].pair[2]].muted]_vars
==============================================================================
