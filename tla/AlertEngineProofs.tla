-------------------------- MODULE AlertEngineProofs --------------------------
(***************************************************************************)
(* What TLAPS proves of AlertEngine for any number of nodes, rules,        *)
(* evaluators and settings, and for clocks, edits and faults without a     *)
(* small bound.                                                            *)
(***************************************************************************)
EXTENDS AlertEngine, TLAPS

USE ConstantsAssumption

\* What a decision can be, whatever was read: it keeps the types, ...
LEMMA DecideType ==
  ASSUME NEW cfg \in Config, NEW row \in NodeRow, NEW old \in StateRow, NEW at \in Nat
  PROVE  /\ Decide(cfg, row, old, at).kind \in Kinds
         /\ Decide(cfg, row, old, at).active \in BOOLEAN
         /\ Decide(cfg, row, old, at).new \in StateRow
<1>1. Condition(cfg, row, old).fp \in Certs \cup {NoCert}
      /\ Condition(cfg, row, old).active \in BOOLEAN
  BY DEF Condition, Config, Types, NodeRow, StateRow
<1>2. Since(old, at) \in Nat
  BY DEF Since, StateRow
<1> DEFINE c == Condition(cfg, row, old)
<1>3. Raise(cfg, c, old, at).kind \in Kinds /\ Raise(cfg, c, old, at).active = TRUE
  BY DEF Raise, Kinds
<1>4. Raise(cfg, c, old, at).new \in StateRow
  BY <1>1, <1>2 DEF Raise, StateRow, Statuses
<1>5. /\ Clear(c, old).kind \in Kinds /\ Clear(c, old).new \in StateRow
      /\ Clear(c, old).active = FALSE
  BY <1>1 DEF Clear, Lowered, StateRow, Statuses, Kinds
<1>6. /\ Hush(c, old).kind \in Kinds /\ Hush(c, old).new \in StateRow
      /\ Hush(c, old).active = FALSE
  BY <1>1 DEF Hush, Lowered, StateRow, Statuses, Kinds
<1>7. /\ Pulse(c, old, at).kind \in Kinds /\ Pulse(c, old, at).new \in StateRow
      /\ Pulse(c, old, at).active = TRUE
  BY <1>1 DEF Pulse, Lowered, StateRow, Statuses, Kinds
<1>8. row.muted \in BOOLEAN
  BY DEF NodeRow
<1>9. Decide(cfg, row, old, at) \in
        {Raise(cfg, c, old, at), Clear(c, old), Hush(c, old), Pulse(c, old, at)}
  BY <1>1, <1>8 DEF Decide
<1> QED
  BY <1>3, <1>4, <1>5, <1>6, <1>7, <1>9

\* ... it says reminder or resolved only of an alert that is firing, and leaves an
\* alert firing without an event only if it was firing.
LEMMA DecideKind ==
  ASSUME NEW cfg \in Config, NEW row \in NodeRow, NEW old \in StateRow, NEW at \in Nat,
         NEW d, d = Decide(cfg, row, old, at)
  PROVE  /\ d.kind \in {"reminder", "resolved"} => old.status = "firing"
         /\ d.new.status = "firing" /\ d.kind = "none" => old.status = "firing"
         /\ d.kind = "resolved" => d.new.status = "resolved"
<1> DEFINE c == Condition(cfg, row, old)
<1>1. row.muted \in BOOLEAN /\ c.active \in BOOLEAN
  BY DEF NodeRow, Condition, Config, Types, StateRow
<1>2. d \in {Raise(cfg, c, old, at), Clear(c, old), Hush(c, old), Pulse(c, old, at)}
  BY <1>1 DEF Decide
<1>3. CASE d = Raise(cfg, c, old, at)
  BY <1>3 DEF Raise
<1>4. CASE d = Clear(c, old)
  BY <1>4 DEF Clear, Lowered, StateRow
<1>5. CASE d = Hush(c, old)
  BY <1>5 DEF Hush, Lowered, StateRow
<1>6. CASE d = Pulse(c, old, at)
  BY <1>6 DEF Pulse, Lowered, StateRow
<1> QED
  BY <1>2, <1>3, <1>4, <1>5, <1>6

-----------------------------------------------------------------------------
(* Types.                                                                  *)

LEMMA NoRowTypes == NoView \in View /\ NoPlan \in Plan /\ NoState \in StateRow
<1>1. NewNode \in NodeRow
  BY DEF NewNode, Row, NodeRow
<1>2. NoState \in StateRow
  BY DEF NoState, StateRow, Statuses
<1>3. (CHOOSE p \in Pairs : TRUE) \in Pairs
  <2>1. PICK r \in Rules, n \in Nodes : TRUE
    OBVIOUS
  <2>2. <<r, n>> \in Pairs
    BY DEF Pairs
  <2> QED BY <2>2
<1> QED
  BY <1>1, <1>2, <1>3 DEF NoView, NoRules, ViewOf, View, RuleRow, NoPlan, Plan, Kinds

\* An evaluator that has pairs left to do has read the settings of their rules.
TodoOK ==
  \A t \in Evaluators :
    /\ pc[t] \in {"idle", "rules"} => todo[t] = {}
    /\ \A p \in todo[t] : view[t].rules[p[1]] \in Configs

LEMMA TypeInit == Init => TypeOK /\ TodoOK
BY NoRowTypes DEF Init, TypeOK, TodoOK, NewNode, Row, NodeRow, RuleRow, Kinds

\* Reading a state and deciding on it, the one step whose typing needs an argument.
LEMMA ReadStateType ==
  ASSUME TypeOK, TodoOK, NEW t \in Evaluators, NEW p \in todo[t]
  PROVE  /\ view[t].rules[p[1]] \in Config
         /\ view[t].nodes[p[2]] \in NodeRow
         /\ state[p] \in StateRow
         /\ view[t].at \in Nat
         /\ p \in Pairs
BY DEF TypeOK, TodoOK, Pairs, View, RuleRow

LEMMA ReadStateFacts ==
  ASSUME NEW t \in Evaluators, ReadState(t)
  PROVE  \E p, d :
           /\ p \in todo[t]
           /\ d = Decide(view[t].rules[p[1]], view[t].nodes[p[2]], state[p], view[t].at)
           /\ todo' = [todo EXCEPT ![t] = @ \ {p}]
           /\ plan' = [plan EXCEPT ![t] =
                [pair |-> p, kind |-> d.kind, active |-> d.active, new |-> d.new]]
           /\ pc' = [pc EXCEPT ![t] = IF d.kind = "none" THEN "store" ELSE "event"]
BY DEF ReadState

LEMMA TypeStep == TypeOK /\ TodoOK /\ [Next]_vars => TypeOK'
<1> SUFFICES ASSUME TypeOK, TodoOK, [Next]_vars PROVE TypeOK'
  OBVIOUS
<1> USE NoRowTypes DEF TypeOK, evalVars, histVars
<1>1. ASSUME NEW t \in Evaluators, NEW scope \in SUBSET Nodes, Begin(t, scope),
             wanted' \in SUBSET Nodes
      PROVE  TypeOK'
  <2>1. ViewOf(scope, node, NoRules, 0) \in View
    BY DEF ViewOf, View, NoRules, RuleRow
  <2> QED BY <1>1, <2>1 DEF Begin
<1>2. CASE EvaluateAll
  BY <1>1, <1>2 DEF EvaluateAll, Evaluators
<1>3. ASSUME NEW t \in Workers, NEW n \in Nodes, EvaluateNode(t, n) PROVE TypeOK'
  BY <1>1, <1>3 DEF EvaluateNode, Evaluators
<1>4. ASSUME NEW t \in Evaluators, ListRules(t) PROVE TypeOK'
  <2>1. ViewOf(view[t].scope, view[t].nodes, rule, clock) \in View
    BY DEF ViewOf, View
  <2> QED BY <1>4, <2>1 DEF ListRules
<1>5. ASSUME NEW t \in Evaluators, ReadState(t) PROVE TypeOK'
  <2>1. PICK p, d :
          /\ p \in todo[t]
          /\ d = Decide(view[t].rules[p[1]], view[t].nodes[p[2]], state[p], view[t].at)
          /\ todo' = [todo EXCEPT ![t] = @ \ {p}]
          /\ plan' = [plan EXCEPT ![t] =
               [pair |-> p, kind |-> d.kind, active |-> d.active, new |-> d.new]]
          /\ pc' = [pc EXCEPT ![t] = IF d.kind = "none" THEN "store" ELSE "event"]
    BY <1>5, ReadStateFacts
  <2>2. d.kind \in Kinds /\ d.active \in BOOLEAN /\ d.new \in StateRow /\ p \in Pairs
    BY <2>1, ReadStateType, DecideType
  <2>3. [pair |-> p, kind |-> d.kind, active |-> d.active, new |-> d.new] \in Plan
    BY <2>2 DEF Plan
  <2> QED BY <1>5, <2>1, <2>3 DEF ReadState
<1>6. ASSUME NEW t \in Evaluators, AddEvent(t) PROVE TypeOK'
  <2>1. plan[t].pair \in Pairs /\ view[t].at \in Nat /\ plan[t].kind \in Kinds
    BY DEF Plan, View
  <2>2. last' \in [Pairs -> Kinds] /\ alarmAt' \in [Pairs -> Nat]
    BY <1>6, <2>1 DEF AddEvent
  <2>3. pc' \in [Evaluators -> {"idle", "rules", "next", "event", "store"}] /\ plan' \in [Evaluators -> Plan]
    BY <1>6 DEF AddEvent
  <2> QED BY <1>6, <2>2, <2>3 DEF AddEvent
<1>7. ASSUME NEW t \in Evaluators, UpsertAlertState(t) PROVE TypeOK'
  <2>1. /\ plan[t].pair \in Pairs /\ plan[t].new \in StateRow /\ view[t].at \in Nat
        /\ plan[t].kind \in Kinds
    BY DEF Plan, View
  <2>2. state' \in [Pairs -> StateRow] /\ calmAt' \in [Pairs -> Nat]
    BY <1>7, <2>1 DEF UpsertAlertState
  <2>3. orphan' \in [Pairs -> BOOLEAN]
    BY <1>7, <2>1 DEF UpsertAlertState
  <2>4. pc' \in [Evaluators -> {"idle", "rules", "next", "event", "store"}] /\ plan' \in [Evaluators -> Plan]
    BY <1>7 DEF UpsertAlertState
  <2> QED BY <1>7, <2>2, <2>3, <2>4 DEF UpsertAlertState
<1>8. ASSUME NEW t \in Evaluators, Finish(t) PROVE TypeOK'
  BY <1>8 DEF Finish
<1>9. ASSUME NEW t \in Evaluators, StoreError(t) PROVE TypeOK'
  <2>1. plan[t].pair \in Pairs
    BY DEF Plan
  <2>2. orphan' \in [Pairs -> BOOLEAN]
    BY <1>9, <2>1 DEF StoreError
  <2>3. /\ todo' \in [Evaluators -> SUBSET Pairs] /\ plan' \in [Evaluators -> Plan]
        /\ view' \in [Evaluators -> View] /\ mu' \in Evaluators \cup {NoOne}
        /\ pc' \in [Evaluators -> {"idle", "rules", "next", "event", "store"}] /\ faults' \in Nat
    BY <1>9 DEF StoreError
  <2> QED BY <1>9, <2>2, <2>3 DEF StoreError
<1>10. CASE Restart
  <2>1. SeedAlertRules \in [Rules -> RuleRow]
    BY DEF SeedAlertRules, RuleRow, ConstantsAssumption
  <2> QED BY <1>10, <2>1 DEF Restart
<1>11. ASSUME NEW n \in Nodes, Report(n) \/ MarkOffline(n) PROVE TypeOK'
  <2>1. \A rep \in Reports : rep.hot \in BOOLEAN /\ rep.cert \in Certs \cup {NoCert}
    OBVIOUS
  <2>2. ASSUME NEW rep \in Reports
        PROVE  Row("online", rep.hot, rep.cert, node[n].muted, node[n].revoked) \in NodeRow
    BY <2>1 DEF Row, NodeRow
  <2>3. CASE Report(n)
    BY <2>2, <2>3 DEF Report
  <2>4. CASE MarkOffline(n)
    BY <2>4 DEF MarkOffline, NodeRow
  <2> QED BY <1>11, <2>3, <2>4
<1>12. ASSUME NEW n \in Nodes, NEW b \in BOOLEAN,
              SetNodeRevoked(n, b) \/ SetNodeAlertsMuted(n, b)
       PROVE  TypeOK'
  BY <1>12 DEF SetNodeRevoked, SetNodeAlertsMuted, Edit, NodeRow, Row
<1>13. ASSUME NEW n \in Nodes, ResolveMuted(n) PROVE TypeOK'
  BY <1>13 DEF ResolveMuted, StateRow, Statuses
<1>14. ASSUME NEW r \in Rules, NEW cfg \in Configs,
              CreateAlertRule(r, cfg) \/ UpdateAlertRule(r, cfg)
       PROVE  TypeOK'
  BY <1>14 DEF CreateAlertRule, UpdateAlertRule, Edit, RuleRow
<1>15. ASSUME NEW r \in Rules, DeleteAlertRule(r) PROVE TypeOK'
  BY <1>15 DEF DeleteAlertRule, Edit, RuleRow, Kinds
<1>16. CASE Tick
  BY <1>16 DEF Tick
<1>17. CASE UNCHANGED vars
  BY <1>17 DEF vars
<1> QED
  BY <1>2, <1>3, <1>4, <1>5, <1>6, <1>7, <1>8, <1>9, <1>10, <1>11, <1>12, <1>13, <1>14,
     <1>15, <1>16, <1>17 DEF Next, Engine, Environment, Step

\* The mutex, and the todo lists that only its holder works on.
Mutex == \A t \in Evaluators : pc[t] # "idle" => mu = t

Engaged(t) == pc[t] \in {"event", "store"}

\* Nobody works on a rule before it is created.
KnownRule ==
  \A t \in Evaluators :
    /\ \A p \in todo[t] : rule[p[1]] # NotCreated
    /\ Engaged(t) => rule[plan[t].pair[1]] # NotCreated

LocalInv == TypeOK /\ TodoOK /\ Mutex /\ KnownRule

LEMMA LocalInit == Init => LocalInv
BY TypeInit DEF Init, LocalInv, Mutex, KnownRule, Engaged

LEMMA LocalStep == LocalInv /\ [Next]_vars => LocalInv'
<1> SUFFICES ASSUME LocalInv, [Next]_vars PROVE TodoOK' /\ Mutex' /\ KnownRule'
  BY TypeStep DEF LocalInv
<1> USE DEF LocalInv, TodoOK, Mutex, KnownRule, Engaged, evalVars, histVars
<1>0. TypeOK
  OBVIOUS
<1>1. ASSUME NEW t \in Evaluators, NEW scope \in SUBSET Nodes, Begin(t, scope)
      PROVE  TodoOK' /\ Mutex' /\ KnownRule'
  BY <1>0, <1>1 DEF Begin, TypeOK
<1>2. CASE EvaluateAll
  BY <1>1, <1>2 DEF EvaluateAll, Evaluators
<1>3. ASSUME NEW t \in Workers, NEW n \in Nodes, EvaluateNode(t, n)
      PROVE  TodoOK' /\ Mutex' /\ KnownRule'
  BY <1>1, <1>3 DEF EvaluateNode, Evaluators
<1>4. ASSUME NEW t \in Evaluators, ListRules(t) PROVE TodoOK' /\ Mutex' /\ KnownRule'
  BY <1>0, <1>4 DEF ListRules, TypeOK, ViewOf
<1>5. ASSUME NEW t \in Evaluators, ReadState(t) PROVE TodoOK' /\ Mutex' /\ KnownRule'
  <2>1. PICK p, d :
          /\ p \in todo[t]
          /\ todo' = [todo EXCEPT ![t] = @ \ {p}]
          /\ plan' = [plan EXCEPT ![t] =
               [pair |-> p, kind |-> d.kind, active |-> d.active, new |-> d.new]]
          /\ pc' = [pc EXCEPT ![t] = IF d.kind = "none" THEN "store" ELSE "event"]
    BY <1>5, ReadStateFacts
  <2>2. plan'[t].pair = p /\ \A u \in Evaluators \ {t} : plan'[u] = plan[u]
    BY <1>0, <2>1 DEF TypeOK
  <2> QED BY <1>0, <1>5, <2>1, <2>2 DEF ReadState, TypeOK
<1>6. ASSUME NEW t \in Evaluators, AddEvent(t) PROVE TodoOK' /\ Mutex' /\ KnownRule'
  BY <1>0, <1>6 DEF AddEvent, TypeOK
<1>7. ASSUME NEW t \in Evaluators, UpsertAlertState(t) PROVE TodoOK' /\ Mutex' /\ KnownRule'
  BY <1>0, <1>7 DEF UpsertAlertState, TypeOK
<1>8. ASSUME NEW t \in Evaluators, Finish(t) PROVE TodoOK' /\ Mutex' /\ KnownRule'
  BY <1>0, <1>8 DEF Finish, TypeOK
<1>9. ASSUME NEW t \in Evaluators, StoreError(t) PROVE TodoOK' /\ Mutex' /\ KnownRule'
  BY <1>0, <1>9 DEF StoreError, TypeOK
<1>10. CASE Restart
  BY <1>0, <1>10 DEF Restart, TypeOK
<1>11. ASSUME NEW n \in Nodes, NEW b \in BOOLEAN,
              \/ Report(n) \/ MarkOffline(n) \/ ResolveMuted(n)
              \/ SetNodeRevoked(n, b) \/ SetNodeAlertsMuted(n, b) \/ Tick
       PROVE  TodoOK' /\ Mutex' /\ KnownRule'
  BY <1>11 DEF Report, MarkOffline, ResolveMuted, SetNodeRevoked, SetNodeAlertsMuted, Tick
<1>12. ASSUME NEW r \in Rules, NEW cfg \in Configs,
              CreateAlertRule(r, cfg) \/ UpdateAlertRule(r, cfg)
       PROVE  TodoOK' /\ Mutex' /\ KnownRule'
  <2>1. \A q \in Rules : rule'[q] = NotCreated => rule[q] = NotCreated
    BY <1>0, <1>12 DEF CreateAlertRule, UpdateAlertRule, TypeOK
  <2>2. \A u \in Evaluators : plan[u].pair[1] \in Rules /\ \A p \in todo[u] : p[1] \in Rules
    BY <1>0 DEF TypeOK, Plan, Pairs
  <2> QED BY <1>12, <2>1, <2>2 DEF CreateAlertRule, UpdateAlertRule
<1>13. ASSUME NEW r \in Rules, DeleteAlertRule(r) PROVE TodoOK' /\ Mutex' /\ KnownRule'
  <2>1. Deleted # NotCreated
    OBVIOUS
  <2> QED BY <1>0, <1>13, <2>1 DEF DeleteAlertRule, TypeOK
<1>14. CASE UNCHANGED vars
  BY <1>14 DEF vars
<1> QED
  BY <1>2, <1>3, <1>4, <1>5, <1>6, <1>7, <1>8, <1>9, <1>10, <1>11, <1>12, <1>13, <1>14
  DEF Next, Engine, Environment, Step

\* TypeOK is an invariant: whatever the numbers of nodes, rules and evaluators,
\* no step leaves the tables and the evaluators' local variables ill-formed.
THEOREM TypeCorrect == Spec => []TypeOK
<1>1. LocalInv => TypeOK
  BY DEF LocalInv
<1> QED
  BY <1>1, LocalInit, LocalStep, PTL DEF Spec

-----------------------------------------------------------------------------
(* Events alternate.  A firing state means that an alarm is the pair's      *)
(* latest event, except between recording a resolved event and storing the  *)
(* state, and after the state of an event was lost.                         *)

Alarmed(p) == last[p] \in {"firing", "reminder"}

\* What the evaluator that holds the mutex is about to do to the pair it works on.
PlanOK(t) ==
  LET p == plan[t].pair IN
  /\ Engaged(t) /\ plan[t].kind = "resolved" => plan[t].new.status = "resolved"
  /\ pc[t] = "event" => plan[t].kind # "none"
  /\ pc[t] = "event" /\ plan[t].new.status = "firing" => plan[t].kind \in {"firing", "reminder"}
  /\ pc[t] = "event" /\ Exists(p[1]) /\ plan[t].kind \in {"reminder", "resolved"} =>
       Alarmed(p) \/ orphan[p]
  /\ pc[t] = "store" /\ Exists(p[1]) /\ plan[t].new.status = "firing" =>
       Alarmed(p) \/ (orphan[p] /\ plan[t].kind = "none")

Resolving(t, p) == pc[t] = "store" /\ plan[t].pair = p /\ plan[t].kind = "resolved"

FiringOK(p) ==
  state[p].status = "firing" =>
    /\ Exists(p[1])
    /\ Alarmed(p) \/ orphan[p] \/ \E t \in Evaluators : Resolving(t, p)

EventInv ==
  /\ \A t \in Evaluators : PlanOK(t)
  /\ \A p \in Pairs : FiringOK(p)

LEMMA EventInit == Init => EventInv
BY DEF Init, EventInv, PlanOK, FiringOK, Engaged, Alarmed, NoState

\* Steps that only read tables, move a waiting evaluator, or change rows the
\* events do not depend on.
LEMMA EventFrame ==
  ASSUME LocalInv, EventInv, UNCHANGED <<state, plan, last, orphan>>,
         \A r \in Rules : Exists(r)' = Exists(r),
         \A t \in Evaluators :
           \/ pc'[t] = pc[t]
           \/ ~Engaged(t) /\ ~Engaged(t)'
  PROVE  EventInv'
<1>1. \A t \in Evaluators : plan[t].pair \in Pairs /\ plan[t].pair[1] \in Rules
  BY DEF LocalInv, TypeOK, Plan, Pairs
<1>2. \A p \in Pairs : p[1] \in Rules
  BY DEF Pairs
<1>3. \A t \in Evaluators : PlanOK(t)'
  BY <1>1 DEF EventInv, PlanOK, Engaged, Alarmed
<1>4. ASSUME NEW p \in Pairs PROVE FiringOK(p)'
  <2>1. \A t \in Evaluators : Resolving(t, p) => Resolving(t, p)'
    BY DEF Resolving, Engaged
  <2> QED BY <1>2, <2>1 DEF EventInv, FiringOK, Alarmed
<1> QED BY <1>3, <1>4 DEF EventInv

LEMMA EventStep == LocalInv /\ EventInv /\ [Next]_vars => EventInv'
<1> SUFFICES ASSUME LocalInv, EventInv, [Next]_vars PROVE EventInv'
  OBVIOUS
<1> USE DEF evalVars, histVars
<1>0. TypeOK /\ TodoOK /\ Mutex /\ KnownRule
  BY DEF LocalInv
<1>a. /\ \A p \in Pairs : p[1] \in Rules
      /\ \A t \in Evaluators : plan[t].pair \in Pairs
  BY <1>0 DEF TypeOK, Plan, Pairs
<1>b. \A t \in Evaluators, u \in Evaluators : pc[t] # "idle" /\ pc[u] # "idle" => t = u
  BY <1>0 DEF Mutex
<1>1. ASSUME NEW t \in Evaluators, NEW scope \in SUBSET Nodes, Begin(t, scope) PROVE EventInv'
  BY <1>0, <1>1, EventFrame DEF Begin, TypeOK, Engaged, Exists
<1>2. CASE EvaluateAll
  BY <1>1, <1>2 DEF EvaluateAll, Evaluators
<1>3. ASSUME NEW t \in Workers, NEW n \in Nodes, EvaluateNode(t, n) PROVE EventInv'
  BY <1>1, <1>3 DEF EvaluateNode, Evaluators
<1>4. ASSUME NEW t \in Evaluators, ListRules(t) PROVE EventInv'
  BY <1>0, <1>4, EventFrame DEF ListRules, TypeOK, Engaged, Exists
<1>5. ASSUME NEW t \in Evaluators, ReadState(t) PROVE EventInv'
  <2>1. PICK p, d :
          /\ p \in todo[t]
          /\ d = Decide(view[t].rules[p[1]], view[t].nodes[p[2]], state[p], view[t].at)
          /\ plan' = [plan EXCEPT ![t] =
               [pair |-> p, kind |-> d.kind, active |-> d.active, new |-> d.new]]
          /\ pc' = [pc EXCEPT ![t] = IF d.kind = "none" THEN "store" ELSE "event"]
    BY <1>5, ReadStateFacts
  <2>2. /\ d.kind \in {"reminder", "resolved"} => state[p].status = "firing"
        /\ d.new.status = "firing" /\ d.kind = "none" => state[p].status = "firing"
        /\ d.kind = "resolved" => d.new.status = "resolved"
        /\ d.kind \in Kinds /\ p \in Pairs
    BY <1>0, <2>1, ReadStateType, DecideKind, DecideType
  <2>3. /\ plan'[t] = [pair |-> p, kind |-> d.kind, active |-> d.active, new |-> d.new]
        /\ pc'[t] = IF d.kind = "none" THEN "store" ELSE "event"
        /\ \A u \in Evaluators \ {t} : plan'[u] = plan[u] /\ pc'[u] = pc[u]
    BY <1>0, <2>1 DEF TypeOK
  <2>4. UNCHANGED <<state, last, orphan, rule>> /\ pc[t] = "next"
    BY <1>5 DEF ReadState
  <2>5. \A u \in Evaluators, q \in Pairs : ~Resolving(u, q)
    BY <1>b, <2>4 DEF Resolving
  <2>6. state[p].status = "firing" => Alarmed(p) \/ orphan[p]
    BY <2>2, <2>5 DEF EventInv, FiringOK
  <2>7. PlanOK(t)'
    BY <2>2, <2>3, <2>4, <2>6 DEF PlanOK, Engaged, Alarmed, Exists, Kinds
  <2>8. ASSUME NEW u \in Evaluators \ {t} PROVE PlanOK(u)'
    BY <2>3, <2>4 DEF EventInv, PlanOK, Engaged, Alarmed, Exists
  <2>9. ASSUME NEW q \in Pairs PROVE FiringOK(q)'
    BY <2>4, <2>5 DEF EventInv, FiringOK, Alarmed, Exists
  <2> QED BY <2>7, <2>8, <2>9 DEF EventInv
<1>6. ASSUME NEW t \in Evaluators, AddEvent(t) PROVE EventInv'
  <2> DEFINE p == plan[t].pair
  <2>1. /\ pc[t] = "event" /\ UNCHANGED <<state, orphan, rule>>
        /\ \A u \in Evaluators \ {t} : plan'[u] = plan[u] /\ pc'[u] = pc[u] /\ pc[u] = "idle"
    BY <1>0, <1>6, <1>b DEF AddEvent, TypeOK
  <2>2. \A u \in Evaluators, q \in Pairs : ~Resolving(u, q)
    BY <1>b, <2>1 DEF Resolving
  <2>3. CASE Exists(p[1])
    <3>1. /\ plan' = plan /\ pc'[t] = "store" /\ last'[p] = plan[t].kind
          /\ \A q \in Pairs \ {p} : last'[q] = last[q]
      BY <1>0, <1>6, <1>a, <2>3 DEF AddEvent, TypeOK
    <3>2. PlanOK(t) /\ PlanOK(t)'
      BY <2>1, <3>1 DEF EventInv, PlanOK, Engaged, Alarmed, Exists
    <3>3. ASSUME NEW u \in Evaluators \ {t} PROVE PlanOK(u)'
      BY <2>1 DEF PlanOK, Engaged
    <3>4. ASSUME NEW q \in Pairs PROVE FiringOK(q)'
      <4>1. CASE q = p
        <5>1. plan[t].kind \in {"firing", "reminder", "resolved", "none"}
          BY <1>0 DEF TypeOK, Plan, Kinds
        <5>2. plan[t].kind = "resolved" => Resolving(t, p)'
          BY <3>1 DEF Resolving
        <5>3. plan[t].kind # "none"
          BY <1>0, <2>1 DEF EventInv, PlanOK
        <5> QED BY <1>a, <2>1, <2>2, <3>1, <4>1, <5>1, <5>2, <5>3 DEF EventInv, FiringOK, Alarmed, Exists
      <4>2. CASE q # p
        BY <2>1, <2>2, <3>1, <4>2 DEF EventInv, FiringOK, Alarmed, Exists
      <4> QED BY <4>1, <4>2
    <3> QED BY <3>2, <3>3, <3>4 DEF EventInv
  <2>4. CASE ~Exists(p[1])
    <3>1. last' = last /\ pc'[t] = "next"
      BY <1>0, <1>6, <2>4 DEF AddEvent, TypeOK
    <3>2. ASSUME NEW u \in Evaluators PROVE PlanOK(u)'
      BY <2>1, <3>1 DEF PlanOK, Engaged
    <3>3. ASSUME NEW q \in Pairs PROVE FiringOK(q)'
      BY <2>1, <2>2, <3>1 DEF EventInv, FiringOK, Alarmed, Exists
    <3> QED BY <3>2, <3>3 DEF EventInv
  <2> QED BY <2>3, <2>4
<1>7. ASSUME NEW t \in Evaluators, UpsertAlertState(t) PROVE EventInv'
  <2> DEFINE p == plan[t].pair
  <2>1. /\ pc[t] = "store" /\ UNCHANGED <<last, rule>> /\ pc'[t] = "next"
        /\ \A u \in Evaluators \ {t} : pc'[u] = pc[u] /\ pc[u] = "idle"
    BY <1>0, <1>7, <1>b DEF UpsertAlertState, TypeOK
  <2>2. \A u \in Evaluators : PlanOK(u)'
    BY <2>1 DEF PlanOK, Engaged
  <2>3. ASSUME NEW q \in Pairs, q # p PROVE FiringOK(q)'
    <3>1. state'[q] = state[q] /\ orphan'[q] = orphan[q]
      BY <1>0, <1>7, <1>a, <2>3 DEF UpsertAlertState, TypeOK
    <3>2. \A u \in Evaluators : ~Resolving(u, q)
      BY <2>1, <2>3 DEF Resolving
    <3> QED BY <2>1, <3>1, <3>2 DEF EventInv, FiringOK, Alarmed, Exists
  <2>4. ASSUME NEW q \in Pairs, q = p PROVE FiringOK(q)'
    <3>1. CASE Exists(q[1])
      <4>1. /\ state'[q] = plan[t].new
            /\ orphan'[q] = (orphan[q] /\ plan[t].kind = "none" /\ plan[t].new.status = "firing")
        BY <1>0, <1>7, <2>4, <3>1 DEF UpsertAlertState, TypeOK
      <4>2. plan[t].new.status = "firing" => Alarmed(q) \/ (orphan[q] /\ plan[t].kind = "none")
        BY <2>1, <2>4, <3>1 DEF EventInv, PlanOK
      <4> QED BY <2>1, <3>1, <4>1, <4>2 DEF FiringOK, Alarmed, Exists
    <3>2. CASE ~Exists(q[1])
      <4>1. state' = state
        BY <1>7, <2>4, <3>2 DEF UpsertAlertState
      <4>2. state[q].status # "firing"
        BY <3>2 DEF EventInv, FiringOK
      <4> QED BY <4>1, <4>2 DEF FiringOK
    <3> QED BY <3>1, <3>2
  <2> QED BY <2>2, <2>3, <2>4 DEF EventInv
<1>8. ASSUME NEW t \in Evaluators, Finish(t) PROVE EventInv'
  BY <1>0, <1>8, EventFrame DEF Finish, TypeOK, Engaged, Exists
<1>9. ASSUME NEW t \in Evaluators, StoreError(t) PROVE EventInv'
  <2> DEFINE p == plan[t].pair
  <2>1. UNCHANGED <<state, last, rule>>
    BY <1>9 DEF StoreError
  <2>2. CASE pc[t] \in {"rules", "next"}
    BY <1>0, <1>9, <2>1, <2>2, EventFrame DEF StoreError, TypeOK, Engaged, Exists
  <2>3. CASE pc[t] \in {"event", "store"}
    <3>1. /\ orphan' = [orphan EXCEPT ![p] = @ \/ (pc[t] = "store" /\ plan[t].kind # "none")]
          /\ pc' = [pc EXCEPT ![t] = "next"]
      BY <1>9, <2>3 DEF StoreError
    <3>2. \A u \in Evaluators : ~Engaged(u)'
      BY <1>0, <1>b, <2>3, <3>1 DEF Engaged, TypeOK
    <3>3. ASSUME NEW q \in Pairs PROVE FiringOK(q)'
      <4>1. \A u \in Evaluators : Resolving(u, q) => u = t /\ q = p /\ plan[t].kind # "none"
        BY <1>b, <2>3 DEF Resolving
      <4>2. (\E u \in Evaluators : Resolving(u, q)) => orphan'[q]
        BY <1>0, <1>a, <3>1, <4>1 DEF Resolving, TypeOK
      <4>3. orphan[q] => orphan'[q]
        BY <1>0, <1>a, <3>1 DEF TypeOK
      <4> QED BY <2>1, <4>2, <4>3 DEF EventInv, FiringOK, Alarmed, Exists
    <3> QED BY <3>2, <3>3 DEF EventInv, PlanOK, Engaged
  <2> QED BY <1>9, <2>2, <2>3 DEF StoreError
<1>10. CASE Restart
  <2>1. UNCHANGED <<state, last>> /\ \A u \in Evaluators : ~Engaged(u)'
    BY <1>10 DEF Restart, Engaged
  <2>2. \A r \in Rules : Exists(r) => Exists(r)'
    BY <1>10 DEF Restart, SeedAlertRules, Exists
  <2>3. ASSUME NEW q \in Pairs PROVE FiringOK(q)'
    <3>1. orphan'[q] = (orphan[q] \/ \E t \in Evaluators :
            pc[t] = "store" /\ plan[t].pair = q /\ plan[t].kind # "none")
      BY <1>10 DEF Restart
    <3>2. FiringOK(q) /\ q[1] \in Rules
      BY <1>a DEF EventInv
    <3> QED BY <2>1, <2>2, <3>1, <3>2 DEF FiringOK, Resolving, Alarmed
  <2> QED BY <2>1, <2>3 DEF EventInv, PlanOK, Engaged
<1>11. ASSUME NEW n \in Nodes, NEW b \in BOOLEAN,
              \/ Report(n) \/ MarkOffline(n) \/ Tick
              \/ SetNodeRevoked(n, b) \/ SetNodeAlertsMuted(n, b)
       PROVE  EventInv'
  BY <1>11, EventFrame
  DEF Report, MarkOffline, SetNodeRevoked, SetNodeAlertsMuted, Tick, Exists
<1>12. ASSUME NEW n \in Nodes, ResolveMuted(n) PROVE EventInv'
  <2>1. UNCHANGED <<pc, plan, last, orphan, rule>>
    BY <1>12 DEF ResolveMuted
  <2>2. \A q \in Pairs : state'[q].status = "firing" => state[q].status = "firing"
    <3>1. ASSUME NEW q \in Pairs PROVE state'[q].status = "firing" => state[q].status = "firing"
      <4>1. state'[q] = IF q[2] = n
              THEN [state[q] EXCEPT !.status = "resolved", !.first = 0] ELSE state[q]
        BY <1>12 DEF ResolveMuted
      <4>2. state[q] \in StateRow
        BY <1>0 DEF TypeOK
      <4> QED BY <4>1, <4>2 DEF StateRow
    <3> QED BY <3>1
  <2> QED BY <2>1, <2>2
      DEF EventInv, PlanOK, FiringOK, Engaged, Resolving, Alarmed, Exists
<1>13. ASSUME NEW r \in Rules, NEW cfg \in Configs,
              CreateAlertRule(r, cfg) \/ UpdateAlertRule(r, cfg)
       PROVE  EventInv'
  <2>1. UNCHANGED <<pc, plan, state, last, orphan>>
    BY <1>13 DEF CreateAlertRule, UpdateAlertRule
  <2>2. \A q \in Rules : /\ Exists(q) => Exists(q)'
                         /\ Exists(q)' => Exists(q) \/ rule[q] = NotCreated
    BY <1>0, <1>13 DEF CreateAlertRule, UpdateAlertRule, Exists, TypeOK
  <2>3. ASSUME NEW t \in Evaluators PROVE PlanOK(t)'
    <3>1. plan[t].pair[1] \in Rules /\ (Engaged(t) => rule[plan[t].pair[1]] # NotCreated)
      BY <1>0, <1>a DEF KnownRule
    <3> QED BY <2>1, <2>2, <3>1 DEF EventInv, PlanOK, Engaged, Alarmed, Exists
  <2>4. ASSUME NEW q \in Pairs PROVE FiringOK(q)'
    <3>1. \A u \in Evaluators : Resolving(u, q)' = Resolving(u, q)
      BY <2>1 DEF Resolving
    <3>2. q[1] \in Rules
      BY <1>a
    <3>5. FiringOK(q)
      BY DEF EventInv
    <3>3. rule[q[1]] \in Configs => rule'[q[1]] \in Configs
      BY <2>2, <3>2 DEF Exists
    <3> QED BY <2>1, <3>1, <3>3, <3>5 DEF FiringOK, Alarmed, Exists
  <2> QED BY <2>3, <2>4 DEF EventInv
<1>14. ASSUME NEW r \in Rules, DeleteAlertRule(r) PROVE EventInv'
  <2>1. UNCHANGED <<pc, plan, orphan>>
    BY <1>14 DEF DeleteAlertRule
  <2>2. \A q \in Rules : /\ q # r => Exists(q)' = Exists(q)
                         /\ ~Exists(r)'
    BY <1>0, <1>14 DEF DeleteAlertRule, Exists, TypeOK
  <2>3. \A q \in Pairs : /\ q[1] # r => state'[q] = state[q] /\ last'[q] = last[q]
                         /\ q[1] = r => state'[q].status = "resolved"
    BY <1>14 DEF DeleteAlertRule, NoState
  <2>4. ASSUME NEW t \in Evaluators PROVE PlanOK(t)'
    <3> DEFINE p == plan[t].pair
    <3>1. p \in Pairs /\ p[1] \in Rules /\ plan'[t].pair = p
      BY <1>a, <2>1
    <3>4. PlanOK(t)
      BY DEF EventInv
    <3>2. rule'[p[1]] \in Configs => p[1] # r /\ rule[p[1]] \in Configs
      BY <2>2, <3>1 DEF Exists
    <3>3. rule'[p[1]] \in Configs => last'[p] = last[p]
      BY <2>3, <3>1, <3>2
    <3> QED BY <2>1, <3>1, <3>2, <3>3, <3>4 DEF PlanOK, Engaged, Alarmed, Exists
  <2>5. ASSUME NEW q \in Pairs PROVE FiringOK(q)'
    <3>1. \A u \in Evaluators : Resolving(u, q)' = Resolving(u, q)
      BY <2>1 DEF Resolving
    <3>2. q[1] \in Rules
      BY <1>a
    <3>5. FiringOK(q)
      BY DEF EventInv
    <3>3. CASE q[1] = r
      BY <2>3, <3>3 DEF FiringOK
    <3>4. CASE q[1] # r
      <4>1. /\ rule[q[1]] \in Configs => rule'[q[1]] \in Configs
            /\ state'[q] = state[q] /\ last'[q] = last[q]
        BY <2>2, <2>3, <3>2, <3>4 DEF Exists
      <4> QED BY <2>1, <3>1, <3>5, <4>1 DEF FiringOK, Alarmed, Exists
    <3> QED BY <3>3, <3>4
  <2> QED BY <2>4, <2>5 DEF EventInv
<1>15. CASE UNCHANGED vars
  BY <1>15, EventFrame DEF vars, Exists
<1> QED
  BY <1>2, <1>3, <1>4, <1>5, <1>6, <1>7, <1>8, <1>9, <1>10, <1>11, <1>12, <1>13, <1>14, <1>15
  DEF Next, Engine, Environment, Step

\* EventsAlternate is an invariant: for any number of nodes, rules and
\* evaluators, a reminder or a resolved event follows an alarm, unless the state
\* of the pair's latest event was lost.
THEOREM AlternationCorrect == Spec => []EventsAlternate
<1>1. LocalInv /\ EventInv => EventsAlternate
  BY DEF EventInv, PlanOK, EventsAlternate, Alarmed, Engaged
<1>2. LocalInv /\ EventInv /\ [Next]_vars => LocalInv' /\ EventInv'
  BY LocalStep, EventStep
<1> QED
  BY <1>1, <1>2, LocalInit, EventInit, PTL DEF Spec

-----------------------------------------------------------------------------
(* Times.  The engine never compares the events it recorded: it compares    *)
(* the time of its evaluation with two columns of the pair's state.  The    *)
(* invariants relate those columns to what happened.                        *)

Working(t) == pc[t] \in {"next", "event", "store"}
Announcing(t, p) ==
  pc[t] = "store" /\ plan[t].pair = p /\ plan[t].kind \in {"firing", "reminder"}

\* The settings an evaluator works on its pair with.
Settings(t) == view[t].rules[plan[t].pair[1]]

\* What a decision makes of the state's times.
LEMMA DecideTimes ==
  ASSUME NEW cfg \in Config, NEW row \in NodeRow, NEW old \in StateRow, NEW at \in Nat,
         NEW d, d = Decide(cfg, row, old, at)
  PROVE  /\ ~d.active => d.new.status = "resolved"
         /\ d.new.status # "resolved" =>
              d.new.first = at \/ (old.status # "resolved" /\ d.new.first = old.first)
         /\ d.kind = "firing" /\ cfg.type # "tls_changed" =>
              \/ at - at >= cfg.duration
              \/ old.status # "resolved" /\ at - old.first >= cfg.duration
         /\ d.kind \in {"firing", "reminder"} => d.new.notified = at
         /\ d.kind = "none" /\ d.new.status = "firing" =>
              old.status = "firing" /\ d.new.notified = old.notified
         /\ d.kind = "reminder" =>
              old.status = "firing" /\ (old.notified = 0 \/ at - old.notified >= cfg.cooldown)
<1> DEFINE c == Condition(cfg, row, old)
<1>1. row.muted \in BOOLEAN /\ c.active \in BOOLEAN
  BY DEF NodeRow, Condition, Config, Types, StateRow
<1>2. \/ d = Raise(cfg, c, old, at)
      \/ d \in {Clear(c, old), Hush(c, old)}
      \/ d = Pulse(c, old, at) /\ cfg.type = "tls_changed"
  BY <1>1 DEF Decide
<1> HIDE DEF c
<1>3. CASE d = Raise(cfg, c, old, at)
  <2> DEFINE firing == old.status = "firing" \/ at - Since(old, at) >= cfg.duration
             kind == CASE firing /\ old.status # "firing" -> "firing"
                       [] old.status = "firing" /\ ReminderDue(cfg, old, at) -> "reminder"
                       [] OTHER -> "none"
  <2>1. /\ d.kind = kind /\ d.active = TRUE
        /\ d.new.status = IF firing THEN "firing" ELSE "pending"
        /\ d.new.first = Since(old, at)
        /\ d.new.notified = IF kind = "none" THEN old.notified ELSE at
    BY <1>3 DEF Raise
  <2>2. Since(old, at) = at \/ (old.status # "resolved" /\ Since(old, at) = old.first)
    BY DEF Since
  <2>3. kind = "firing" => old.status # "firing" /\ at - Since(old, at) >= cfg.duration
    OBVIOUS
  <2>4. kind = "reminder" => old.status = "firing" /\ ReminderDue(cfg, old, at)
    OBVIOUS
  <2>5. kind = "none" /\ firing => old.status = "firing"
    OBVIOUS
  <2> HIDE DEF kind, firing
  <2> QED BY <2>1, <2>2, <2>3, <2>4, <2>5 DEF ReminderDue
<1>4. CASE d \in {Clear(c, old), Hush(c, old)}
  BY <1>4 DEF Clear, Hush, Lowered
<1>5. CASE d = Pulse(c, old, at) /\ cfg.type = "tls_changed"
  BY <1>5 DEF Pulse, Lowered
<1> QED BY <1>2, <1>3, <1>4, <1>5

\* The steps that decide nothing and write no time: what evaluators work with
\* stays, and an announcement that is not stored leaves the pair an orphan.
Quiet ==
  /\ clock' \in {clock, clock + 1}
  /\ UNCHANGED <<alarmAt, calmAt>>
  /\ \A p \in Pairs : orphan[p] => orphan'[p]
  /\ \A p \in Pairs : state'[p].status # "resolved" => state'[p] = state[p]
  /\ \A t \in Evaluators : Working(t)' => Working(t) /\ view'[t] = view[t]
  /\ \A t \in Evaluators : Engaged(t)' => pc'[t] = pc[t] /\ plan'[t] = plan[t]
  /\ \A t \in Evaluators, p \in Pairs : Announcing(t, p) => Announcing(t, p)' \/ orphan'[p]

Deciding(t) == ListRules(t) \/ ReadState(t) \/ AddEvent(t) \/ UpsertAlertState(t)

LEMMA QuietSteps ==
  ASSUME LocalInv, [Next]_vars
  PROVE  Quiet \/ \E t \in Evaluators : Deciding(t)
<1> USE DEF evalVars, histVars
<1>0. TypeOK
  BY DEF LocalInv
<1>a. ASSUME UNCHANGED <<alarmAt, calmAt, orphan, plan, pc, view>>, clock' \in {clock, clock + 1},
             \A p \in Pairs : state'[p].status # "resolved" => state'[p] = state[p]
      PROVE  Quiet
  BY <1>a DEF Quiet, Working, Engaged, Announcing
<1>1. ASSUME NEW t \in Evaluators, NEW scope \in SUBSET Nodes, Begin(t, scope) PROVE Quiet
  BY <1>0, <1>1 DEF Begin, TypeOK, Quiet, Working, Engaged, Announcing
<1>2. CASE EvaluateAll
  BY <1>1, <1>2 DEF EvaluateAll, Evaluators
<1>3. ASSUME NEW t \in Workers, NEW n \in Nodes, EvaluateNode(t, n) PROVE Quiet
  BY <1>1, <1>3 DEF EvaluateNode, Evaluators
<1>4. ASSUME NEW t \in Evaluators, Finish(t) PROVE Quiet
  BY <1>0, <1>4 DEF Finish, TypeOK, Quiet, Working, Engaged, Announcing
<1>5. ASSUME NEW t \in Evaluators, StoreError(t) PROVE Quiet
  <2>1. UNCHANGED <<clock, state, alarmAt, calmAt>>
    BY <1>5 DEF StoreError
  <2>2. CASE pc[t] = "rules"
    BY <1>0, <1>5, <2>1, <2>2 DEF StoreError, TypeOK, Quiet, Working, Engaged, Announcing
  <2>3. CASE pc[t] = "next"
    BY <1>0, <1>5, <2>1, <2>3 DEF StoreError, TypeOK, Quiet, Working, Engaged, Announcing
  <2>4. CASE pc[t] \in {"event", "store"}
    <3>1. /\ orphan' = [orphan EXCEPT ![plan[t].pair] = @ \/ (pc[t] = "store" /\ plan[t].kind # "none")]
          /\ pc' = [pc EXCEPT ![t] = "next"] /\ plan' = [plan EXCEPT ![t] = NoPlan] /\ view' = view
      BY <1>5, <2>4 DEF StoreError
    <3>2. \A p \in Pairs : /\ orphan[p] => orphan'[p]
                           /\ Announcing(t, p) => orphan'[p]
      BY <1>0, <3>1 DEF TypeOK, Announcing
    <3>3. \A u \in Evaluators \ {t} : pc'[u] = pc[u] /\ plan'[u] = plan[u]
      BY <1>0, <3>1 DEF TypeOK
    <3>4. pc'[t] = "next" /\ Working(t)
      BY <1>0, <2>4, <3>1 DEF TypeOK, Working
    <3> QED BY <2>1, <3>1, <3>2, <3>3, <3>4 DEF Quiet, Working, Engaged, Announcing
  <2> QED BY <1>5, <2>2, <2>3, <2>4 DEF StoreError
<1>6. CASE Restart
  <2>1. /\ UNCHANGED <<clock, state, alarmAt, calmAt>>
        /\ \A t \in Evaluators : pc'[t] = "idle"
        /\ \A p \in Pairs : orphan'[p] = (orphan[p] \/ \E t \in Evaluators :
             pc[t] = "store" /\ plan[t].pair = p /\ plan[t].kind # "none")
    BY <1>6 DEF Restart
  <2> QED BY <2>1 DEF Quiet, Working, Engaged, Announcing
<1>7. ASSUME NEW n \in Nodes, NEW b \in BOOLEAN,
             \/ Report(n) \/ MarkOffline(n) \/ Tick
             \/ SetNodeRevoked(n, b) \/ SetNodeAlertsMuted(n, b)
      PROVE  Quiet
  BY <1>0, <1>7, <1>a DEF Report, MarkOffline, Tick, SetNodeRevoked, SetNodeAlertsMuted, TypeOK
<1>8. ASSUME NEW n \in Nodes, ResolveMuted(n) PROVE Quiet
  <2>1. ASSUME NEW p \in Pairs, state'[p].status # "resolved" PROVE state'[p] = state[p]
    <3>1. state'[p] = IF p[2] = n
            THEN [state[p] EXCEPT !.status = "resolved", !.first = 0] ELSE state[p]
      BY <1>8 DEF ResolveMuted
    <3>2. state[p] \in StateRow
      BY <1>0 DEF TypeOK
    <3> QED BY <2>1, <3>1, <3>2 DEF StateRow
  <2> QED BY <1>8, <1>a, <2>1 DEF ResolveMuted
<1>9. ASSUME NEW r \in Rules, NEW cfg \in Configs,
             CreateAlertRule(r, cfg) \/ UpdateAlertRule(r, cfg)
      PROVE  Quiet
  BY <1>9, <1>a DEF CreateAlertRule, UpdateAlertRule
<1>10. ASSUME NEW r \in Rules, DeleteAlertRule(r) PROVE Quiet
  <2>1. ASSUME NEW p \in Pairs, state'[p].status # "resolved" PROVE state'[p] = state[p]
    BY <1>10, <2>1 DEF DeleteAlertRule, NoState
  <2> QED BY <1>10, <1>a, <2>1 DEF DeleteAlertRule
<1>11. CASE UNCHANGED vars
  BY <1>11, <1>a DEF vars
<1> QED
  BY <1>2, <1>3, <1>4, <1>5, <1>6, <1>7, <1>8, <1>9, <1>10, <1>11
  DEF Next, Engine, Environment, Step, Deciding

\* Who decides holds the mutex: the others keep what they work with, and are idle.
LEMMA DecidingAlone ==
  ASSUME LocalInv, NEW t \in Evaluators, Deciding(t)
  PROVE  /\ Working(t)' => view'[t].at = IF ListRules(t) THEN clock ELSE view[t].at
         /\ \A u \in Evaluators \ {t} : pc[u] = "idle" /\ pc'[u] = "idle"
         /\ UNCHANGED clock
<1> USE DEF LocalInv
<1>1. pc[t] # "idle" /\ UNCHANGED clock
  BY DEF Deciding, ListRules, ReadState, AddEvent, UpsertAlertState
<1>2. \A u \in Evaluators \ {t} : pc[u] = "idle"
  BY <1>1 DEF Mutex
<1>3. \A u \in Evaluators \ {t} : pc'[u] = pc[u]
  <2>1. CASE ListRules(t)
    BY <2>1 DEF TypeOK, ListRules
  <2>2. CASE ReadState(t)
    BY <2>2, ReadStateFacts DEF TypeOK
  <2>3. CASE AddEvent(t)
    BY <2>3 DEF TypeOK, AddEvent
  <2>4. CASE UpsertAlertState(t)
    BY <2>4 DEF TypeOK, UpsertAlertState
  <2> QED BY <2>1, <2>2, <2>3, <2>4 DEF Deciding
<1>4. ASSUME ListRules(t) PROVE view'[t].at = clock
  <2>1. view'[t] = ViewOf(view[t].scope, view[t].nodes, rule, clock)
    BY <1>4 DEF ListRules, TypeOK
  <2> QED BY <2>1 DEF ViewOf
<1>5. ASSUME ~ListRules(t) PROVE view' = view
  BY <1>5 DEF Deciding, ReadState, AddEvent, UpsertAlertState
<1> QED BY <1>1, <1>2, <1>3, <1>4, <1>5

\* What reading a state decides, in one place.
LEMMA ReadStateEffect ==
  ASSUME LocalInv, NEW t \in Evaluators, ReadState(t)
  PROVE  \E p, d :
           /\ p \in Pairs
           /\ d = Decide(view[t].rules[p[1]], view[t].nodes[p[2]], state[p], view[t].at)
           /\ plan'[t] = [pair |-> p, kind |-> d.kind, active |-> d.active, new |-> d.new]
           /\ pc[t] = "next" /\ pc'[t] = IF d.kind = "none" THEN "store" ELSE "event"
           /\ view[t].rules[p[1]] \in Config /\ view[t].nodes[p[2]] \in NodeRow
           /\ state[p] \in StateRow /\ view[t].at \in Nat
           /\ UNCHANGED <<view, state, orphan, alarmAt, calmAt>>
<1>0. TypeOK /\ TodoOK
  BY DEF LocalInv
<1>1. PICK p, d :
        /\ p \in todo[t]
        /\ d = Decide(view[t].rules[p[1]], view[t].nodes[p[2]], state[p], view[t].at)
        /\ plan' = [plan EXCEPT ![t] =
             [pair |-> p, kind |-> d.kind, active |-> d.active, new |-> d.new]]
        /\ pc' = [pc EXCEPT ![t] = IF d.kind = "none" THEN "store" ELSE "event"]
  BY ReadStateFacts
<1>2. /\ plan'[t] = [pair |-> p, kind |-> d.kind, active |-> d.active, new |-> d.new]
      /\ pc'[t] = IF d.kind = "none" THEN "store" ELSE "event"
  BY <1>0, <1>1 DEF TypeOK
<1>3. pc[t] = "next" /\ UNCHANGED <<view, state, orphan, alarmAt, calmAt>>
  BY DEF ReadState, histVars
<1>4. /\ p \in Pairs /\ view[t].rules[p[1]] \in Config /\ view[t].nodes[p[2]] \in NodeRow
      /\ state[p] \in StateRow /\ view[t].at \in Nat
  BY <1>0, <1>1, ReadStateType
<1> QED BY <1>1, <1>2, <1>3, <1>4

\* The times of stored evaluations are past, also for the evaluation under way.
ClockInv ==
  /\ clock >= 1
  /\ \A p \in Pairs : calmAt[p] <= clock
  /\ \A t \in Evaluators : Working(t) =>
       /\ view[t].at >= 1 /\ view[t].at <= clock
       /\ \A p \in Pairs : calmAt[p] <= view[t].at

LEMMA ClockInit == Init => ClockInv
BY DEF Init, ClockInv, Working

LEMMA ClockStep == LocalInv /\ ClockInv /\ [Next]_vars => ClockInv'
<1> SUFFICES ASSUME LocalInv, ClockInv, [Next]_vars PROVE ClockInv'
  OBVIOUS
<1>0. /\ clock \in Nat /\ \A p \in Pairs : calmAt[p] \in Nat
      /\ \A t \in Evaluators : view[t].at \in Nat /\ plan[t].pair \in Pairs
  BY DEF LocalInv, TypeOK, View, Plan
<1>1. CASE Quiet
  BY <1>0, <1>1 DEF Quiet, ClockInv
<1>2. ASSUME NEW t \in Evaluators, ListRules(t) PROVE ClockInv'
  <2>1. calmAt' = calmAt
    BY <1>2 DEF ListRules, histVars
  <2>2. \A u \in Evaluators : Working(u)' => u = t
    BY <1>2, DecidingAlone DEF Deciding, Working
  <2>3. Working(t)' => view'[t].at = clock
    BY <1>2, DecidingAlone DEF Deciding
  <2>4. clock' = clock
    BY <1>2 DEF ListRules
  <2> QED BY <1>0, <2>1, <2>2, <2>3, <2>4 DEF ClockInv
<1>3. ASSUME NEW t \in Evaluators, ReadState(t) \/ AddEvent(t) PROVE ClockInv'
  <2>1. UNCHANGED <<clock, view, calmAt>> /\ Working(t)
    BY <1>3 DEF ReadState, AddEvent, histVars, Working
  <2>2. \A u \in Evaluators : Working(u)' => u = t
    BY <1>3, DecidingAlone DEF Deciding, Working
  <2> QED BY <2>1, <2>2 DEF ClockInv
<1>4. ASSUME NEW t \in Evaluators, UpsertAlertState(t) PROVE ClockInv'
  <2>1. UNCHANGED <<clock, view>> /\ Working(t)
    BY <1>4 DEF UpsertAlertState, Working
  <2>2. \A u \in Evaluators : Working(u)' => u = t
    BY <1>4, DecidingAlone DEF Deciding, Working
  <2>3. \A p \in Pairs : calmAt'[p] \in {calmAt[p], view[t].at}
    BY <1>4 DEF UpsertAlertState, LocalInv, TypeOK
  <2> QED BY <1>0, <2>1, <2>2, <2>3 DEF ClockInv
<1> QED BY <1>1, <1>2, <1>3, <1>4, QuietSteps DEF Deciding

\* A raised state is not older than the pair's latest calm evaluation, and the
\* evaluation under way keeps it that way.
SustainInv ==
  /\ \A p \in Pairs : state[p].status # "resolved" => state[p].first >= calmAt[p]
  /\ \A t \in Evaluators : Engaged(t) =>
       /\ ~plan[t].active => plan[t].new.status = "resolved"
       /\ plan[t].new.status # "resolved" => plan[t].new.first >= calmAt[plan[t].pair]
       /\ plan[t].kind = "firing" /\ Settings(t).type # "tls_changed" =>
            view[t].at - calmAt[plan[t].pair] >= Settings(t).duration

LEMMA SustainInit == Init => SustainInv
BY DEF Init, SustainInv, Engaged, NoState

LEMMA SustainStep == LocalInv /\ ClockInv /\ SustainInv /\ [Next]_vars => SustainInv'
<1> SUFFICES ASSUME LocalInv, ClockInv, SustainInv, [Next]_vars PROVE SustainInv'
  OBVIOUS
<1>0. /\ TypeOK
      /\ \A t \in Evaluators : plan[t].pair \in Pairs /\ view[t].at \in Nat
      /\ \A p \in Pairs : calmAt[p] \in Nat /\ state[p] \in StateRow
  BY DEF LocalInv, TypeOK, View, Plan
<1>1. CASE Quiet
  <2>1. \A t \in Evaluators : Engaged(t)' => /\ Engaged(t) /\ plan'[t] = plan[t]
                                             /\ view'[t] = view[t]
    BY <1>1 DEF Quiet, Engaged, Working
  <2> QED BY <1>1, <2>1 DEF Quiet, SustainInv, Settings
<1>2. ASSUME NEW t \in Evaluators, ListRules(t) PROVE SustainInv'
  <2>1. UNCHANGED <<state, calmAt>>
    BY <1>2 DEF ListRules, histVars
  <2>2. \A u \in Evaluators : ~Engaged(u)'
    BY <1>0, <1>2, DecidingAlone DEF Deciding, Engaged, ListRules, TypeOK
  <2> QED BY <2>1, <2>2 DEF SustainInv
<1>3. ASSUME NEW t \in Evaluators, ReadState(t) PROVE SustainInv'
  <2>1. PICK p, d :
          /\ p \in Pairs
          /\ d = Decide(view[t].rules[p[1]], view[t].nodes[p[2]], state[p], view[t].at)
          /\ plan'[t] = [pair |-> p, kind |-> d.kind, active |-> d.active, new |-> d.new]
          /\ pc[t] = "next" /\ pc'[t] = IF d.kind = "none" THEN "store" ELSE "event"
          /\ view[t].rules[p[1]] \in Config /\ view[t].nodes[p[2]] \in NodeRow
          /\ state[p] \in StateRow /\ view[t].at \in Nat
          /\ UNCHANGED <<view, state, orphan, alarmAt, calmAt>>
    BY <1>3, ReadStateEffect
  <2> DEFINE cfg == view[t].rules[p[1]]
             at == view[t].at
  <2>2. \A u \in Evaluators : Engaged(u)' => u = t
    BY <1>3, DecidingAlone DEF Deciding, Engaged
  <2>3. calmAt[p] <= at /\ calmAt[p] \in Nat
    BY <1>0, <2>1 DEF ClockInv, Working
  <2>4. state[p].status # "resolved" => state[p].first >= calmAt[p]
    BY <2>1 DEF SustainInv
  <2>5. /\ ~d.active => d.new.status = "resolved"
        /\ d.new.status # "resolved" =>
             d.new.first = at \/ (state[p].status # "resolved" /\ d.new.first = state[p].first)
        /\ d.kind = "firing" /\ cfg.type # "tls_changed" =>
             \/ at - at >= cfg.duration
             \/ state[p].status # "resolved" /\ at - state[p].first >= cfg.duration
    BY <2>1, DecideTimes
  <2>6. cfg.duration \in Nat /\ state[p].first \in Nat /\ at \in Nat
    BY <2>1 DEF Config, StateRow
  <2>7. d.new.status # "resolved" => d.new.first >= calmAt[p]
    BY <2>3, <2>4, <2>5, <2>6
  <2>8. d.kind = "firing" /\ cfg.type # "tls_changed" => at - calmAt[p] >= cfg.duration
    BY <2>3, <2>4, <2>5, <2>6
  <2>9. /\ plan'[t].pair = p /\ plan'[t].active = d.active /\ plan'[t].new = d.new
        /\ plan'[t].kind = d.kind /\ view' = view /\ calmAt' = calmAt /\ state' = state
    BY <2>1
  <2> HIDE DEF cfg, at
  <2>10. /\ ~plan'[t].active => plan'[t].new.status = "resolved"
         /\ plan'[t].new.status # "resolved" => plan'[t].new.first >= calmAt'[plan'[t].pair]
    BY <2>5, <2>7, <2>9
  <2>11. plan'[t].kind = "firing" /\ Settings(t)'.type # "tls_changed" =>
           view'[t].at - calmAt'[plan'[t].pair] >= Settings(t)'.duration
    BY <2>8, <2>9 DEF cfg, at, Settings
  <2> QED BY <2>2, <2>9, <2>10, <2>11 DEF SustainInv
<1>4. ASSUME NEW t \in Evaluators, AddEvent(t) PROVE SustainInv'
  <2>1. UNCHANGED <<state, calmAt, view>> /\ Engaged(t)
    BY <1>4 DEF AddEvent, Engaged
  <2>2. \A u \in Evaluators : Engaged(u)' => u = t
    BY <1>4, DecidingAlone DEF Deciding, Engaged
  <2>3. Engaged(t)' => plan' = plan
    BY <1>0, <1>4 DEF AddEvent, Engaged, TypeOK
  <2> QED BY <2>1, <2>2, <2>3 DEF SustainInv, Settings
<1>5. ASSUME NEW t \in Evaluators, UpsertAlertState(t) PROVE SustainInv'
  <2>1. \A u \in Evaluators : ~Engaged(u)'
    BY <1>0, <1>5, DecidingAlone DEF Deciding, Engaged, UpsertAlertState, TypeOK
  <2>2. Engaged(t)
    BY <1>5 DEF UpsertAlertState, Engaged
  <2>3. \A p \in Pairs :
          \/ state'[p] = state[p] /\ calmAt'[p] = calmAt[p]
          \/ p = plan[t].pair /\ state'[p] = plan[t].new
             /\ (plan[t].active => calmAt'[p] = calmAt[p])
    BY <1>0, <1>5 DEF UpsertAlertState, TypeOK
  <2> QED BY <2>1, <2>2, <2>3 DEF SustainInv
<1> QED BY <1>1, <1>2, <1>3, <1>4, <1>5, QuietSteps DEF Deciding

\* FiringIsSustained is an invariant: whatever the durations, and whatever mutes,
\* restarts, changes of the rules and other evaluations come between, an alert
\* fires only when its condition has lasted since every calm evaluation.
THEOREM SustainedCorrect == Spec => []FiringIsSustained
<1>1. SustainInv => FiringIsSustained
  BY DEF SustainInv, FiringIsSustained, Engaged, Settings
<1>2. LocalInv /\ ClockInv /\ SustainInv /\ [Next]_vars => LocalInv' /\ ClockInv' /\ SustainInv'
  BY LocalStep, ClockStep, SustainStep
<1> QED
  BY <1>1, <1>2, LocalInit, ClockInit, SustainInit, PTL DEF Spec

\* The alarm of an alert that fires is the last thing its state was notified of,
\* unless that state is still to be stored or was lost.
Announced(notified, p) == notified > 0 /\ notified >= alarmAt[p]

SpacingInv ==
  /\ \A p \in Pairs : state[p].status = "firing" =>
       Announced(state[p].notified, p) \/ orphan[p] \/ \E t \in Evaluators : Announcing(t, p)
  /\ \A t \in Evaluators : Engaged(t) =>
       LET p == plan[t].pair IN
       /\ plan[t].kind \in {"firing", "reminder"} => plan[t].new.notified = view[t].at
       /\ plan[t].kind = "none" /\ plan[t].new.status = "firing" =>
            Announced(plan[t].new.notified, p) \/ orphan[p]
       /\ Announcing(t, p) => alarmAt[p] = view[t].at
       /\ pc[t] = "event" /\ plan[t].kind = "reminder" =>
            view[t].at - alarmAt[p] >= Settings(t).cooldown \/ orphan[p]

LEMMA SpacingInit == Init => SpacingInv
BY DEF Init, SpacingInv, Engaged, NoState

LEMMA SpacingStep ==
  LocalInv /\ EventInv /\ ClockInv /\ SpacingInv /\ [Next]_vars => SpacingInv'
<1> SUFFICES ASSUME LocalInv, EventInv, ClockInv, SpacingInv, [Next]_vars PROVE SpacingInv'
  OBVIOUS
<1>0. /\ TypeOK
      /\ \A t \in Evaluators : plan[t].pair \in Pairs /\ view[t].at \in Nat
      /\ \A p \in Pairs : alarmAt[p] \in Nat /\ state[p] \in StateRow
  BY DEF LocalInv, TypeOK, View, Plan
<1>1. CASE Quiet
  <2>1. \A t \in Evaluators : Engaged(t)' => /\ Engaged(t) /\ plan'[t] = plan[t] /\ pc'[t] = pc[t]
                                             /\ view'[t] = view[t]
    BY <1>1 DEF Quiet, Engaged, Working
  <2>2. ASSUME NEW p \in Pairs, state'[p].status = "firing"
        PROVE  Announced(state[p].notified, p)' \/ orphan'[p] \/ \E t \in Evaluators : Announcing(t, p)'
    <3>1. state'[p] = state[p]
      BY <1>1, <2>2 DEF Quiet
    <3> QED BY <1>1, <2>2, <3>1 DEF Quiet, SpacingInv, Announced
  <2>3. ASSUME NEW t \in Evaluators, Engaged(t)'
        PROVE  LET p == plan'[t].pair IN
               /\ plan'[t].kind \in {"firing", "reminder"} => plan'[t].new.notified = view'[t].at
               /\ plan'[t].kind = "none" /\ plan'[t].new.status = "firing" =>
                    Announced(plan[t].new.notified, plan[t].pair)' \/ orphan'[p]
               /\ Announcing(t, plan[t].pair)' => alarmAt'[p] = view'[t].at
               /\ pc'[t] = "event" /\ plan'[t].kind = "reminder" =>
                    view'[t].at - alarmAt'[p] >= Settings(t)'.cooldown \/ orphan'[p]
    <3>1. alarmAt' = alarmAt /\ (orphan[plan[t].pair] => orphan'[plan[t].pair])
      BY <1>0, <1>1 DEF Quiet
    <3> QED BY <2>1, <2>3, <3>1 DEF SpacingInv, Announced, Announcing, Settings
  <2> QED BY <2>2, <2>3 DEF SpacingInv
<1>2. ASSUME NEW t \in Evaluators, ListRules(t) PROVE SpacingInv'
  <2>1. UNCHANGED <<state, alarmAt, orphan>> /\ pc[t] = "rules"
    BY <1>2 DEF ListRules, histVars
  <2>2. \A u \in Evaluators : ~Engaged(u)' /\ pc[u] # "store"
    BY <1>0, <1>2, DecidingAlone DEF Deciding, Engaged, ListRules, TypeOK
  <2> QED BY <2>1, <2>2 DEF SpacingInv, Announced, Announcing
<1>3. ASSUME NEW t \in Evaluators, ReadState(t) PROVE SpacingInv'
  <2>1. PICK p, d :
          /\ p \in Pairs
          /\ d = Decide(view[t].rules[p[1]], view[t].nodes[p[2]], state[p], view[t].at)
          /\ plan'[t] = [pair |-> p, kind |-> d.kind, active |-> d.active, new |-> d.new]
          /\ pc[t] = "next" /\ pc'[t] = IF d.kind = "none" THEN "store" ELSE "event"
          /\ view[t].rules[p[1]] \in Config /\ view[t].nodes[p[2]] \in NodeRow
          /\ state[p] \in StateRow /\ view[t].at \in Nat
          /\ UNCHANGED <<view, state, orphan, alarmAt, calmAt>>
    BY <1>3, ReadStateEffect
  <2> DEFINE cfg == view[t].rules[p[1]]
             at == view[t].at
  <2>2. \A u \in Evaluators : (Engaged(u)' => u = t) /\ pc[u] # "store"
    BY <1>3, <2>1, DecidingAlone DEF Deciding, Engaged
  <2>3. /\ d.kind \in {"firing", "reminder"} => d.new.notified = at
        /\ d.kind = "none" /\ d.new.status = "firing" =>
             state[p].status = "firing" /\ d.new.notified = state[p].notified
        /\ d.kind = "reminder" =>
             state[p].status = "firing" /\
             (state[p].notified = 0 \/ at - state[p].notified >= cfg.cooldown)
    BY <2>1, DecideTimes
  <2>4. state[p].status = "firing" => Announced(state[p].notified, p) \/ orphan[p]
    BY <2>1, <2>2 DEF SpacingInv, Announcing
  <2>5. cfg.cooldown \in Nat /\ state[p].notified \in Nat /\ at \in Nat /\ alarmAt[p] \in Nat
    BY <1>0, <2>1 DEF Config, StateRow
  <2>6. d.kind = "reminder" => at - alarmAt[p] >= cfg.cooldown \/ orphan[p]
    BY <2>3, <2>4, <2>5 DEF Announced
  <2>7. d.kind = "none" /\ d.new.status = "firing" => Announced(d.new.notified, p) \/ orphan[p]
    BY <2>3, <2>4
  <2>8. /\ plan'[t].pair = p /\ plan'[t].new = d.new /\ plan'[t].kind = d.kind
        /\ view' = view /\ state' = state /\ orphan' = orphan /\ alarmAt' = alarmAt
    BY <2>1
  <2>9. /\ Settings(t)' = cfg /\ view'[t].at = at
        /\ \A notified : Announced(notified, p)' <=> Announced(notified, p)
        /\ ~Announcing(t, plan[t].pair)'
    BY <2>1, <2>8 DEF Settings, Announced, Announcing
  <2> HIDE DEF cfg, at
  <2>10. \A q \in Pairs : state'[q].status = "firing" =>
           Announced(state[q].notified, q)' \/ orphan'[q] \/ \E u \in Evaluators : Announcing(u, q)'
    BY <2>2, <2>8 DEF SpacingInv, Announcing, Announced
  <2>11. /\ plan'[t].kind \in {"firing", "reminder"} => plan'[t].new.notified = view'[t].at
         /\ plan'[t].kind = "none" /\ plan'[t].new.status = "firing" =>
              Announced(plan[t].new.notified, plan[t].pair)' \/ orphan'[plan'[t].pair]
         /\ plan'[t].kind = "reminder" =>
              view'[t].at - alarmAt'[plan'[t].pair] >= Settings(t)'.cooldown \/ orphan'[plan'[t].pair]
    BY <2>3, <2>6, <2>7, <2>8, <2>9 DEF Announced
  <2> QED BY <2>2, <2>9, <2>10, <2>11 DEF SpacingInv
<1>4. ASSUME NEW t \in Evaluators, AddEvent(t) PROVE SpacingInv'
  <2> DEFINE p == plan[t].pair
  <2>1. UNCHANGED <<state, view, orphan>> /\ pc[t] = "event" /\ Engaged(t) /\ p \in Pairs
    BY <1>0, <1>4 DEF AddEvent, Engaged
  <2>2. \A u \in Evaluators : (Engaged(u)' => u = t) /\ pc[u] # "store"
    BY <1>4, <2>1, DecidingAlone DEF Deciding, Engaged
  <2>3. CASE ~Exists(p[1])
    <3>1. alarmAt' = alarmAt /\ \A u \in Evaluators : ~Engaged(u)'
      BY <1>0, <1>4, <2>2, <2>3 DEF AddEvent, Engaged, TypeOK
    <3> QED BY <2>1, <2>2, <3>1 DEF SpacingInv, Announced, Announcing
  <2>4. CASE Exists(p[1])
    <3>1. /\ plan' = plan /\ pc'[t] = "store"
          /\ \A q \in Pairs \ {p} : alarmAt'[q] = alarmAt[q]
          /\ alarmAt'[p] = IF plan[t].kind = "resolved" THEN alarmAt[p] ELSE view[t].at
      BY <1>0, <1>4, <2>4 DEF AddEvent, TypeOK
    <3>2. plan[t].kind \in {"firing", "reminder", "resolved"}
      BY <1>0, <2>1 DEF EventInv, PlanOK, TypeOK, Plan, Kinds
    <3>3. plan[t].kind # "resolved" => Announcing(t, p)' /\ alarmAt'[p] = view'[t].at
      BY <2>1, <3>1, <3>2 DEF Announcing
    <3>4. ASSUME NEW q \in Pairs, state'[q].status = "firing"
          PROVE  Announced(state[q].notified, q)' \/ orphan'[q] \/ \E u \in Evaluators : Announcing(u, q)'
      <4>1. CASE q = p /\ plan[t].kind # "resolved"
        BY <3>1, <3>3, <4>1 DEF Announcing
      <4>2. CASE ~(q = p /\ plan[t].kind # "resolved")
        <5>1. alarmAt'[q] = alarmAt[q]
          BY <3>1, <4>2
        <5> QED BY <2>1, <2>2, <3>4, <5>1 DEF SpacingInv, Announced, Announcing
      <4> QED BY <4>1, <4>2
    <3>5. Announcing(t, plan[t].pair)' => alarmAt'[p] = view'[t].at
      BY <3>1, <3>3 DEF Announcing
    <3>6. plan'[t].kind \in {"firing", "reminder"} => plan'[t].new.notified = view'[t].at
      BY <2>1, <3>1 DEF SpacingInv
    <3> QED BY <2>2, <3>1, <3>2, <3>4, <3>5, <3>6 DEF SpacingInv
  <2> QED BY <2>3, <2>4
<1>5. ASSUME NEW t \in Evaluators, UpsertAlertState(t) PROVE SpacingInv'
  <2> DEFINE p == plan[t].pair
  <2>1. alarmAt' = alarmAt /\ pc[t] = "store" /\ Engaged(t) /\ p \in Pairs
    BY <1>0, <1>5 DEF UpsertAlertState, Engaged
  <2>2. \A u \in Evaluators : ~Engaged(u)' /\ (pc[u] = "store" => u = t)
    <3>1. \A u \in Evaluators \ {t} : pc[u] = "idle" /\ pc'[u] = "idle"
      BY <1>5, DecidingAlone DEF Deciding
    <3>2. pc'[t] = "next"
      BY <1>0, <1>5 DEF UpsertAlertState, TypeOK
    <3> QED BY <3>1, <3>2 DEF Engaged
  <2>3. ASSUME NEW q \in Pairs, state'[q].status = "firing"
        PROVE  Announced(state[q].notified, q)' \/ orphan'[q]
    <3>1. CASE q # p
      <4>1. state'[q] = state[q] /\ orphan'[q] = orphan[q]
        BY <1>0, <1>5, <2>1, <3>1 DEF UpsertAlertState, TypeOK
      <4>2. \A u \in Evaluators : ~Announcing(u, q)
        BY <2>2, <3>1 DEF Announcing
      <4> QED BY <2>1, <2>3, <4>1, <4>2 DEF SpacingInv, Announced
    <3>2. CASE q = p /\ ~Exists(p[1])
      <4>1. state' = state
        BY <1>5, <3>2 DEF UpsertAlertState
      <4> QED BY <2>3, <3>2, <4>1 DEF EventInv, FiringOK
    <3>3. CASE q = p /\ Exists(p[1])
      <4>1. /\ state'[q] = plan[t].new
            /\ orphan'[q] = (orphan[q] /\ plan[t].kind = "none" /\ plan[t].new.status = "firing")
        BY <1>0, <1>5, <2>1, <3>3 DEF UpsertAlertState, TypeOK
      <4>2. CASE plan[t].kind = "none"
        BY <2>1, <2>3, <3>3, <4>1, <4>2 DEF SpacingInv, Announced
      <4>3. CASE plan[t].kind \in {"firing", "reminder"}
        <5>1. plan[t].new.notified = view[t].at /\ alarmAt[p] = view[t].at
          BY <2>1, <4>3 DEF SpacingInv, Announcing
        <5>2. view[t].at >= 1 /\ view[t].at \in Nat
          BY <1>0, <2>1 DEF ClockInv, Working
        <5> QED BY <2>1, <3>3, <4>1, <5>1, <5>2 DEF Announced
      <4>4. plan[t].kind # "resolved"
        BY <2>1, <2>3, <4>1 DEF EventInv, PlanOK
      <4>5. plan[t].kind \in {"none", "firing", "reminder", "resolved"}
        BY <1>0 DEF TypeOK, Plan, Kinds
      <4> QED BY <4>2, <4>3, <4>4, <4>5
    <3> QED BY <3>1, <3>2, <3>3
  <2> QED BY <2>2, <2>3 DEF SpacingInv
<1> QED BY <1>1, <1>2, <1>3, <1>4, <1>5, QuietSteps DEF Deciding

\* RemindersAreSpaced is an invariant: whatever the cooldowns and whoever
\* evaluates, a reminder comes at least the cooldown after the pair's latest
\* alarm, unless the record of that alarm was lost.
THEOREM SpacedCorrect == Spec => []RemindersAreSpaced
<1>1. SpacingInv => RemindersAreSpaced
  BY DEF SpacingInv, RemindersAreSpaced, Engaged, Settings
<1>2. /\ LocalInv /\ EventInv /\ ClockInv /\ SpacingInv /\ [Next]_vars
         => LocalInv' /\ EventInv' /\ ClockInv' /\ SpacingInv'
  BY LocalStep, EventStep, ClockStep, SpacingStep
<1> QED
  BY <1>1, <1>2, LocalInit, EventInit, ClockInit, SpacingInit, PTL DEF Spec
==============================================================================
