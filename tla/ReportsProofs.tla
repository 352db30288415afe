------------------------------ MODULE ReportsProofs ------------------------------
(***************************************************************************)
(* What TLAPS proves about AgentReport: that it implements Reports, and    *)
(* that it refuses replays only, for any number of handlers and reports,   *)
(* and any windows, clocks and intervals within ClocksAssumption and       *)
(* CapacityAssumption; and about Metrics: that samples are counted once,   *)
(* and that answers are complete, for any tiers, retention, ranges, limits *)
(* and batches.  Then it shows that MCReports composes these two and       *)
(* Notifications, so that what is proved of each holds of the composition. *)
(***************************************************************************)
EXTENDS MCReports, NotificationsProofs, FiniteSetTheorems, FunctionTheorems

-----------------------------------------------------------------------------
(* How reports come in.                                                    *)

USE ConstantsAssumption DEF ConstantsAssumption

\* Whoever handles a request handles a report that was sent.
HandlesSent == \A h \in Handlers : pc[h] # "idle" => report[h] \in 1 .. sent

LEMMA TypeInit == Init => TypeOK /\ HandlesSent
<1> SUFFICES ASSUME Init PROVE TypeOK /\ HandlesSent
  OBVIOUS
<1>1. HandlesSent
  BY DEF Init, HandlesSent
<1>2. /\ stamp \in [Numbers -> Int] /\ signer \in [Numbers -> Nat] /\ expires \in [Numbers -> Nat]
      /\ pc \in [Handlers -> {"idle", "credential", "claim", "store"}]
      /\ report \in [Handlers -> 0 .. MaxReports]
      /\ began \in [Handlers -> Nat] /\ cred \in [Handlers -> Nat]
  BY DEF Init
<1>3. /\ now \in Nat /\ skew \in Skews /\ due \in 0 .. 2 /\ held \in Nat
      /\ sent \in 0 .. MaxReports /\ row \in 0 .. MaxReports /\ counted \subseteq Numbers
      /\ token \in Nat /\ edits \in Nat /\ faults \in Nat
  BY DEF Init
<1>4. revoked \in BOOLEAN
  BY DEF Init
<1> QED BY <1>1, <1>2, <1>3, <1>4 DEF TypeOK

LEMMA AnswerType ==
  ASSUME TypeOK, NEW h \in Handlers, Answer(h)
  PROVE  /\ pc' \in [Handlers -> {"idle", "credential", "claim", "store"}]
         /\ report' \in [Handlers -> 0 .. MaxReports]
         /\ began' \in [Handlers -> Nat] /\ cred' \in [Handlers -> Nat]
BY DEF Answer, GoTo, TypeOK

\* Only the handler that answers changes, and becomes idle.
LEMMA AnswerFrame ==
  ASSUME TypeOK, NEW h \in Handlers, Answer(h)
  PROVE  /\ pc'[h] = "idle"
         /\ \A g \in Handlers \ {h} : /\ pc'[g] = pc[g] /\ report'[g] = report[g]
                                      /\ began'[g] = began[g]
BY DEF Answer, GoTo, TypeOK

LEMMA PurgedType ==
  ASSUME TypeOK
  PROVE  /\ Purged \in [Numbers -> Nat]
         /\ \A n \in Numbers : Purged[n] = IF now < expires[n] THEN expires[n] ELSE 0
BY DEF Purged, TypeOK

LEMMA TypeStep == TypeOK /\ HandlesSent /\ [Next]_vars => TypeOK'
<1> SUFFICES ASSUME TypeOK, HandlesSent, [Next]_vars PROVE TypeOK'
  OBVIOUS
<1> USE DEF TypeOK, nodeVars, handlerVars, storeVars
<1>1. CASE Tick
  BY <1>1 DEF Tick
<1>2. CASE Send
  <2>1. sent' \in Numbers /\ now + skew \in Int
    BY <1>2 DEF Send, Numbers
  <2> QED BY <1>2, <2>1 DEF Send
<1>3. CASE Reinstall
  BY <1>3 DEF Reinstall
<1>4. ASSUME NEW h \in Handlers, NEW n \in Numbers, Receive(h, n) PROVE TypeOK'
  <2>1. n \in 0 .. MaxReports
    BY DEF Numbers
  <2> QED BY <1>4, <2>1 DEF Receive, GoTo
<1>5. ASSUME NEW h \in Handlers, GetNodeCredential(h) PROVE TypeOK'
  BY <1>5, AnswerType DEF GetNodeCredential, GoTo
<1>6. ASSUME NEW h \in Handlers, Unsigned(h) PROVE TypeOK'
  BY <1>6, AnswerType DEF Unsigned
<1>7. ASSUME NEW h \in Handlers, Claim(h) PROVE TypeOK'
  <2>1. now + Keep \in Nat
    OBVIOUS
  <2>2. expires' \in [Numbers -> Nat]
    BY <1>7, <2>1, PurgedType DEF Claim
  <2> QED BY <1>7, <2>2 DEF Claim, GoTo
<1>8. ASSUME NEW h \in Handlers, Refuse(h) PROVE TypeOK'
  BY <1>8, AnswerType, PurgedType DEF Refuse
<1>9. ASSUME NEW h \in Handlers, UpdateReport(h) PROVE TypeOK'
  <2>1. report[h] \in Numbers
    BY <1>9 DEF UpdateReport, HandlesSent, Numbers
  <2> QED BY <1>9, <2>1, AnswerType DEF UpdateReport
<1>10. ASSUME NEW h \in Handlers, StoreError(h) PROVE TypeOK'
  BY <1>10, AnswerType DEF StoreError, Fault
<1>11. CASE SetNodeTokenHash \/ SetNodeRevoked
  <2>1. token' \in Nat /\ edits' \in Nat
    BY <1>11 DEF SetNodeTokenHash, SetNodeRevoked, Edit
  <2>2. revoked' \in BOOLEAN
    BY <1>11 DEF SetNodeTokenHash, SetNodeRevoked
  <2> QED BY <1>11, <2>1, <2>2 DEF SetNodeTokenHash, SetNodeRevoked
<1>12. CASE Restart
  BY <1>12 DEF Restart, Fault
<1>13. CASE UNCHANGED vars
  BY <1>13 DEF vars
<1> QED
  BY <1>1, <1>2, <1>3, <1>4, <1>5, <1>6, <1>7, <1>8, <1>9, <1>10, <1>11, <1>12, <1>13
  DEF Next, Handle

LEMMA HandlesStep == TypeOK /\ HandlesSent /\ [Next]_vars => HandlesSent'
<1> SUFFICES ASSUME TypeOK, HandlesSent, [Next]_vars PROVE HandlesSent'
  OBVIOUS
<1> USE DEF HandlesSent, nodeVars, handlerVars, storeVars
<1>1. sent \in Nat /\ sent' \in Nat /\ sent <= sent'
  BY TypeStep DEF TypeOK, Next, vars, Tick, Send, Reinstall, Handle, Receive, GetNodeCredential, Unsigned,
     Claim, Refuse, UpdateReport, StoreError, SetNodeTokenHash, SetNodeRevoked, Restart
<1>2. ASSUME NEW h \in Handlers, Answer(h), UNCHANGED sent PROVE HandlesSent'
  BY <1>2, AnswerFrame
<1>3. ASSUME UNCHANGED <<pc, report>> PROVE HandlesSent'
  BY <1>1, <1>3 DEF TypeOK
<1>4. CASE Tick \/ Send \/ Reinstall \/ SetNodeTokenHash \/ SetNodeRevoked
  BY <1>3, <1>4 DEF Tick, Send, Reinstall, SetNodeTokenHash, SetNodeRevoked
<1>5. ASSUME NEW h \in Handlers, NEW n \in Numbers, Receive(h, n) PROVE HandlesSent'
  <2>1. n \in 1 .. sent
    BY <1>5 DEF Receive, Numbers, TypeOK
  <2> QED BY <1>5, <2>1 DEF Receive, GoTo, TypeOK
<1>6. ASSUME NEW h \in Handlers, GetNodeCredential(h) PROVE HandlesSent'
  BY <1>2, <1>6 DEF GetNodeCredential, GoTo, TypeOK
<1>7. ASSUME NEW h \in Handlers, Claim(h) PROVE HandlesSent'
  BY <1>7 DEF Claim, GoTo, TypeOK
<1>8. ASSUME NEW h \in Handlers, Unsigned(h) \/ Refuse(h) \/ UpdateReport(h) \/ StoreError(h)
      PROVE  HandlesSent'
  BY <1>2, <1>8 DEF Unsigned, Refuse, UpdateReport, StoreError
<1>9. CASE Restart
  BY <1>9 DEF Restart
<1>10. CASE UNCHANGED vars
  BY <1>3, <1>10 DEF vars
<1> QED
  BY <1>4, <1>5, <1>6, <1>7, <1>8, <1>9, <1>10 DEF Next, Handle

\* TypeOK is an invariant, for any number of handlers and reports.
THEOREM TypeCorrect == Spec => []TypeOK
<1>1. TypeOK /\ HandlesSent /\ [Next]_vars => TypeOK' /\ HandlesSent'
  BY TypeStep, HandlesStep
<1> QED
  BY <1>1, TypeInit, PTL DEF Spec

-----------------------------------------------------------------------------
(* AgentReport implements Reports.  A nonce outlives the requests it came  *)
(* with: from the moment a report is claimed it is Spent, until the        *)
(* controller restarts.                                                    *)

\* The last moment at which a handler may claim the report's nonce: the time
\* was checked at most Delay before.
Latest(n) == stamp[n] + Window + Delay

\* No handler can claim the report any more: its nonce is in the cache until it
\* is too late, or it is.
Spent(n) == Latest(n) < expires[n] \/ Latest(n) < now

SentBefore == \A n \in 1 .. sent : stamp[n] - skew <= now

InTime ==
  \A h \in Handlers : pc[h] \in {"credential", "claim"} =>
    began[h] <= now /\ now <= began[h] + Delay /\ began[h] <= stamp[report[h]] + Window

CountedSpent == \A n \in counted : n \in 1 .. sent /\ Spent(n)

StoringSpent ==
  \A h \in Handlers : pc[h] = "store" =>
    /\ Spent(report[h]) /\ report[h] \notin counted
    /\ \A g \in Handlers \ {h} : pc[g] = "store" => report[g] # report[h]

CountsInv == HandlesSent /\ SentBefore /\ InTime /\ CountedSpent /\ StoringSpent

\* Every action but Restart: what it leaves alone.
LEMMA RunningFrame ==
  ASSUME TypeOK, TypeOK', HandlesSent, [Next]_vars, ~Restart
  PROVE  /\ now <= now' /\ skew' = skew /\ sent <= sent'
         /\ \A n \in 1 .. sent : /\ stamp'[n] = stamp[n]
                                 /\ expires'[n] = expires[n] \/ expires[n] <= now
<1> DEFINE Framed == /\ now <= now' /\ skew' = skew /\ sent <= sent'
                     /\ \A n \in 1 .. sent : /\ stamp'[n] = stamp[n]
                                             /\ expires'[n] = expires[n] \/ expires[n] <= now
<1> SUFFICES Framed
  OBVIOUS
<1> USE DEF nodeVars, handlerVars, storeVars, TypeOK
<1>1. CASE Tick
  BY <1>1 DEF Tick
<1>2. CASE Send
  BY <1>2 DEF Send, Numbers
<1>3. CASE Reinstall \/ SetNodeTokenHash \/ SetNodeRevoked \/ UNCHANGED vars
  BY <1>3 DEF Reinstall, SetNodeTokenHash, SetNodeRevoked, vars
<1>4. ASSUME NEW h \in Handlers,
             \/ \E n \in Numbers : Receive(h, n)
             \/ GetNodeCredential(h) \/ Unsigned(h) \/ UpdateReport(h) \/ StoreError(h)
      PROVE  Framed
  BY <1>4 DEF Receive, GetNodeCredential, Unsigned, UpdateReport, StoreError
<1>5. ASSUME NEW h \in Handlers, Claim(h) \/ Refuse(h)
      PROVE  Framed
  <2>1. UNCHANGED <<now, skew, sent, stamp>>
    BY <1>5 DEF Claim, Refuse
  <2>2. ASSUME NEW n \in Numbers PROVE Purged[n] = expires[n] \/ expires[n] <= now
    BY PurgedType
  <2>3. ASSUME Claim(h) PROVE expires[report[h]] <= now
    <3>1. report[h] \in Numbers
      BY <2>3 DEF Claim, HandlesSent, Numbers
    <3> QED BY <2>3, <3>1, PurgedType DEF Claim, Claimable, Cached
  <2>4. ASSUME NEW n \in 1 .. sent PROVE expires'[n] = expires[n] \/ expires[n] <= now
    <3>1. n \in Numbers
      BY DEF Numbers
    <3>2. CASE Claim(h)
      BY <3>1, <3>2, <2>2, <2>3, PurgedType DEF Claim
    <3>3. CASE Refuse(h)
      BY <3>1, <3>3, <2>2 DEF Refuse
    <3> QED BY <1>5, <3>2, <3>3
  <2> QED BY <2>1, <2>4
<1> QED
  <2> HIDE DEF Framed, TypeOK
  <2> QED BY <1>1, <1>2, <1>3, <1>4, <1>5 DEF Next, Handle

\* A report that is spent stays so.
LEMMA SpentStays ==
  ASSUME TypeOK, TypeOK', HandlesSent, [Next]_vars, ~Restart, NEW n \in 1 .. sent, Spent(n)
  PROVE  Spent(n)'
<1>1. n \in Numbers
  BY DEF Numbers, TypeOK
<1>2. /\ stamp[n] \in Int /\ stamp'[n] = stamp[n]
      /\ expires[n] \in Nat /\ expires'[n] \in Nat /\ now \in Nat /\ now' \in Nat
  BY <1>1, RunningFrame DEF TypeOK
<1> QED
  BY <1>2, RunningFrame DEF Spent, Latest

\* What a handler does about its report: it is refused, it goes on, or another
\* one arrives.
LEMMA HandlerFrame ==
  ASSUME TypeOK, [Next]_vars, NEW h \in Handlers
  PROVE  \/ pc'[h] = "idle"
         \/ \E n \in Numbers : Receive(h, n)
         \/ Claim(h)
         \/ /\ report'[h] = report[h] /\ began'[h] = began[h]
            /\ \/ pc'[h] = pc[h]
               \/ pc[h] \in {"credential", "claim"} /\ pc'[h] \in {"credential", "claim"} 
<1> USE DEF nodeVars, handlerVars, storeVars
<1>1. CASE UNCHANGED <<pc, report, began>>
  BY <1>1
<1>2. CASE Tick \/ Send \/ Reinstall \/ SetNodeTokenHash \/ SetNodeRevoked \/ UNCHANGED vars
  BY <1>1, <1>2 DEF Tick, Send, Reinstall, SetNodeTokenHash, SetNodeRevoked, vars
<1>3. CASE Restart
  BY <1>3 DEF Restart
<1>4. ASSUME NEW g \in Handlers, Answer(g)
      PROVE  pc'[h] = "idle" \/ (pc'[h] = pc[h] /\ report'[h] = report[h] /\ began'[h] = began[h])
  BY <1>4, AnswerFrame
<1>5. ASSUME NEW g \in Handlers, Unsigned(g) \/ Refuse(g) \/ UpdateReport(g) \/ StoreError(g)
      PROVE  Answer(g)
  BY <1>5 DEF Unsigned, Refuse, UpdateReport, StoreError
<1>6. ASSUME NEW g \in Handlers, GetNodeCredential(g), ~Answer(g)
      PROVE  /\ report'[h] = report[h] /\ began'[h] = began[h]
             /\ \/ pc'[h] = pc[h]
                \/ pc[h] \in {"credential", "claim"} /\ pc'[h] \in {"credential", "claim"}
  BY <1>6 DEF GetNodeCredential, GoTo, TypeOK
<1>7. ASSUME NEW g \in Handlers, g # h, Claim(g) \/ \E n \in Numbers : Receive(g, n)
      PROVE  pc'[h] = pc[h] /\ report'[h] = report[h] /\ began'[h] = began[h]
  BY <1>7 DEF Claim, Receive, GoTo, TypeOK
<1> QED
  BY <1>2, <1>3, <1>4, <1>5, <1>6, <1>7 DEF Next, Handle

LEMMA SentBeforeStep == TypeOK /\ TypeOK' /\ SentBefore /\ HandlesSent /\ [Next]_vars => SentBefore'
<1> SUFFICES ASSUME TypeOK, TypeOK', SentBefore, HandlesSent, [Next]_vars, NEW n \in (1 .. sent)'
             PROVE  stamp'[n] - skew' <= now'
  BY DEF SentBefore
<1> USE DEF TypeOK, nodeVars
<1>1. CASE Send
  <2>1. n \in Numbers /\ sent' \in Numbers /\ skew \in Int /\ skew' = skew /\ now' = now
    BY <1>1 DEF Send, Numbers
  <2>2. CASE n = sent'
    BY <1>1, <2>1, <2>2 DEF Send
  <2>3. CASE n # sent'
    <3>1. n \in 1 .. sent
      BY <1>1, <2>3 DEF Send
    <3> QED BY <1>1, <2>1, <2>3, <3>1 DEF Send, SentBefore
  <2> QED BY <2>2, <2>3
<1>2. CASE ~Send
  <2>1. sent' = sent /\ stamp' = stamp /\ skew' = skew
    BY <1>2 DEF Next, vars, Tick, Reinstall, Handle, Receive, GetNodeCredential, Unsigned, Claim,
       Refuse, UpdateReport, StoreError, SetNodeTokenHash, SetNodeRevoked, Restart
  <2>2. now <= now'
    BY RunningFrame DEF Restart
  <2>3. n \in Numbers /\ stamp[n] \in Int /\ skew \in Int
    BY <2>1 DEF Numbers
  <2> QED BY <2>1, <2>2, <2>3 DEF SentBefore
<1> QED BY <1>1, <1>2

LEMMA InTimeStep == TypeOK /\ TypeOK' /\ HandlesSent /\ InTime /\ [Next]_vars => InTime'
<1> SUFFICES ASSUME TypeOK, TypeOK', HandlesSent, InTime, [Next]_vars, NEW h \in Handlers,
                    pc'[h] \in {"credential", "claim"}
             PROVE  began'[h] <= now' /\ now' <= began'[h] + Delay
                    /\ began'[h] <= stamp'[report'[h]] + Window
  BY DEF InTime
<1> USE DEF nodeVars, handlerVars, storeVars
<1>1. ASSUME NEW n \in Numbers, Receive(h, n)
      PROVE  began'[h] <= now' /\ now' <= began'[h] + Delay /\ began'[h] <= stamp'[report'[h]] + Window
  <2>1. began'[h] = now /\ now' = now /\ report'[h] = n /\ stamp'[n] = stamp[n]
    BY <1>1 DEF Receive, TypeOK
  <2>2. now \in Nat /\ stamp[n] \in Int /\ now - stamp[n] <= Window
    BY <1>1 DEF Receive, Fresh, TypeOK
  <2> QED BY <2>1, <2>2
<1>2. CASE /\ report'[h] = report[h] /\ began'[h] = began[h]
           /\ pc[h] \in {"credential", "claim"}
  <2>1. /\ began[h] <= now /\ now <= began[h] + Delay /\ began[h] <= stamp[report[h]] + Window
        /\ report[h] \in 1 .. sent
    BY <1>2 DEF InTime, HandlesSent
  <2>2. ~Restart
    BY DEF Restart
  <2>3. now <= now' /\ stamp'[report[h]] = stamp[report[h]]
    BY <2>1, <2>2, RunningFrame
  <2>4. now' <= began[h] + Delay
    <3>1. CASE Tick
      BY <1>2, <3>1 DEF Tick, TypeOK
    <3>2. CASE ~Tick
      <4>1. now' = now
        BY <3>2 DEF Next, vars, Send, Reinstall, Handle, Receive, GetNodeCredential, Unsigned, Claim,
           Refuse, UpdateReport, StoreError, SetNodeTokenHash, SetNodeRevoked, Restart
      <4> QED BY <2>1, <4>1
    <3> QED BY <3>1, <3>2
  <2>5. now \in Nat /\ now' \in Nat /\ began[h] \in Nat
    BY DEF TypeOK
  <2> QED BY <1>2, <2>1, <2>3, <2>4, <2>5
<1>3. ~Claim(h)
  BY DEF Claim, GoTo, TypeOK
<1> QED BY <1>1, <1>2, <1>3, HandlerFrame

\* A report that is claimed has not been spent, and then is.
LEMMA ClaimSpends ==
  ASSUME TypeOK, TypeOK', CountsInv, NEW h \in Handlers, Claim(h)
  PROVE  report[h] \in 1 .. sent /\ ~Spent(report[h]) /\ Spent(report[h])'
<1> DEFINE n == report[h]
<1> USE DEF CountsInv
<1>1. n \in 1 .. sent /\ n \in Numbers
  BY DEF Claim, HandlesSent, Numbers, TypeOK
<1>2. began[h] <= now /\ now <= began[h] + Delay /\ began[h] <= stamp[n] + Window
  BY DEF Claim, InTime
<1>3. stamp[n] - skew <= now
  BY <1>1 DEF SentBefore
<1>4. expires[n] <= now
  BY <1>1, PurgedType DEF Claim, Claimable, Cached, TypeOK
<1>5. expires'[n] = now + Keep /\ now' = now /\ stamp'[n] = stamp[n] /\ n' = n
  BY <1>1, PurgedType DEF Claim, nodeVars
<1>6. /\ now \in Nat /\ began[h] \in Nat /\ stamp[n] \in Int /\ expires[n] \in Nat
      /\ skew \in Int /\ skew + Delay < Keep - Window
  BY <1>1, ClocksAssumption DEF TypeOK
<1>7. now <= Latest(n)
  BY <1>2, <1>6 DEF Latest
<1>8. Latest(n)' = Latest(n) /\ Latest(n) < now + Keep
  BY <1>3, <1>5, <1>6 DEF Latest
<1>9. Latest(n) \in Int
  BY <1>6 DEF Latest
<1> HIDE DEF n
<1>10. ~Spent(n)
  BY <1>4, <1>6, <1>7, <1>9 DEF Spent
<1>11. Spent(n)'
  BY <1>5, <1>6, <1>8, <1>9 DEF Spent
<1> QED BY <1>1, <1>10, <1>11 DEF n

LEMMA CountedSpentStep == TypeOK /\ TypeOK' /\ CountsInv /\ [Next]_vars => CountedSpent'
<1> SUFFICES ASSUME TypeOK, TypeOK', CountsInv, [Next]_vars, NEW n \in counted'
             PROVE  n \in 1 .. sent' /\ Spent(n)'
  BY DEF CountedSpent
<1> USE DEF CountsInv
<1>1. ~Restart
  BY DEF Restart
<1>2. n \in counted \/ \E h \in Handlers : UpdateReport(h) /\ n = report[h]
  BY <1>1 DEF Next, vars, storeVars, Tick, Send, Reinstall, Handle, Receive, GetNodeCredential, Unsigned,
     Claim, Refuse, UpdateReport, StoreError, SetNodeTokenHash, SetNodeRevoked
<1>3. n \in 1 .. sent /\ Spent(n)
  BY <1>2 DEF CountedSpent, UpdateReport, StoringSpent, HandlesSent
<1>4. sent <= sent' /\ sent \in Nat /\ sent' \in Nat
  BY <1>1, RunningFrame DEF TypeOK
<1> QED BY <1>1, <1>3, <1>4, SpentStays

LEMMA StoringSpentStep == TypeOK /\ TypeOK' /\ CountsInv /\ [Next]_vars => StoringSpent'
<1> SUFFICES ASSUME TypeOK, TypeOK', CountsInv, [Next]_vars, NEW h \in Handlers, pc'[h] = "store"
             PROVE  /\ Spent(report[h])' /\ report'[h] \notin counted'
                    /\ \A g \in Handlers \ {h} : pc'[g] = "store" => report'[g] # report'[h]
  BY DEF StoringSpent
<1> USE DEF CountsInv
<1>1. ~Restart
  BY DEF Restart
\* A handler that stores its report has claimed it, in this step or earlier.
<1>2. ASSUME NEW g \in Handlers, pc'[g] = "store"
      PROVE  report'[g] = report[g] /\ (Claim(g) \/ pc[g] = "store")
  <2>1. ~\E n \in Numbers : Receive(g, n)
    BY <1>2 DEF Receive, GoTo, TypeOK
  <2> QED BY <1>2, <2>1, HandlerFrame DEF Claim
<1>3. report'[h] = report[h] /\ report[h] \in 1 .. sent
  BY <1>2 DEF HandlesSent, Claim
<1>4. Spent(report[h])'
  <2>1. CASE Claim(h)
    BY <2>1, ClaimSpends
  <2>2. CASE pc[h] = "store"
    <3> DEFINE n == report[h]
    <3>1. Spent(n)
      BY <2>2 DEF StoringSpent
    <3>2. n \in 1 .. sent
      BY <1>3
    <3>3. Spent(report[h]') <=> Spent(n)
      BY <1>3
    <3>4. n' = n
      BY <1>3
    <3> HIDE DEF n
    <3>5. Spent(n)'
      BY <1>1, <3>1, <3>2, <3>4, RunningFrame, SpentStays
    <3> QED BY <3>5 DEF n
  <2> QED BY <1>2, <2>1, <2>2
<1>5. ASSUME NEW g \in Handlers \ {h}, pc'[g] = "store" PROVE report'[g] # report'[h]
  <2>1. report'[g] = report[g] /\ (Claim(g) \/ pc[g] = "store")
    BY <1>2, <1>5
  <2>2. CASE pc[g] = "store" /\ pc[h] = "store"
    BY <1>3, <2>1, <2>2 DEF StoringSpent
  <2>3. CASE Claim(g) /\ pc[h] = "store"
    BY <1>3, <2>1, <2>3, ClaimSpends DEF StoringSpent
  <2>4. CASE Claim(h) /\ pc[g] = "store"
    BY <1>3, <2>1, <2>4, ClaimSpends DEF StoringSpent
  <2>5. ~(Claim(g) /\ Claim(h))
    <3>1. ASSUME Claim(g), Claim(h) PROVE FALSE
      <4>1. pc'[h] = pc[h] /\ pc[h] = "claim"
        BY <1>5, <3>1 DEF Claim, GoTo, TypeOK
      <4> QED BY <4>1
    <3> QED BY <3>1
  <2> QED BY <1>2, <2>1, <2>2, <2>3, <2>4, <2>5
<1>6. report'[h] \notin counted'
  <2>1. report[h] \notin counted
    BY <1>2, ClaimSpends DEF StoringSpent, CountedSpent
  <2>2. ASSUME NEW g \in Handlers, UpdateReport(g) PROVE report[h] # report[g]
    <3>1. pc'[g] = "idle" /\ pc[g] = "store" /\ pc'[h] = pc[h]
      BY <2>2, AnswerFrame DEF UpdateReport
    <3> QED BY <3>1 DEF StoringSpent
  <2>3. counted' = counted \/ \E g \in Handlers : UpdateReport(g) /\ counted' = counted \cup {report[g]}
    BY <1>1 DEF Next, vars, storeVars, Tick, Send, Reinstall, Handle, Receive, GetNodeCredential, Unsigned,
       Claim, Refuse, UpdateReport, StoreError, SetNodeTokenHash, SetNodeRevoked
  <2> QED BY <1>3, <2>1, <2>2, <2>3
<1> QED BY <1>4, <1>5, <1>6

LEMMA CountsStep == TypeOK /\ CountsInv /\ [Next]_vars => CountsInv'
<1> SUFFICES ASSUME TypeOK, CountsInv, [Next]_vars PROVE CountsInv'
  OBVIOUS
<1>1. HandlesSent /\ SentBefore /\ InTime
  BY DEF CountsInv
<1>2. TypeOK'
  BY <1>1, TypeStep
<1> QED
  BY <1>1, <1>2, HandlesStep, SentBeforeStep, InTimeStep, CountedSpentStep, StoringSpentStep
  DEF CountsInv

LEMMA CountsInit == Init => CountsInv
<1> SUFFICES ASSUME Init PROVE CountsInv
  OBVIOUS
<1>1. sent = 0 /\ counted = {} /\ \A h \in Handlers : pc[h] = "idle"
  BY DEF Init
<1> QED
  BY <1>1 DEF CountsInv, HandlesSent, SentBefore, InTime, CountedSpent, StoringSpent

\* What the promise is about.
Promised == <<sent, counted, row>>

LEMMA ImplementsStep == TypeOK /\ CountsInv /\ [Next]_vars => [Promise!Next]_Promised
<1> SUFFICES ASSUME TypeOK, CountsInv, [Next]_vars PROVE [Promise!Next]_Promised
  OBVIOUS
<1> USE DEF Promised, nodeVars, handlerVars, storeVars
<1>1. CASE Send
  BY <1>1 DEF Send, Promise!Next, Promise!Send
<1>2. CASE Restart
  BY <1>2 DEF Restart, Promise!Next, Promise!Restart
<1>3. ASSUME NEW h \in Handlers, UpdateReport(h) PROVE [Promise!Next]_Promised
  <2>1. report[h] \in (1 .. sent) \ counted
    BY <1>3 DEF UpdateReport, CountsInv, HandlesSent, StoringSpent
  <2>2. CASE revoked
    BY <1>3, <2>2 DEF UpdateReport
  <2>3. CASE ~revoked
    BY <1>3, <2>1, <2>3 DEF UpdateReport, Promise!Next, Promise!Count
  <2> QED BY <2>2, <2>3
<1>4. CASE Tick \/ Reinstall \/ SetNodeTokenHash \/ SetNodeRevoked \/ UNCHANGED vars
  BY <1>4 DEF Tick, Reinstall, SetNodeTokenHash, SetNodeRevoked, vars
<1>5. ASSUME NEW h \in Handlers,
             \/ \E n \in Numbers : Receive(h, n)
             \/ GetNodeCredential(h) \/ Unsigned(h) \/ Claim(h) \/ Refuse(h) \/ StoreError(h)
      PROVE  UNCHANGED Promised
  BY <1>5 DEF Receive, GetNodeCredential, Unsigned, Claim, Refuse, StoreError
<1> QED
  BY <1>1, <1>2, <1>3, <1>4, <1>5 DEF Next, Handle

\* CountsOnce holds: AgentReport implements Reports, whatever the network does
\* with requests and however handlers, administrators and restarts interleave.
THEOREM CountsOnceCorrect == Spec => CountsOnce
<1>1. Spec => [](TypeOK /\ CountsInv)
  <2>1. TypeOK /\ CountsInv /\ [Next]_vars => TypeOK' /\ CountsInv'
    BY TypeStep, CountsStep DEF CountsInv
  <2> QED BY <2>1, TypeInit, CountsInit, PTL DEF Spec
<1>2. Init => Promise!Init
  BY DEF Init, Promise!Init
<1> QED
  BY <1>1, <1>2, ImplementsStep, PTL DEF Spec, CountsOnce, Promise!Spec, Promised

-----------------------------------------------------------------------------
(* The cache has room.  The agent's ticker and its channel bound how many    *)
(* reports follow another by the ticks in between, and a nonce in the cache  *)
(* belongs to a report that was sent a limited time ago.                     *)

SentAt(n) == stamp[n] - skew

\* The reports after n, and those still due, are no more than the ticks since n, and
\* what was due when it was sent.
PacedInv == \A n \in 1 .. sent : sent - n + due <= 1 + now \div Interval - SentAt(n) \div Interval

\* A nonce in the cache was claimed in time.
ClaimedInv == \A n \in Numbers : expires[n] # 0 => n \in 1 .. sent /\ expires[n] <= Latest(n) + Keep

\* A set of numbers up to n that is not empty has a least one.
LEMMA FirstOf ==
  ASSUME NEW n \in Nat, NEW S \in SUBSET (1 .. n), S # {}
  PROVE  \E k \in S : \A j \in S : k <= j
<1> DEFINE U == 1 .. n
           T == {1 .. k : k \in S}
<1>1. IsFiniteSet(U)
  BY FS_Interval
<1>2. IsWellFoundedOn(StrictSubsetOrdering(U), FiniteSubsetsOf(U))
  BY FS_StrictSubsetOrderingWellFounded
<1>3. FiniteSubsetsOf(U) = SUBSET U
  BY <1>1, FS_FiniteSubsetsOfFinite
<1>4. T \subseteq SUBSET U /\ T # {}
  <2>1. ASSUME NEW k \in S PROVE 1 .. k \in SUBSET U
    OBVIOUS
  <2> QED BY <2>1
<1> HIDE DEF U, T
<1>5. PICK x \in T : \A y \in T : ~(<<y, x>> \in StrictSubsetOrdering(U))
  BY <1>2, <1>3, <1>4, WFMin
<1>6. PICK k \in S : x = 1 .. k
  BY <1>5 DEF T
<1>7. ASSUME NEW j \in S PROVE k <= j
  <2>1. SUFFICES ASSUME j < k PROVE FALSE
    OBVIOUS
  <2>2. 1 .. j \in T /\ 1 .. j \subseteq 1 .. k /\ 1 .. j # 1 .. k
    BY <2>1 DEF T
  <2>3. 1 .. j \in SUBSET U /\ 1 .. k \in SUBSET U
    BY <1>4, <1>5, <1>6, <2>2
  <2>4. <<1 .. j, 1 .. k>> \in StrictSubsetOrdering(U)
    BY <2>2, <2>3 DEF StrictSubsetOrdering
  <2> QED BY <1>5, <1>6, <2>2, <2>4
<1> QED BY <1>7

\* At most one interval ends with each tick, and then the ticker ticks.
LEMMA Ticks ==
  ASSUME NEW t \in Nat
  PROVE  /\ t \div Interval \in Nat /\ (t + 1) \div Interval \in Nat
         /\ t \div Interval <= (t + 1) \div Interval
         /\ (t + 1) % Interval = 0 => t \div Interval + 1 <= (t + 1) \div Interval
OBVIOUS

LEMMA PacedStep ==
  TypeOK /\ TypeOK' /\ HandlesSent /\ PacedInv /\ [Next]_vars => PacedInv'
<1> SUFFICES ASSUME TypeOK, TypeOK', HandlesSent, PacedInv, [Next]_vars, NEW n \in (1 .. sent)'
             PROVE  sent' - n + due' <= 1 + now' \div Interval - SentAt(n)' \div Interval
  BY DEF PacedInv
<1>1. /\ now \in Nat /\ skew \in Int /\ due \in 0 .. 2 /\ sent \in Nat
      /\ stamp \in [Numbers -> Int] /\ n \in Numbers
  BY DEF TypeOK, Numbers
<1>2. SentAt(n) \in Int /\ SentAt(n) \div Interval \in Int /\ now \div Interval \in Int
  BY <1>1 DEF SentAt
<1>3. CASE Tick
  <2>1. /\ sent' = sent /\ stamp' = stamp /\ skew' = skew /\ now' = now + 1
        /\ due' = due \/ (now' % Interval = 0 /\ due' = due + 1)
    BY <1>3 DEF Tick, nodeVars
  <2>2. sent - n + due <= 1 + now \div Interval - SentAt(n) \div Interval
    BY <2>1 DEF PacedInv
  <2>3. SentAt(n)' = SentAt(n)
    BY <2>1 DEF SentAt
  <2>4. /\ (now + 1) \div Interval \in Int
        /\ \/ due' = due /\ now \div Interval <= (now + 1) \div Interval
           \/ due' = due + 1 /\ now \div Interval + 1 <= (now + 1) \div Interval
    <3>1. now \in Nat
      BY <1>1
    <3>2. /\ (now + 1) \div Interval \in Nat
          /\ now \div Interval <= (now + 1) \div Interval
          /\ (now + 1) % Interval = 0 => now \div Interval + 1 <= (now + 1) \div Interval
      BY <3>1, Ticks
    <3>3. due' = due \/ ((now + 1) % Interval = 0 /\ due' = due + 1)
      BY <2>1
    <3> QED BY <3>2, <3>3
  <2> DEFINE a == now \div Interval
             c == (now + 1) \div Interval
             d == SentAt(n) \div Interval
  <2>5. /\ a \in Int /\ c \in Int /\ d \in Int /\ sent - n + due <= 1 + a - d
        /\ \/ due' = due /\ a <= c
           \/ due' = due + 1 /\ a + 1 <= c
    BY <1>2, <2>2, <2>4
  <2> HIDE DEF a, c, d
  <2>6. sent - n + due' <= 1 + c - d
    <3>1. n \in Int
      BY <1>1 DEF Numbers
    <3> QED BY ONLY <1>1, <2>5, <3>1
  <2> QED BY <2>1, <2>3, <2>6 DEF c, d
<1>4. CASE Send
  <2>1. /\ sent' = sent + 1 /\ due' = due - 1 /\ now' = now /\ skew' = skew
        /\ sent' \in Numbers /\ stamp' = [stamp EXCEPT ![sent'] = now + skew]
    BY <1>1, <1>4 DEF Send, Numbers
  <2>2. CASE n = sent'
    <3>1. SentAt(n)' = now
      BY <1>1, <2>1, <2>2 DEF SentAt
    <3> QED BY <1>1, <1>2, <2>1, <2>2, <3>1
  <2>3. CASE n # sent'
    <3>1. SentAt(n)' = SentAt(n) /\ n \in 1 .. sent
      BY <1>1, <2>1, <2>3 DEF SentAt
    <3>2. sent - n + due <= 1 + now \div Interval - SentAt(n) \div Interval
      BY <3>1 DEF PacedInv
    <3> QED BY <1>1, <1>2, <2>1, <3>1, <3>2
  <2> QED BY <2>2, <2>3
<1>5. CASE UNCHANGED <<now, skew, due, sent, stamp>>
  BY <1>5 DEF PacedInv, SentAt
<1> QED
  BY <1>3, <1>4, <1>5 DEF Next, vars, nodeVars, Reinstall, Handle, Receive, GetNodeCredential, Unsigned,
     Claim, Refuse, UpdateReport, StoreError, SetNodeTokenHash, SetNodeRevoked, Restart

LEMMA ClaimedStep ==
  TypeOK /\ TypeOK' /\ CountsInv /\ ClaimedInv /\ [Next]_vars => ClaimedInv'
<1> SUFFICES ASSUME TypeOK, TypeOK', CountsInv, ClaimedInv, [Next]_vars, NEW n \in Numbers,
                    expires'[n] # 0
             PROVE  n \in 1 .. sent' /\ expires'[n] <= Latest(n)' + Keep
  BY DEF ClaimedInv
<1> USE DEF CountsInv
<1>1. ~Restart
  BY DEF Restart
<1>2. CASE expires'[n] = expires[n]
  <2>1. n \in 1 .. sent /\ expires[n] <= Latest(n) + Keep
    BY <1>2 DEF ClaimedInv
  <2>2. stamp'[n] = stamp[n] /\ sent <= sent' /\ sent \in Nat /\ sent' \in Nat
    BY <1>1, <2>1, RunningFrame DEF TypeOK
  <2> QED BY <1>2, <2>1, <2>2 DEF Latest
<1>3. ASSUME NEW h \in Handlers, Claim(h), n = report[h]
      PROVE  n \in 1 .. sent' /\ expires'[n] <= Latest(n)' + Keep
  <2>1. n \in 1 .. sent /\ UNCHANGED <<now, sent, stamp>> /\ expires'[n] = now + Keep
    BY <1>3, PurgedType DEF Claim, nodeVars, HandlesSent
  <2>2. /\ now <= began[h] + Delay /\ began[h] <= stamp[n] + Window
        /\ now \in Nat /\ began[h] \in Nat /\ stamp[n] \in Int
    BY <1>3 DEF InTime, Claim, TypeOK
  <2>3. now + Keep <= stamp[n] + Window + Delay + Keep
    BY <2>2
  <2> QED BY <2>1, <2>3 DEF Latest
<1>4. expires'[n] = expires[n] \/ \E h \in Handlers : Claim(h) /\ n = report[h]
  <2>1. Purged[n] \in {expires[n], 0}
    BY PurgedType
  <2>2. ASSUME NEW h \in Handlers, Claim(h), n # report[h] PROVE expires'[n] = expires[n]
    BY <2>1, <2>2, PurgedType DEF Claim
  <2>3. ASSUME NEW h \in Handlers, Refuse(h) PROVE expires'[n] = expires[n]
    BY <2>1, <2>3 DEF Refuse
  <2> QED
    BY <1>1, <2>2, <2>3 DEF Next, vars, Tick, Send, Reinstall, Handle, Receive, GetNodeCredential,
       Unsigned, UpdateReport, StoreError, SetNodeTokenHash, SetNodeRevoked
<1> QED BY <1>2, <1>3, <1>4

\* The reports from one to the last are not more than there is room for, if that one was
\* sent so recently that its nonce may be kept.
LEMMA RoomSince ==
  ASSUME TypeOK, PacedInv, NEW n \in 1 .. sent,
         now < SentAt(n) + (Keep + Window + Delay + skew)
  PROVE  Cardinality(n .. sent) <= Capacity /\ IsFiniteSet(n .. sent)
<1> DEFINE a == now \div Interval
           d == SentAt(n) \div Interval
           kept == Keep + Window + Delay + skew
<1>1. /\ now \in Nat /\ SentAt(n) \in Int /\ sent \in Nat /\ due \in Nat /\ n \in Nat /\ n <= sent
      /\ skew \in Skews /\ skew \in Int
  BY DEF TypeOK, SentAt, Numbers
<1>2. Cardinality(n .. sent) = sent - n + 1 /\ IsFiniteSet(n .. sent)
  <2>1. n \in Int /\ sent \in Int /\ ~(n > sent)
    BY <1>1
  <2>2. /\ IsFiniteSet(n .. sent)
        /\ Cardinality(n .. sent) = IF n > sent THEN 0 ELSE sent - n + 1
    BY <2>1, FS_Interval
  <2> QED BY <2>1, <2>2
<1>3. kept <= Interval * (Capacity - 2) + 1 /\ kept \in Int
  BY <1>1, CapacityAssumption
<1>4. /\ a \in Int /\ Interval * a <= now
      /\ d \in Int /\ SentAt(n) < Interval * (d + 1)
  BY <1>1
<1>5. sent - n + due <= 1 + a - d
  BY DEF PacedInv
<1>6. now < SentAt(n) + kept
  OBVIOUS
<1> HIDE DEF a, d, kept
\* Otherwise the ticks between would take longer.
<1>7. ASSUME sent - n + 1 > Capacity PROVE FALSE
  <2>1. a - d >= Capacity - 1
    BY <1>1, <1>4, <1>5, <1>7
  <2>2. Interval * (a - d) >= Interval * (Capacity - 1)
    BY <1>4, <2>1
  <2>3. /\ Interval * (a - d) = Interval * a - Interval * d
        /\ Interval * (Capacity - 1) = Interval * (Capacity - 2) + Interval
        /\ Interval * (d + 1) = Interval * d + Interval
    BY <1>4
  <2>4. /\ Interval * a \in Int /\ Interval * d \in Int /\ Interval * (Capacity - 2) \in Int
        /\ Interval \in Nat
    BY <1>4
  <2> QED BY <1>1, <1>3, <1>4, <1>6, <2>2, <2>3, <2>4
<1> QED BY <1>1, <1>2, <1>7

\* A report that is refused is in the cache, which has room for it otherwise.
LEMMA RefusedIsCached ==
  ASSUME TypeOK, CountsInv, PacedInv, ClaimedInv, NEW h \in Handlers, Refuse(h)
  PROVE  report[h] \in Cached
<1> SUFFICES ASSUME report[h] \notin Cached PROVE FALSE
  OBVIOUS
<1> DEFINE m == report[h]
           S == Cached \cup {m}
<1> USE DEF CountsInv
<1>1. /\ pc[h] = "claim" /\ ~Claimable(m) /\ m \in 1 .. sent
  BY DEF Refuse, HandlesSent
<1>2. /\ now \in Nat /\ sent \in Nat /\ skew \in Skews /\ skew \in Int
      /\ \A n \in 1 .. sent : n \in Numbers /\ stamp[n] \in Int
  BY DEF TypeOK, Numbers
\* All these reports were sent while nonces are kept.
<1>3. ASSUME NEW n \in S
      PROVE  n \in 1 .. sent /\ now < SentAt(n) + (Keep + Window + Delay + skew)
  <2>1. CASE n \in Cached
    <3>1. n \in Numbers /\ now < expires[n] /\ expires[n] # 0
      BY <1>2, <2>1, PurgedType DEF Cached
    <3>2. n \in 1 .. sent /\ expires[n] <= stamp[n] + Window + Delay + Keep
      BY <3>1 DEF ClaimedInv, Latest
    <3>3. expires[n] \in Nat /\ stamp[n] \in Int
      BY <1>2, <3>1, <3>2 DEF TypeOK
    <3> QED BY <1>2, <3>1, <3>2, <3>3 DEF SentAt
  <2>2. CASE n = m
    <3>1. /\ now <= began[h] + Delay /\ began[h] <= stamp[m] + Window /\ began[h] \in Nat
          /\ stamp[m] \in Int /\ stamp[m] - skew <= now
      BY <1>1, <1>2 DEF InTime, SentBefore, TypeOK
    <3>2. skew + Delay < Keep - Window
      BY <1>2, ClocksAssumption
    <3>3. now <= stamp[m] + Window + Delay
      BY <1>2, <3>1
    <3>4. Keep > 0
      BY <1>2, <3>1, <3>2, <3>3
    <3> HIDE DEF m
    <3>5. now < (stamp[m] - skew) + (Keep + Window + Delay + skew)
      BY <1>2, <3>1, <3>3, <3>4
    <3> QED BY <1>1, <2>2, <3>5 DEF SentAt
  <2> QED BY <2>1, <2>2
<1>4. S \in SUBSET (1 .. sent) /\ S # {}
  BY <1>3
<1> HIDE DEF S
<1>5. PICK i \in S : \A n \in S : i <= n
  BY <1>2, <1>4, FirstOf
<1>6. Cardinality(i .. sent) <= Capacity /\ IsFiniteSet(i .. sent)
  BY <1>3, RoomSince
<1>7. S \subseteq i .. sent
  BY <1>2, <1>4, <1>5
<1>8. Cardinality(S) <= Cardinality(i .. sent) /\ IsFiniteSet(S)
  BY <1>6, <1>7, FS_Subset
<1>9. IsFiniteSet(Cached) /\ Cardinality(S) = Cardinality(Cached) + 1
  <2>1. Cached \subseteq S /\ S = Cached \cup {m} /\ m \notin Cached
    BY DEF S
  <2> HIDE DEF m
  <2>2. IsFiniteSet(Cached)
    BY <1>8, <2>1, FS_Subset
  <2> QED BY <2>1, <2>2, FS_AddElement
<1>10. Cardinality(Cached) < Capacity
  <2>1. Cardinality(Cached) \in Nat /\ Cardinality(i .. sent) \in Nat
    BY <1>6, <1>9, FS_CardinalityType
  <2> QED BY <1>6, <1>8, <1>9, <2>1
<1> QED BY <1>1, <1>10 DEF Claimable

\* OnlyReplaysAreRefused: for any number of handlers and reports and any clocks, windows,
\* interval and capacity the assumptions allow, and whatever the network does with requests.
THEOREM RefusalsCorrect == Spec => OnlyReplaysAreRefused
<1>1. Init => PacedInv /\ ClaimedInv
  BY DEF Init, PacedInv, ClaimedInv
<1>2. TypeOK /\ CountsInv /\ PacedInv /\ ClaimedInv /\ [Next]_vars
      => TypeOK' /\ CountsInv' /\ PacedInv' /\ ClaimedInv'
  BY TypeStep, CountsStep, PacedStep, ClaimedStep DEF CountsInv
<1>3. TypeOK /\ CountsInv /\ PacedInv /\ ClaimedInv
      => [\A h \in Handlers : Refuse(h) => report[h] \in Cached]_vars
  BY RefusedIsCached
<1> QED BY <1>1, <1>2, <1>3, TypeInit, CountsInit, PTL DEF Spec, OnlyReplaysAreRefused

HIDE ConstantsAssumption DEF ConstantsAssumption

-----------------------------------------------------------------------------
(* Where samples are kept.                                                 *)

USE MetricsAssumption DEF MetricsAssumption

-----------------------------------------------------------------------------
(* Lemmas about the operators.                                             *)

\* The tiers are there, and the last is one of them.
LEMMA TierTypes ==
  /\ Last \in Nat \ {0} /\ DOMAIN Tiers = 1 .. Last
  /\ 1 \in DOMAIN Tiers /\ Last \in DOMAIN Tiers
  /\ \A k \in DOMAIN Tiers : Tiers[k].seconds \in Nat \ {0} /\ Tiers[k].retention \in Nat
<1> DEFINE Tier == [seconds : Nat \ {0}, retention : Nat]
<1>1. Tiers \in Seq(Tier) /\ Tiers # <<>>
  OBVIOUS
<1> HIDE DEF Tier
<1>2. Len(Tiers) \in Nat /\ DOMAIN Tiers = 1 .. Len(Tiers)
      /\ \A k \in 1 .. Len(Tiers) : Tiers[k] \in Tier
  BY <1>1, LenProperties
<1>3. Len(Tiers) # 0
  BY <1>1, EmptySeq
<1> QED BY <1>2, <1>3 DEF Last, Tier

\* A bucket begins no later than what it counts, and later ones begin no earlier.
LEMMA BucketStarts ==
  ASSUME NEW k \in DOMAIN Tiers, NEW a \in Int, NEW c \in Int, a <= c
  PROVE  /\ BucketStart(a, k) \in Int /\ BucketStart(a, k) <= a
         /\ BucketStart(a, k) <= BucketStart(c, k)
         /\ a >= 0 => BucketStart(a, k) >= 0
<1> DEFINE s == Tiers[k].seconds
<1>1. s \in Nat \ {0}
  BY TierTypes
<1> HIDE DEF s
<1>2. a \div s \in Int /\ c \div s \in Int /\ a \div s <= c \div s
  BY <1>1
<1>3. (a \div s) * s \in Int /\ (a \div s) * s <= a
  BY <1>1
<1>4. (a \div s) * s <= (c \div s) * s
  BY <1>1, <1>2
<1>5. a >= 0 => a \div s >= 0
  BY <1>1
<1>6. a >= 0 => (a \div s) * s >= 0
  BY <1>1, <1>2, <1>5
<1> QED BY <1>3, <1>4, <1>6 DEF BucketStart, s

LEMMA BucketOf ==
  ASSUME NEW k \in DOMAIN Tiers, NEW t \in Instants
  PROVE  BucketStart(t, k) \in Instants
<1>1. t \in Int /\ t >= 0 /\ t <= MaxInstant
  BY DEF Instants
<1>2. /\ BucketStart(t, k) \in Int /\ BucketStart(t, k) <= t
      /\ t >= 0 => BucketStart(t, k) >= 0
  BY <1>1, BucketStarts
<1> QED BY <1>1, <1>2 DEF Instants

\* The tier of a query suits it, or is the last.
LEMMA Resolution ==
  ASSUME NEW duration \in Int, NEW limit \in Limits
  PROVE  /\ MetricResolutionFor(duration, limit) \in DOMAIN Tiers
         /\ \/ MetricResolutionFor(duration, limit) = Last
            \/ Suits(MetricResolutionFor(duration, limit), duration, limit)
<1> DEFINE suits == {k \in DOMAIN Tiers : Suits(k, duration, limit)}
<1>1. suits \subseteq 1 .. Last /\ Last \in DOMAIN Tiers
  BY TierTypes
<1>2. \E k \in suits \cup {Last} : \A j \in suits : k <= j
  <2>1. CASE suits = {}
    BY <2>1
  <2>2. CASE suits # {}
    BY <1>1, <2>2, FirstOf, TierTypes
  <2> QED BY <2>1, <2>2
<1>3. MetricResolutionFor(duration, limit) \in suits \cup {Last}
  BY <1>2 DEF MetricResolutionFor
<1> QED BY <1>1, <1>3

-----------------------------------------------------------------------------
(* Counting samples in sequences.                                          *)

\* The samples of a sequence that a bucket is to count, and how many they are.
InBucket(times, k, b) == {i \in DOMAIN times : BucketStart(times[i], k) = b}
Counting(times, k, b) == Cardinality(InBucket(times, k, b))

LEMMA CountingType ==
  ASSUME NEW times \in Seq(Instants), NEW k, NEW b
  PROVE  IsFiniteSet(InBucket(times, k, b)) /\ Counting(times, k, b) \in Nat
<1>1. Len(times) \in Nat /\ DOMAIN times = 1 .. Len(times)
  BY LenProperties
<1>2. IsFiniteSet(DOMAIN times)
  BY <1>1, FS_Interval
<1>3. InBucket(times, k, b) \subseteq DOMAIN times
  BY DEF InBucket
<1> QED BY <1>2, <1>3, FS_Subset, FS_CardinalityType DEF Counting

LEMMA CountingNone == \A k, b : Counting(<<>>, k, b) = 0
<1>1. \A k, b : InBucket(<<>>, k, b) = {}
  BY EmptySeq DEF InBucket
<1> QED BY <1>1, FS_EmptySet DEF Counting

LEMMA CountingOne ==
  ASSUME NEW t \in Instants, NEW k, NEW b
  PROVE  Counting(<<t>>, k, b) = IF BucketStart(t, k) = b THEN 1 ELSE 0
<1>1. DOMAIN <<t>> = {1} /\ <<t>>[1] = t
  OBVIOUS
<1>2. InBucket(<<t>>, k, b) = IF BucketStart(t, k) = b THEN {1} ELSE {}
  BY <1>1 DEF InBucket
<1> QED BY <1>2, FS_EmptySet, FS_Singleton DEF Counting

\* A sequence counts what a batch from its beginning counts, and the rest.
LEMMA CountingSplit ==
  ASSUME NEW times \in Seq(Instants), NEW n \in 0 .. Len(times), NEW k, NEW b
  PROVE  /\ SubSeq(times, 1, n) \in Seq(Instants)
         /\ SubSeq(times, n + 1, Len(times)) \in Seq(Instants)
         /\ Counting(times, k, b) =
              Counting(SubSeq(times, 1, n), k, b) + Counting(SubSeq(times, n + 1, Len(times)), k, b)
<1> DEFINE batch == SubSeq(times, 1, n)
           rest  == SubSeq(times, n + 1, Len(times))
           later == {i \in InBucket(times, k, b) : i > n}
<1>1. /\ Len(times) \in Nat /\ DOMAIN times = 1 .. Len(times) /\ n \in Nat
      /\ \A i \in 1 .. Len(times) : times[i] \in Instants
  BY LenProperties
<1>2. /\ batch \in Seq(Instants) /\ Len(batch) = n
      /\ \A i \in 1 .. n : batch[i] = times[i]
  <2>1. \A i \in 1 .. n : times[i] \in Instants
    BY <1>1
  <2>2. /\ batch \in Seq(Instants) /\ Len(batch) = IF 1 <= n THEN n - 1 + 1 ELSE 0
        /\ \A i \in 1 .. n - 1 + 1 : batch[i] = times[1 + i - 1]
    BY <1>1, <2>1, SubSeqProperties
  <2> QED BY <1>1, <2>2
<1>3. /\ rest \in Seq(Instants) /\ Len(rest) = Len(times) - n
      /\ \A i \in 1 .. Len(times) - n : rest[i] = times[n + i]
  <2>1. \A i \in n + 1 .. Len(times) : times[i] \in Instants
    BY <1>1
  <2>2. /\ rest \in Seq(Instants)
        /\ Len(rest) = IF n + 1 <= Len(times) THEN Len(times) - (n + 1) + 1 ELSE 0
        /\ \A i \in 1 .. Len(times) - (n + 1) + 1 : rest[i] = times[(n + 1) + i - 1]
    BY <1>1, <2>1, SubSeqProperties
  <2> HIDE DEF rest
  <2>3. Len(rest) = Len(times) - n
    <3>1. Len(rest) = IF n + 1 <= Len(times) THEN Len(times) - (n + 1) + 1 ELSE 0
      BY <2>2
    <3>2. n \in Nat /\ Len(times) \in Nat /\ n <= Len(times)
      BY <1>1
    <3> QED BY ONLY <3>1, <3>2
  <2>4. Len(times) - (n + 1) + 1 = Len(times) - n /\ \A i \in Int : (n + 1) + i - 1 = n + i
    BY <1>1
  <2> QED BY <2>2, <2>3, <2>4
<1>4. DOMAIN batch = 1 .. n /\ DOMAIN rest = 1 .. Len(times) - n
  BY <1>2, <1>3, LenProperties
<1> HIDE DEF batch, rest
<1>5. /\ InBucket(times, k, b) = InBucket(batch, k, b) \cup later
      /\ InBucket(batch, k, b) \cap later = {}
  BY <1>1, <1>2, <1>4 DEF InBucket
<1>6. Cardinality(later) = Counting(rest, k, b) /\ IsFiniteSet(later)
  <2> DEFINE shift == [i \in InBucket(rest, k, b) |-> n + i]
  <2>1. shift \in [InBucket(rest, k, b) -> later]
    BY <1>1, <1>3, <1>4 DEF InBucket
  <2>2. \A i, j \in InBucket(rest, k, b) : shift[i] = shift[j] => i = j
    BY <1>1, <1>4 DEF InBucket
  <2>3. \A j \in later : \E i \in InBucket(rest, k, b) : shift[i] = j
    <3>1. ASSUME NEW j \in later PROVE \E i \in InBucket(rest, k, b) : shift[i] = j
      <4>1. j \in 1 .. Len(times) /\ j > n /\ BucketStart(times[j], k) = b
        BY <1>1 DEF InBucket
      <4>2. j - n \in 1 .. Len(times) - n /\ n + (j - n) = j
        BY <1>1, <4>1
      <4>3. j - n \in InBucket(rest, k, b)
        BY <1>3, <1>4, <4>1, <4>2 DEF InBucket
      <4> QED BY <4>2, <4>3
    <3> QED BY <3>1
  <2>4. ExistsBijection(InBucket(rest, k, b), later)
    BY <2>1, <2>2, <2>3, Fun_IsBij DEF ExistsBijection
  <2> QED BY <1>3, <2>4, CountingType, FS_Bijection DEF Counting
<1>7. IsFiniteSet(InBucket(batch, k, b)) /\ Counting(batch, k, b) \in Nat
  BY <1>2, CountingType
<1>8. Counting(times, k, b) = Counting(batch, k, b) + Counting(rest, k, b)
  <2>1. Cardinality(InBucket(times, k, b)) =
          Cardinality(InBucket(batch, k, b)) + Cardinality(later) - Cardinality({})
    BY <1>5, <1>6, <1>7, FS_Union
  <2> QED BY <1>3, <1>6, <1>7, <2>1, CountingType, FS_EmptySet DEF Counting
<1> QED BY <1>2, <1>3, <1>8 DEF batch, rest

-----------------------------------------------------------------------------
(* Types.                                                                  *)

Counts == [DOMAIN Tiers -> [Instants -> Nat]]
Queries == [step : {"none", "choose", "read"}, since : Int, tier : DOMAIN Tiers, chosen : Instants]

LEMMA InstantTypes == Instants \subseteq Nat /\ 0 \in Instants /\ OpenedAt \in Instants
BY DEF Instants

LEMMA QueryType ==
  ASSUME NEW step \in {"none", "choose", "read"}, NEW since \in Int, NEW tier \in DOMAIN Tiers,
         NEW chosen \in Instants
  PROVE  Query(step, since, tier, chosen) \in Queries
BY DEF Query, Queries

LEMMA NoQueryType == NoQuery \in Queries /\ NoQuery.step = "none"
<1>1. NoQuery \in Queries
  <2>1. 0 \in Instants /\ 1 \in DOMAIN Tiers
    BY InstantTypes, TierTypes
  <2>2. Query("none", 0, 1, 0) \in Queries
    BY ONLY <2>1 DEF Query, Queries
  <2> QED BY <2>2 DEF NoQuery
<1>2. NoQuery.step = "none"
  BY DEF NoQuery, Query
<1> QED BY <1>1, <1>2

\* The buckets count the samples of a sequence besides those they counted.
LEMMA UpsertEffect ==
  ASSUME bucket \in Counts, NEW times \in Seq(Instants), UpsertMetricBuckets(times)
  PROVE  /\ bucket' \in Counts
         /\ \A k \in DOMAIN Tiers, b \in Instants :
              bucket'[k][b] = bucket[k][b] + Counting(times, k, b)
<1>1. \A k \in DOMAIN Tiers, b \in Instants :
        bucket[k][b] + Counting(times, k, b) \in Nat
  BY CountingType DEF Counts
<1>2. bucket' = [k \in DOMAIN Tiers |-> [b \in Instants |-> bucket[k][b] + Counting(times, k, b)]]
  BY DEF UpsertMetricBuckets, Counting, InBucket
<1> QED BY <1>1, <1>2 DEF Counts

\* A batch is what is there, at most BatchSize of it.
LEMMA BatchType == legacy \in Seq(Instants) => Batch \in 0 .. Len(legacy)
<1> SUFFICES ASSUME legacy \in Seq(Instants) PROVE Batch \in 0 .. Len(legacy)
  OBVIOUS
<1>1. Len(legacy) \in Nat
  BY LenProperties
<1> QED BY <1>1 DEF Batch

\* The legacy rows of a new database.
LEMMA LegacyInit ==
  MetricsInit => legacy \in Seq(Instants)
<1> SUFFICES ASSUME MetricsInit PROVE legacy \in Seq(Instants)
  OBVIOUS
<1>1. PICK n \in 0 .. MaxLegacy : legacy \in [1 .. n -> 0 .. OpenedAt]
  BY DEF MetricsInit
<1>2. legacy \in [1 .. n -> Instants] /\ n \in Nat
  BY <1>1 DEF Instants
<1> QED BY <1>2, IsASeq

\* The type invariant in parts.
RowsOK ==
  /\ legacy \in Seq(Instants) /\ bucket \in Counts /\ recorded \subseteq Instants \X Nat
  /\ IsFiniteSet(recorded)
ServedOK ==
  /\ instant \in Instants /\ arriving \in Instants \cup {-1} /\ query \in [Readers -> Queries]
OpenOK == open \in BOOLEAN
BoundsOK == samples \in 0 .. MaxSamples /\ starts \in 0 .. MaxStarts

LEMMA TypeParts ==
  /\ RowsOK /\ ServedOK /\ BoundsOK /\ OpenOK => MetricsTypeOK
  /\ MetricsTypeOK /\ IsFiniteSet(recorded) => RowsOK /\ ServedOK /\ BoundsOK /\ OpenOK
BY DEF MetricsTypeOK, OpenOK, RowsOK, ServedOK, BoundsOK, Counts, Queries

LEMMA BoundsStep == BoundsOK /\ [MetricsNext]_metricsVars => BoundsOK'
<1> SUFFICES ASSUME BoundsOK, [MetricsNext]_metricsVars PROVE BoundsOK'
  OBVIOUS
<1> USE DEF MetricsNext, metricsVars, CompactLegacyMetrics, Open, Reopen, ReportArrives,
        RecordReport, PruneMetrics, AskMetrics, ChooseTier, ReadBuckets, InstantPasses
<1>1. samples' = samples \/ (samples < MaxSamples /\ samples' = samples + 1)
  OBVIOUS
<1>2. starts' = starts \/ (starts < MaxStarts /\ starts' = starts + 1)
  OBVIOUS
<1> QED BY ONLY <1>1, <1>2, BoundsOK, MetricsAssumption DEF BoundsOK, MetricsAssumption

LEMMA ServedStep == ServedOK /\ [MetricsNext]_metricsVars => ServedOK'
<1> SUFFICES ASSUME ServedOK, [MetricsNext]_metricsVars PROVE ServedOK'
  OBVIOUS
<1>1. CASE CompactLegacyMetrics \/ Open \/ PruneMetrics \/ UNCHANGED metricsVars
  BY <1>1 DEF CompactLegacyMetrics, Open, PruneMetrics, metricsVars, ServedOK
<1>2. CASE Reopen
  BY <1>2, NoQueryType DEF Reopen, ServedOK
<1>3. CASE ReportArrives \/ RecordReport
  BY <1>3 DEF ReportArrives, RecordReport, ServedOK
<1>4. ASSUME NEW r \in Readers, NEW range \in Ranges, AskMetrics(r, range) PROVE ServedOK'
  <2>1. instant - range \in Int
    BY InstantTypes DEF ServedOK
  <2>2. Query("choose", instant - range, 1, 0) \in Queries
    BY <2>1, InstantTypes, TierTypes, QueryType
  <2> QED BY <1>4, <2>2 DEF AskMetrics, ServedOK
<1>5. ASSUME NEW r \in Readers, NEW limit \in Limits, ChooseTier(r, limit) PROVE ServedOK'
  <2> DEFINE since == query[r].since
  <2>1. since \in Int /\ instant - since \in Int
    BY InstantTypes DEF ServedOK, Queries
  <2>2. MetricResolutionFor(instant - since, limit) \in DOMAIN Tiers
    BY <2>1, Resolution
  <2>3. Query("read", since, MetricResolutionFor(instant - since, limit), instant) \in Queries
    BY <2>1, <2>2, QueryType DEF ServedOK
  <2> QED BY <1>5, <2>3 DEF ChooseTier, ServedOK
<1>6. ASSUME NEW r \in Readers, ReadBuckets(r) PROVE ServedOK'
  BY <1>6, NoQueryType DEF ReadBuckets, ServedOK
<1>7. CASE InstantPasses
  <2>1. instant' \in Instants
    BY <1>7 DEF InstantPasses, ServedOK, Instants
  <2> QED BY <1>7, <2>1 DEF InstantPasses, ServedOK
<1> QED BY <1>1, <1>2, <1>3, <1>4, <1>5, <1>6, <1>7 DEF MetricsNext

\* A report that is stored is a new sample.
LEMMA StoreEffect ==
  ASSUME RowsOK, ServedOK, RecordReport, bucket' # bucket \/ recorded' # recorded
  PROVE  /\ arriving \in Instants /\ <<arriving>> \in Seq(Instants)
         /\ UpsertMetricBuckets(<<arriving>>)
         /\ recorded' = recorded \cup {<<arriving, Cardinality(recorded) + 1>>}
BY DEF RecordReport, ServedOK

LEMMA RowsStep == RowsOK /\ ServedOK /\ [MetricsNext]_metricsVars => RowsOK'
<1> SUFFICES ASSUME RowsOK, ServedOK, [MetricsNext]_metricsVars PROVE RowsOK'
  OBVIOUS
<1>1. CASE CompactLegacyMetrics
  <2>1. /\ SubSeq(legacy, 1, Batch) \in Seq(Instants)
        /\ SubSeq(legacy, Batch + 1, Len(legacy)) \in Seq(Instants)
    BY BatchType, CountingSplit DEF RowsOK
  <2>2. bucket' \in Counts
    BY <1>1, <2>1, UpsertEffect DEF CompactLegacyMetrics, RowsOK
  <2> QED BY <1>1, <2>1, <2>2 DEF CompactLegacyMetrics, RowsOK
<1>2. CASE RecordReport /\ (bucket' # bucket \/ recorded' # recorded)
  <2>1. /\ arriving \in Instants /\ <<arriving>> \in Seq(Instants)
        /\ UpsertMetricBuckets(<<arriving>>)
        /\ recorded' = recorded \cup {<<arriving, Cardinality(recorded) + 1>>}
    BY <1>2, StoreEffect
  <2>2. bucket' \in Counts
    BY <2>1, UpsertEffect DEF RowsOK
  <2>3. Cardinality(recorded) + 1 \in Nat
    BY FS_CardinalityType DEF RowsOK
  <2>4. recorded' \subseteq Instants \X Nat /\ IsFiniteSet(recorded')
    <3>1. <<arriving, Cardinality(recorded) + 1>> \in Instants \X Nat
      BY <2>1, <2>3
    <3>2. recorded \subseteq Instants \X Nat /\ IsFiniteSet(recorded)
      BY DEF RowsOK
    <3> HIDE DEF RowsOK
    <3> QED BY <2>1, <3>1, <3>2, FS_AddElement
  <2> QED BY <1>2, <2>2, <2>4 DEF RecordReport, RowsOK
<1>3. CASE PruneMetrics
  <2>1. bucket' \in Counts
    BY <1>3 DEF PruneMetrics, RowsOK, Counts
  <2> QED BY <1>3, <2>1 DEF PruneMetrics, RowsOK
<1>4. CASE UNCHANGED <<legacy, bucket, recorded>>
  BY <1>4 DEF RowsOK
<1> QED BY <1>1, <1>2, <1>3, <1>4
        DEF MetricsNext, metricsVars, Open, Reopen, ReportArrives, RecordReport, AskMetrics,
            ChooseTier, ReadBuckets, InstantPasses

\* The samples that were in the database when it was first opened.
LEMMA RecordedInit ==
  MetricsInit =>
    /\ recorded \subseteq Instants \X Nat /\ IsFiniteSet(recorded)
    /\ \A x \in recorded : x[2] <= Cardinality(recorded)
    /\ \A k, b : Counting(legacy, k, b) = Samples(k, b)
<1> SUFFICES ASSUME MetricsInit
             PROVE  /\ recorded \subseteq Instants \X Nat /\ IsFiniteSet(recorded)
                    /\ \A x \in recorded : x[2] <= Cardinality(recorded)
                    /\ \A k, b : Counting(legacy, k, b) = Samples(k, b)
  OBVIOUS
<1>1. /\ legacy \in Seq(Instants) /\ recorded = {<<legacy[i], i>> : i \in DOMAIN legacy}
  BY LegacyInit DEF MetricsInit
<1>2. /\ Len(legacy) \in Nat /\ DOMAIN legacy = 1 .. Len(legacy)
      /\ \A i \in DOMAIN legacy : legacy[i] \in Instants
  BY <1>1, LenProperties
<1>3. IsFiniteSet(DOMAIN legacy) /\ Cardinality(DOMAIN legacy) = Len(legacy)
  <2>1. IsFiniteSet(1 .. Len(legacy))
    BY <1>2, FS_Interval
  <2>2. Cardinality(1 .. Len(legacy)) = Len(legacy)
    BY <1>2, Fun_ExistsBijReflexive, FS_CountingElements
  <2> QED BY <1>2, <2>1, <2>2
<1>4. IsFiniteSet(recorded) /\ Cardinality(recorded) = Len(legacy)
  <2> DEFINE f == [i \in DOMAIN legacy |-> <<legacy[i], i>>]
  <2>1. /\ f \in [DOMAIN legacy -> recorded]
        /\ \A i, j \in DOMAIN legacy : f[i] = f[j] => i = j
        /\ \A x \in recorded : \E i \in DOMAIN legacy : f[i] = x
    BY <1>1
  <2>2. ExistsBijection(DOMAIN legacy, recorded)
    BY <2>1, Fun_IsBij DEF ExistsBijection
  <2> QED BY <1>3, <2>2, FS_Bijection
<1>5. ASSUME NEW k, NEW b PROVE Counting(legacy, k, b) = Samples(k, b)
  <2> DEFINE S == InBucket(legacy, k, b)
             T == {x \in recorded : BucketStart(x[1], k) = b}
             f == [i \in S |-> <<legacy[i], i>>]
  <2>1. /\ f \in [S -> T]
        /\ \A i, j \in S : f[i] = f[j] => i = j
        /\ \A x \in T : \E i \in S : f[i] = x
    BY <1>1 DEF InBucket
  <2>2. ExistsBijection(S, T)
    BY <2>1, Fun_IsBij DEF ExistsBijection
  <2>3. IsFiniteSet(S)
    BY <1>1, CountingType
  <2> QED BY <2>2, <2>3, FS_Bijection DEF Counting, Samples
<1>6. recorded \subseteq Instants \X Nat /\ \A x \in recorded : x[2] <= Len(legacy)
  BY <1>1, <1>2
<1> QED BY <1>4, <1>5, <1>6

LEMMA MetricsTypeInit == MetricsInit => RowsOK /\ ServedOK /\ BoundsOK /\ OpenOK
<1> SUFFICES ASSUME MetricsInit PROVE RowsOK /\ ServedOK /\ BoundsOK /\ OpenOK
  OBVIOUS
<1>1. RowsOK
  BY LegacyInit, RecordedInit DEF MetricsInit, RowsOK, Counts
<1>2. ServedOK
  BY NoQueryType, InstantTypes DEF MetricsInit, ServedOK
<1>3. BoundsOK
  BY DEF MetricsInit, BoundsOK
<1>4. OpenOK
  BY DEF MetricsInit, OpenOK
<1> QED BY <1>1, <1>2, <1>3, <1>4

LEMMA OpenStep == OpenOK /\ [MetricsNext]_metricsVars => OpenOK'
BY DEF OpenOK, MetricsNext, metricsVars, CompactLegacyMetrics, Open, Reopen, ReportArrives, RecordReport,
       PruneMetrics, AskMetrics, ChooseTier, ReadBuckets, InstantPasses

\* MetricsTypeOK is an invariant: for any tiers, ranges, limits and batches, the rows
\* and the queries are well-formed; in particular a query always finds a tier.
THEOREM MetricsTypeCorrect == MetricsSpec => []MetricsTypeOK
BY MetricsTypeInit, BoundsStep, ServedStep, RowsStep, OpenStep, TypeParts, PTL DEF MetricsSpec

-----------------------------------------------------------------------------
(* Samples are counted once.  What the buckets count and what the legacy    *)
(* rows still have to bring are the samples that were committed, but for    *)
(* what was pruned; and what retention keeps never was.                     *)

Kept(t, k) == t >= instant - Tiers[k].retention /\ t >= instant - Retention
Total(k, b) == bucket[k][b] + Counting(legacy, k, b)

CountInv ==
  /\ \A x \in recorded : x[2] <= Cardinality(recorded)
  /\ open => legacy = <<>>
  /\ \A k \in DOMAIN Tiers, b \in Instants : Total(k, b) <= Samples(k, b)
  /\ \A k \in DOMAIN Tiers, t \in Instants :
       Kept(t, k) => Total(k, BucketStart(t, k)) = Samples(k, BucketStart(t, k))

LEMMA TotalTypes ==
  ASSUME RowsOK, NEW k \in DOMAIN Tiers, NEW b \in Instants
  PROVE  /\ bucket[k][b] \in Nat /\ Counting(legacy, k, b) \in Nat
         /\ Total(k, b) \in Nat /\ Samples(k, b) \in Nat
<1>1. bucket[k][b] \in Nat
  BY DEF RowsOK, Counts
<1>2. Counting(legacy, k, b) \in Nat
  BY CountingType DEF RowsOK
<1>3. Samples(k, b) \in Nat
  <2>1. {x \in recorded : BucketStart(x[1], k) = b} \subseteq recorded /\ IsFiniteSet(recorded)
    BY DEF RowsOK
  <2> QED BY <2>1, FS_Subset, FS_CardinalityType DEF Samples
<1> QED BY <1>1, <1>2, <1>3 DEF Total

LEMMA CountInit == MetricsInit => CountInv
<1> SUFFICES ASSUME MetricsInit PROVE CountInv
  OBVIOUS
<1>1. \A k \in DOMAIN Tiers, b \in Instants : Total(k, b) = Samples(k, b)
  <2>1. \A k \in DOMAIN Tiers, b \in Instants : bucket[k][b] = 0
    BY DEF MetricsInit
  <2>2. ASSUME NEW k \in DOMAIN Tiers, NEW b \in Instants PROVE Total(k, b) = Samples(k, b)
    <3>1. Counting(legacy, k, b) = Samples(k, b) /\ Counting(legacy, k, b) \in Nat
      BY RecordedInit, LegacyInit, CountingType
    <3> QED BY <2>1, <3>1 DEF Total
  <2> QED BY <2>2
<1>2. \A k \in DOMAIN Tiers, b \in Instants : Total(k, b) <= Samples(k, b)
  BY <1>1, MetricsTypeInit, TotalTypes
<1>3. ~open
  BY DEF MetricsInit
<1> QED BY <1>1, <1>2, <1>3, RecordedInit, BucketOf DEF CountInv

\* A step that neither moves a sample nor turns back the time.
\* What is not before a bound is not before an earlier one.
LEMMA EarlierBound ==
  ASSUME NEW t \in Int, NEW late \in Int, NEW early \in Int, NEW kept \in Int,
         late >= early, t >= late - kept
  PROVE  t >= early - kept
OBVIOUS

LEMMA CountFrame ==
  ASSUME RowsOK, CountInv, ServedOK, instant' \in Instants, instant' >= instant,
         recorded' = recorded, open' => legacy' = <<>>,
         \A k \in DOMAIN Tiers, b \in Instants : Total(k, b)' = Total(k, b)
  PROVE  CountInv'
<1>1. \A k, b : Samples(k, b)' = Samples(k, b)
  BY DEF Samples
<1>2. ASSUME NEW k \in DOMAIN Tiers, NEW t \in Instants, Kept(t, k)' PROVE Kept(t, k)
  <2>1. /\ t \in Int /\ instant \in Int /\ instant' \in Int /\ Tiers[k].retention \in Int
        /\ Retention \in Int
    BY TierTypes, InstantTypes DEF ServedOK
  <2>2. t >= instant' - Tiers[k].retention /\ t >= instant' - Retention
    BY <1>2 DEF Kept
  <2>3. \A kept \in Int : t >= instant' - kept => t >= instant - kept
    BY <2>1, EarlierBound
  <2> QED BY <2>1, <2>2, <2>3 DEF Kept
<1> QED BY <1>1, <1>2, BucketOf DEF CountInv

LEMMA CountStep == RowsOK /\ ServedOK /\ CountInv /\ [MetricsNext]_metricsVars => CountInv'
<1> SUFFICES ASSUME RowsOK, ServedOK, CountInv, [MetricsNext]_metricsVars PROVE CountInv'
  OBVIOUS
<1>a. instant \in Nat /\ instant' \in Instants /\ instant' \in Nat
  BY ServedStep, InstantTypes DEF ServedOK
<1>1. CASE CompactLegacyMetrics
  <2> DEFINE batch == SubSeq(legacy, 1, Batch)
             rest  == SubSeq(legacy, Batch + 1, Len(legacy))
  <2>1. legacy' = rest /\ UNCHANGED <<instant, open, recorded>> /\ ~open
    BY <1>1 DEF CompactLegacyMetrics
  <2>2. ASSUME NEW k \in DOMAIN Tiers, NEW b \in Instants PROVE Total(k, b)' = Total(k, b)
    <3>1. /\ batch \in Seq(Instants) /\ rest \in Seq(Instants)
          /\ Counting(legacy, k, b) = Counting(batch, k, b) + Counting(rest, k, b)
      BY BatchType, CountingSplit DEF RowsOK
    <3>2. bucket'[k][b] = bucket[k][b] + Counting(batch, k, b)
      BY <1>1, <3>1, UpsertEffect DEF CompactLegacyMetrics, RowsOK
    <3>3. /\ bucket[k][b] \in Nat /\ Counting(batch, k, b) \in Nat
          /\ Counting(rest, k, b) \in Nat
      BY <3>1, TotalTypes, CountingType
    <3>4. Counting(legacy, k, b)' = Counting(rest, k, b)
      BY <2>1 DEF Counting, InBucket
    <3> HIDE DEF batch, rest
    <3> QED BY <3>1, <3>2, <3>3, <3>4 DEF Total
  <2>3. instant' >= instant
    BY <1>a, <2>1
  <2> QED BY <1>a, <2>1, <2>2, <2>3, CountFrame
<1>2. CASE RecordReport /\ (bucket' # bucket \/ recorded' # recorded)
  <2> DEFINE new == <<arriving, Cardinality(recorded) + 1>>
  <2>1. /\ arriving \in Instants /\ <<arriving>> \in Seq(Instants)
        /\ UpsertMetricBuckets(<<arriving>>) /\ recorded' = recorded \cup {new}
    BY <1>2, StoreEffect
  <2>2. UNCHANGED <<instant, open, legacy>>
    BY <1>2 DEF RecordReport
  <2>3. IsFiniteSet(recorded) /\ Cardinality(recorded) \in Nat
    BY FS_CardinalityType DEF RowsOK
  <2>4. new \notin recorded /\ new[1] = arriving /\ new[2] = Cardinality(recorded) + 1
    BY <2>3 DEF CountInv
  <2>5. Cardinality(recorded') = Cardinality(recorded) + 1
    BY <2>1, <2>3, <2>4, FS_AddElement
  <2> HIDE DEF new
  <2>6. \A x \in recorded' : x[2] <= Cardinality(recorded')
    <3>1. ASSUME NEW x \in recorded PROVE x[2] <= Cardinality(recorded')
      <4>1. x[2] \in Nat /\ x[2] <= Cardinality(recorded)
        BY DEF RowsOK, CountInv
      <4> QED BY <2>3, <2>5, <4>1
    <3>2. new[2] <= Cardinality(recorded')
      BY <2>3, <2>4, <2>5
    <3> QED BY <2>1, <3>1, <3>2
  <2>7. ASSUME NEW k \in DOMAIN Tiers, NEW b \in Instants
        PROVE  \E c \in Nat : Total(k, b)' = Total(k, b) + c /\ Samples(k, b)' = Samples(k, b) + c
    <3> DEFINE S == {x \in recorded : BucketStart(x[1], k) = b}
               c == IF BucketStart(arriving, k) = b THEN 1 ELSE 0
    <3>1. bucket'[k][b] = bucket[k][b] + c
      <4>1. Counting(<<arriving>>, k, b) = c
        BY <2>1, CountingOne
      <4>2. bucket'[k][b] = bucket[k][b] + Counting(<<arriving>>, k, b)
        BY <2>1, UpsertEffect DEF RowsOK
      <4> HIDE DEF c
      <4> QED BY <4>1, <4>2
    <3>2. Counting(legacy, k, b)' = Counting(legacy, k, b)
      BY <2>2 DEF Counting, InBucket
    <3>3. IsFiniteSet(S) /\ new \notin S
      BY <2>3, <2>4, FS_Subset
    <3>4. {x \in recorded' : BucketStart(x[1], k) = b} =
            IF BucketStart(arriving, k) = b THEN S \cup {new} ELSE S
      BY <2>1, <2>4
    <3>5. Samples(k, b)' = Cardinality(IF BucketStart(arriving, k) = b THEN S \cup {new} ELSE S)
      BY <3>4 DEF Samples, BucketStart
    <3>6. Samples(k, b) = Cardinality(S)
      BY DEF Samples
    <3> HIDE DEF S
    <3>7. Samples(k, b)' = Samples(k, b) + c
      <4>1. CASE BucketStart(arriving, k) = b
        BY <3>3, <3>5, <3>6, <4>1, FS_AddElement
      <4>2. CASE BucketStart(arriving, k) # b
        <5>1. Samples(k, b)' = Cardinality(S)
          BY <3>5, <4>2
        <5> QED BY <3>6, <4>2, <5>1, TotalTypes
      <4> QED BY <4>1, <4>2
    <3>8. bucket[k][b] \in Nat /\ Counting(legacy, k, b) \in Nat /\ c \in Nat
      BY TotalTypes
    <3> HIDE DEF c
    <3> QED BY <3>1, <3>2, <3>7, <3>8 DEF Total
  <2>8. ASSUME NEW k \in DOMAIN Tiers, NEW b \in Instants
        PROVE  /\ Total(k, b)' <= Samples(k, b)'
               /\ Total(k, b) = Samples(k, b) => Total(k, b)' = Samples(k, b)'
    <3>1. Total(k, b) <= Samples(k, b) /\ Total(k, b) \in Nat /\ Samples(k, b) \in Nat
      BY TotalTypes DEF CountInv
    <3> QED BY <2>7, <3>1
  <2>9. \A k \in DOMAIN Tiers, t \in Instants : Kept(t, k)' => Kept(t, k)
    BY <2>2 DEF Kept
  <2>10. open' => legacy' = <<>>
    BY <2>2 DEF CountInv
  <2> QED BY <2>6, <2>8, <2>9, <2>10, BucketOf DEF CountInv
<1>3. CASE PruneMetrics
  <2>1. UNCHANGED <<instant, open, legacy, recorded>>
    BY <1>3 DEF PruneMetrics
  <2>2. \A k \in DOMAIN Tiers, b \in Instants :
          bucket'[k][b] = IF b < Cutoff(k) THEN 0 ELSE bucket[k][b]
    BY <1>3 DEF PruneMetrics
  <2>3. \A k, b : Samples(k, b)' = Samples(k, b) /\ Counting(legacy, k, b)' = Counting(legacy, k, b)
    BY <2>1 DEF Samples, Counting, InBucket
  <2>4. ASSUME NEW k \in DOMAIN Tiers, NEW b \in Instants PROVE Total(k, b)' <= Samples(k, b)'
    <3>1. /\ bucket[k][b] \in Nat /\ Counting(legacy, k, b) \in Nat /\ Samples(k, b) \in Nat
          /\ bucket[k][b] + Counting(legacy, k, b) <= Samples(k, b)
      BY TotalTypes DEF CountInv, Total
    <3>2. bucket'[k][b] = 0 \/ bucket'[k][b] = bucket[k][b]
      BY <2>2
    <3> QED BY <2>3, <3>1, <3>2 DEF Total
  <2>5. ASSUME NEW k \in DOMAIN Tiers, NEW t \in Instants, Kept(t, k)
        PROVE  Total(k, BucketStart(t, k))' = Total(k, BucketStart(t, k))
    <3> DEFINE b == BucketStart(t, k)
               edge == Later(instant - Tiers[k].retention, instant - Retention)
    <3>1. edge \in Int /\ edge <= t /\ t \in Int
      <4>1. Tiers[k].retention \in Nat /\ t \in Nat
        BY TierTypes, InstantTypes
      <4> QED BY <1>a, <2>5, <4>1 DEF Later, Kept
    <3> HIDE DEF edge
    <3>2. Cutoff(k) <= b /\ b \in Instants /\ Cutoff(k) \in Int
      BY <3>1, BucketStarts, BucketOf DEF Cutoff, edge
    <3>3. bucket'[k][b] = bucket[k][b]
      <4>1. ~(b < Cutoff(k))
        BY <3>2 DEF Instants
      <4> QED BY <2>2, <3>2, <4>1
    <3>4. Counting(legacy, k, b)' = Counting(legacy, k, b)
      BY <2>1 DEF Counting, InBucket, BucketStart
    <3> QED BY <3>3, <3>4 DEF Total, BucketStart
  <2>6. \A k \in DOMAIN Tiers, t \in Instants : Kept(t, k)' => Kept(t, k)
    BY <2>1 DEF Kept
  <2>7. open' => legacy' = <<>>
    BY <2>1 DEF CountInv
  <2>8. \A x \in recorded' : x[2] <= Cardinality(recorded')
    BY <2>1 DEF CountInv
  <2> QED BY <2>3, <2>4, <2>5, <2>6, <2>7, <2>8 DEF CountInv
<1>4. ASSUME UNCHANGED <<legacy, bucket, recorded>>, instant' >= instant, open' => open \/ legacy = <<>>
      PROVE  CountInv'
  <2>1. \A k, b : Total(k, b)' = Total(k, b)
    BY <1>4 DEF Total, Counting, InBucket
  <2>2. open' => legacy' = <<>>
    BY <1>4 DEF CountInv
  <2> QED BY <1>4, <1>a, <2>1, <2>2, CountFrame
<1>5. CASE InstantPasses
  BY <1>4, <1>5, <1>a DEF InstantPasses
<1>6. CASE UNCHANGED <<instant, legacy, bucket, recorded>> /\ (open' => open \/ legacy = <<>>)
  BY <1>4, <1>6, <1>a
<1> QED BY <1>1, <1>2, <1>3, <1>5, <1>6
        DEF MetricsNext, metricsVars, Open, Reopen, ReportArrives, RecordReport, AskMetrics,
            ChooseTier, ReadBuckets

\* CountedOnce is an invariant: for any tiers, retention and batches, and however many
\* legacy rows, reports, restarts and interrupted upgrades there are, no sample is
\* counted twice, and none that is to be kept is lost.
THEOREM CountedOnceCorrect == MetricsSpec => []CountedOnce
<1>1. RowsOK /\ ServedOK /\ CountInv => CountedOnce
  <2> SUFFICES ASSUME RowsOK, ServedOK, CountInv, open, NEW k \in DOMAIN Tiers, NEW t \in Instants
               PROVE  LET b == BucketStart(t, k)
                      IN /\ bucket[k][b] <= Samples(k, b)
                         /\ Kept(t, k) => bucket[k][b] = Samples(k, b)
    BY DEF CountedOnce, Kept
  <2> DEFINE b == BucketStart(t, k)
  <2>1. b \in Instants
    BY BucketOf
  <2>2. Counting(legacy, k, b) = 0
    BY CountingNone DEF CountInv
  <2>3. Total(k, b) = bucket[k][b]
    BY <2>1, <2>2, TotalTypes DEF Total
  <2>4. /\ Total(k, b) <= Samples(k, b)
        /\ Kept(t, k) => Total(k, b) = Samples(k, b)
    BY <2>1 DEF CountInv
  <2> QED BY <2>3, <2>4
<1> QED BY <1>1, MetricsTypeInit, RowsStep, ServedStep, CountInit, CountStep, PTL DEF MetricsSpec

-----------------------------------------------------------------------------
(* Answers are complete.  A tier that was chosen suited the range then, so   *)
(* the slack of a range covers what was pruned since; and requests are       *)
(* served only while the store is open, with no legacy rows left.            *)

Reaches(q, moment) ==
  /\ q.chosen <= moment
  /\ \/ q.tier = Last
     \/ q.chosen - q.since <= Tiers[q.tier].retention + Tiers[q.tier].seconds

QueryInv ==
  \A r \in Readers :
    /\ query[r].step # "none" => open
    /\ query[r].step = "read" => Reaches(query[r], instant)

LEMMA QueryInit == MetricsInit => QueryInv
BY NoQueryType DEF MetricsInit, QueryInv

LEMMA ReachesStays ==
  ASSUME NEW q \in Queries, NEW moment \in Instants, NEW later \in Instants, moment <= later,
         Reaches(q, moment)
  PROVE  Reaches(q, later)
<1>1. q.chosen \in Nat /\ moment \in Nat /\ later \in Nat
  BY InstantTypes DEF Queries
<1> QED BY <1>1 DEF Reaches

LEMMA QueryStep == ServedOK /\ ServedOK' /\ QueryInv /\ [MetricsNext]_metricsVars => QueryInv'
<1> SUFFICES ASSUME ServedOK, ServedOK', QueryInv, [MetricsNext]_metricsVars PROVE QueryInv'
  OBVIOUS
<1>a. /\ instant \in Instants /\ instant' \in Instants /\ query \in [Readers -> Queries]
      /\ instant \in Nat
  BY InstantTypes DEF ServedOK
\* The other queries, and all of them in a step that only lets time pass, reach as far.
<1>b. ASSUME NEW r \in Readers, query'[r] = query[r], instant' >= instant, open => open'
      PROVE  /\ query'[r].step # "none" => open'
             /\ query'[r].step = "read" => Reaches(query'[r], instant')
  <2>1. query[r] \in Queries /\ query[r].step = "read" => Reaches(query[r], instant)
    BY <1>a DEF QueryInv
  <2>2. instant <= instant'
    BY <1>b
  <2>3. query[r].step = "read" => Reaches(query[r], instant')
    BY <1>a, <2>1, <2>2, ReachesStays
  <2> QED BY <1>b, <2>3 DEF QueryInv
<1>1. CASE Reopen
  BY <1>1, NoQueryType DEF Reopen, QueryInv
<1>2. CASE query' = query /\ instant' >= instant /\ (open => open')
  BY <1>b, <1>2 DEF QueryInv
<1>3. ASSUME NEW r \in Readers, NEW range \in Ranges, AskMetrics(r, range) PROVE QueryInv'
  <2>1. instant' = instant /\ open' = open /\ open
    BY <1>3 DEF AskMetrics
  <2>2. query'[r].step = "choose" /\ \A s \in Readers \ {r} : query'[s] = query[s]
    BY <1>3, <1>a DEF AskMetrics, Query
  <2> QED BY <1>a, <1>b, <2>1, <2>2 DEF QueryInv
<1>4. ASSUME NEW r \in Readers, NEW limit \in Limits, ChooseTier(r, limit) PROVE QueryInv'
  <2> DEFINE since == query[r].since
             k     == MetricResolutionFor(instant - since, limit)
  <2>1. instant' = instant /\ open' = open /\ open
    BY <1>4 DEF ChooseTier, QueryInv
  <2>2. since \in Int /\ instant - since \in Int
    BY <1>a DEF Queries
  <2>3. query'[r] = Query("read", since, k, instant) /\ \A s \in Readers \ {r} : query'[s] = query[s]
    BY <1>4, <1>a DEF ChooseTier
  <2>4. k = Last \/ instant - since <= Tiers[k].retention + Tiers[k].seconds
    BY <2>2, Resolution DEF Suits
  <2> HIDE DEF since, k
  <2>5. /\ query'[r].chosen = instant /\ query'[r].tier = k /\ query'[r].since = since
    BY <2>3 DEF Query
  <2>6. Reaches(query'[r], instant')
    BY <1>a, <2>1, <2>4, <2>5 DEF Reaches
  <2> QED BY <1>a, <1>b, <2>1, <2>3, <2>6 DEF QueryInv
<1>5. ASSUME NEW r \in Readers, ReadBuckets(r) PROVE QueryInv'
  <2>1. instant' = instant /\ open' = open
    BY <1>5 DEF ReadBuckets
  <2>2. query'[r].step = "none" /\ \A s \in Readers \ {r} : query'[s] = query[s]
    BY <1>5, <1>a, NoQueryType DEF ReadBuckets
  <2> QED BY <1>a, <1>b, <2>1, <2>2 DEF QueryInv
<1> QED BY <1>a, <1>1, <1>2, <1>3, <1>4, <1>5
        DEF MetricsNext, metricsVars, CompactLegacyMetrics, Open, ReportArrives, RecordReport,
            PruneMetrics, InstantPasses

\* A query that is about to read reads every sample of its range that is to be kept.
LEMMA ReadsAll ==
  ASSUME RowsOK, ServedOK, CountInv, QueryInv, NEW r \in Readers, query[r].step = "read",
         NEW t \in Instants,
         t >= query[r].since + (Tiers[query[r].tier].seconds + (instant - query[r].chosen)),
         Kept(t, Last)
  PROVE  LET b == BucketStart(t, query[r].tier)
         IN b \in DOMAIN ReadOut(r) /\ ReadOut(r)[b] = Samples(query[r].tier, b)
<1> DEFINE k == query[r].tier
           b == BucketStart(t, k)
           since == query[r].since
           chosen == query[r].chosen
<1>1. /\ k \in DOMAIN Tiers /\ since \in Int /\ chosen \in Nat /\ instant \in Nat /\ t \in Nat
      /\ Tiers[k].seconds \in Nat \ {0} /\ Tiers[k].retention \in Nat
  BY InstantTypes, TierTypes DEF ServedOK, Queries
<1>2. /\ chosen <= instant
      /\ k = Last \/ chosen - since <= Tiers[k].retention + Tiers[k].seconds
      /\ legacy = <<>>
  BY DEF QueryInv, Reaches, CountInv
<1>3. t >= since + (Tiers[k].seconds + (instant - chosen))
  OBVIOUS
<1>4. b \in Instants
  BY <1>1, BucketOf
<1> HIDE DEF k, b, since, chosen
<1>5. since <= t
  BY ONLY <1>1, <1>2, <1>3
<1>6. BucketStart(since, k) <= BucketStart(t, k)
  BY <1>1, <1>5, BucketStarts
<1>7. t >= instant - Tiers[k].retention
  <2>1. CASE k = Last
    BY <2>1 DEF Kept
  <2>2. CASE chosen - since <= Tiers[k].retention + Tiers[k].seconds
    <3> DEFINE seconds == Tiers[k].seconds
               retention == Tiers[k].retention
    <3>1. /\ seconds \in Nat /\ retention \in Nat /\ chosen - since <= retention + seconds
          /\ t >= since + (seconds + (instant - chosen))
      BY <1>1, <1>3, <2>2
    <3> HIDE DEF seconds, retention
    <3>2. t >= instant - retention
      BY ONLY <1>1, <3>1
    <3> QED BY <3>2 DEF retention
  <2> QED BY <1>2, <2>1, <2>2
<1>8. Total(k, b) = Samples(k, b)
  BY <1>1, <1>7 DEF Kept, CountInv, b
<1>9. bucket[k][b] = Samples(k, b)
  <2>1. Counting(legacy, k, b) = 0 /\ bucket[k][b] \in Nat
    BY <1>1, <1>2, <1>4, CountingNone, TotalTypes
  <2> QED BY <1>8, <2>1 DEF Total
<1>10. b \in DOMAIN ReadOut(r) /\ ReadOut(r)[b] = bucket[k][b]
  BY <1>4, <1>6 DEF ReadOut, k, b, since
<1> QED BY <1>9, <1>10 DEF k, b

\* Every answer is complete: for any tiers, ranges and limits, whenever time passes or
\* the maintenance loop runs between the choice of a tier and the reading of its buckets.
THEOREM AnswerCorrect == MetricsSpec => AnswerIsComplete
<1> DEFINE Complete ==
      \A r \in Readers : ReadBuckets(r) =>
        LET k == query[r].tier
            slack == Tiers[k].seconds + (instant - query[r].chosen)
        IN \A t \in Instants :
             /\ t >= query[r].since + slack
             /\ t >= instant - Tiers[Last].retention /\ t >= instant - Retention
             => LET b == BucketStart(t, k)
                IN b \in DOMAIN ReadOut(r) /\ ReadOut(r)[b] = Samples(k, b)
<1>1. RowsOK /\ ServedOK /\ CountInv /\ QueryInv => [Complete]_metricsVars
  <2> SUFFICES ASSUME RowsOK, ServedOK, CountInv, QueryInv, NEW r \in Readers, ReadBuckets(r),
                      NEW t \in Instants,
                      t >= query[r].since + (Tiers[query[r].tier].seconds + (instant - query[r].chosen)),
                      t >= instant - Tiers[Last].retention, t >= instant - Retention
               PROVE  LET b == BucketStart(t, query[r].tier)
                      IN b \in DOMAIN ReadOut(r) /\ ReadOut(r)[b] = Samples(query[r].tier, b)
    OBVIOUS
  <2>1. query[r].step = "read" /\ Kept(t, Last)
    BY DEF ReadBuckets, Kept
  <2> QED BY <2>1, ReadsAll
<1> QED BY <1>1, MetricsTypeInit, RowsStep, ServedStep, CountInit, CountStep, QueryInit, QueryStep, PTL
        DEF MetricsSpec, AnswerIsComplete

HIDE MetricsAssumption DEF MetricsAssumption

-----------------------------------------------------------------------------
(* The composition.                                                        *)

\* A behaviour of the composition is a behaviour of each of the three.
LEMMA CompositionImplements == MCSpec => Spec /\ MetricsSpec /\ NotificationsSpec
<1>1. MCInit => Init /\ MetricsInit /\ NotificationsInit
  BY DEF MCInit
<1>2. [MCNext]_<<vars, metricsVars, notificationVars, part>>
        => [Next]_vars /\ [MetricsNext]_metricsVars /\ [NotificationsNext]_notificationVars
  BY DEF MCNext, Reporting, Undisturbed, Keeping, Telling, Next, Handle, MetricsNext, NotificationsNext
<1> QED BY <1>1, <1>2, PTL DEF MCSpec, Spec, MetricsSpec, NotificationsSpec

\* TypesOK is an invariant of the composition: every variable of the three holds a
\* value of its type, for all values of their constants.
THEOREM TypesCorrect == MCSpec => []TypesOK
BY CompositionImplements, TypeCorrect, MetricsTypeCorrect, NotificationsTypeCorrect, PTL DEF TypesOK
================================================================================
