--------------------------- MODULE NodeLinkProofs ---------------------------
(***************************************************************************)
(* What TLAPS proves of NodeLink for any number of connections, requests   *)
(* and versions: its types, that the hub is accurate, that a revocation is *)
(* not undone, and that no update is lost between a request and a          *)
(* connection.                                                             *)
(***************************************************************************)
EXTENDS NodeLink, TLAPS

USE ConstantsAssumption

-----------------------------------------------------------------------------
(* Types.                                                                  *)

LabelsOf(a) == IF a \in Conns THEN HandlerLabels ELSE AdminLabels

\* Moving an actor keeps the actors well-formed, if it takes a connection along
\* exactly when it closes or sends.
LEMMA GoToOK ==
  ASSUME ActorsOK, NEW a \in Actors, NEW label \in LabelsOf(a),
         NEW v \in Versions, NEW c \in MaybeConn,
         label \in {"closing", "send"} <=> c # NoConn,
         GoTo(a, label, v, c)
  PROVE  ActorsOK'
<1>1. label \in HandlerLabels \cup AdminLabels
  BY DEF LabelsOf
<1>2. /\ pc' \in [Actors -> HandlerLabels \cup AdminLabels]
      /\ aim' \in [Actors -> Versions] /\ held' \in [Actors -> MaybeConn]
  BY <1>1 DEF GoTo, ActorsOK
<1>3. \A d \in Conns : pc'[d] \in HandlerLabels
  BY DEF GoTo, ActorsOK, LabelsOf, Actors
<1>4. \A u \in Admins : pc'[u] \in AdminLabels
  BY DEF GoTo, ActorsOK, LabelsOf, Actors
<1>5. \A b \in Actors : pc'[b] \in {"closing", "send"} <=> held'[b] # NoConn
  BY DEF GoTo, ActorsOK
<1> QED
  BY <1>2, <1>3, <1>4, <1>5 DEF ActorsOK

LEMMA VersionsAreNaturals == Versions \subseteq Nat /\ 0 \in Versions
BY DEF Versions

\* A label that takes no connection along.
LEMMA GoToPlain ==
  ASSUME ActorsOK, NEW a \in Actors, NEW label \in LabelsOf(a), NEW v \in Versions,
         label \notin {"closing", "send"}, GoTo(a, label, v, NoConn)
  PROVE  ActorsOK'
BY GoToOK DEF MaybeConn

LEMMA AfterPushOK ==
  ASSUME ActorsOK, NEW a \in Actors, AfterPush(a)
  PROVE  ActorsOK'
<1>1. CASE a \in Conns
  BY <1>1, GoToPlain, VersionsAreNaturals DEF AfterPush, LabelsOf, HandlerLabels
<1>2. CASE a \notin Conns
  BY <1>2, GoToPlain, VersionsAreNaturals DEF AfterPush, LabelsOf, AdminLabels
<1> QED
  BY <1>1, <1>2

LEMMA MarkSeenOK ==
  ASSUME row \in NodeRow, NEW v \in Versions, MarkSeen(v)
  PROVE  row' \in NodeRow
BY DEF MarkSeen, Row, NodeRow

LEMMA TypeInit == Init => TypeOK
<1> SUFFICES ASSUME Init PROVE TypeOK
  OBVIOUS
<1>1. ActorsOK
  BY VersionsAreNaturals DEF Init, ActorsOK, Actors, HandlerLabels, AdminLabels, MaybeConn
<1>2. ConnsOK
  BY VersionsAreNaturals DEF Init, ConnsOK
<1>3. row \in NodeRow
  BY VersionsAreNaturals DEF Init, Row, NodeRow
<1> QED
  BY <1>1, <1>2, <1>3, VersionsAreNaturals DEF Init, TypeOK, MaybeConn

\* The steps of a connection's handler other than a push.
LEMMA HandleType ==
  ASSUME TypeOK, NEW c \in Conns, Handle(c)
  PROVE  TypeOK'
<1> c \in Actors
  BY DEF Actors
<1>0. {"free", "seen", "register", "push", "loop", "leave"} \subseteq LabelsOf(c)
  BY DEF LabelsOf, HandlerLabels
<1> USE VersionsAreNaturals
<1>1. ASSUME Hello(c) PROVE TypeOK'
  <2>1. ActorsOK'
    BY <1>0, <1>1, GoToPlain DEF Hello, TypeOK
  <2>2. unread' \in [Conns -> Nat]
    BY <1>1 DEF Hello, TypeOK, ConnsOK
  <2>3. dead' \in [Conns -> BOOLEAN]
    BY <1>1 DEF Hello, TypeOK, ConnsOK
  <2> QED BY <1>1, <2>1, <2>2, <2>3 DEF Hello, TypeOK, ConnsOK, nodeVars
<1>2. ASSUME NoHello(c) PROVE TypeOK'
  BY <1>0, <1>2, GoToPlain DEF NoHello, TypeOK, ConnsOK, nodeVars
<1>3. ASSUME Seen(c) PROVE TypeOK'
  <2>1. row' \in NodeRow
    BY <1>3, MarkSeenOK DEF Seen, TypeOK, ConnsOK
  <2> QED BY <1>0, <1>3, <2>1, GoToPlain DEF Seen, TypeOK, ConnsOK, nodeVars
<1>4. ASSUME RegisterSocket(c) PROVE TypeOK'
  <2>1. ActorsOK'
    <3>1. CASE hub = NoConn
      BY <1>0, <1>4, <3>1, GoToPlain DEF RegisterSocket, TypeOK
    <3>2. CASE hub # NoConn
      BY <1>4, <3>2, GoToOK DEF RegisterSocket, TypeOK, LabelsOf, HandlerLabels
    <3> QED BY <3>1, <3>2
  <2> QED BY <1>4, <2>1 DEF RegisterSocket, TypeOK, ConnsOK, connVars, nodeVars, MaybeConn
<1>5. ASSUME CloseOld(c) PROVE TypeOK'
  BY <1>0, <1>5, GoToPlain DEF CloseOld, TypeOK, ConnsOK, nodeVars
<1>6. ASSUME Heartbeat(c) PROVE TypeOK'
  <2>1. row' \in NodeRow
    BY <1>6, MarkSeenOK DEF Heartbeat, TypeOK, ConnsOK
  <2>2. ActorsOK'
    BY <1>0, <1>6, GoToPlain DEF Heartbeat, TypeOK, ActorsOK, actorVars
  <2> QED BY <1>6, <2>1, <2>2 DEF Heartbeat, TypeOK, ConnsOK, nodeVars
<1>7. ASSUME ReadFails(c) PROVE TypeOK'
  BY <1>0, <1>7, GoToPlain DEF ReadFails, TypeOK, ConnsOK, connVars, nodeVars
<1>8. ASSUME Leave(c) PROVE TypeOK'
  BY <1>0, <1>8, GoToPlain DEF Leave, UnregisterSocket, TypeOK, ConnsOK, nodeVars, MaybeConn
<1> QED
  BY <1>1, <1>2, <1>3, <1>4, <1>5, <1>6, <1>7, <1>8 DEF Handle

LEMMA PushType ==
  ASSUME TypeOK, NEW a \in Actors, Push(a)
  PROVE  TypeOK'
<1>0. {"match", "find", "send"} \subseteq LabelsOf(a)
  BY DEF LabelsOf, HandlerLabels, AdminLabels
<1>1. ASSUME PushRead(a) PROVE TypeOK'
  <2>1. ActorsOK'
    BY <1>0, <1>1, GoToPlain, AfterPushOK DEF PushRead, TypeOK, NodeRow
  <2> QED BY <1>1, <2>1 DEF PushRead, TypeOK, ConnsOK, connVars, nodeVars
<1>2. ASSUME PushMatch(a) PROVE TypeOK'
  <2>1. ActorsOK'
    <3>1. aim[a] \in Versions
      BY DEF TypeOK, ActorsOK
    <3> QED BY <1>0, <1>2, <3>1, GoToPlain, AfterPushOK DEF PushMatch, TypeOK
  <2> QED BY <1>2, <2>1 DEF PushMatch, TypeOK, ConnsOK, connVars, nodeVars
<1>3. ASSUME PushFind(a) PROVE TypeOK'
  <2>1. ActorsOK'
    <3>1. aim[a] \in Versions
      BY DEF TypeOK, ActorsOK
    <3> QED BY <1>0, <1>3, <3>1, GoToOK, AfterPushOK DEF PushFind, TypeOK
  <2> QED BY <1>3, <2>1 DEF PushFind, TypeOK, ConnsOK, connVars, nodeVars
<1>4. ASSUME PushSend(a) PROVE TypeOK'
  <2>1. ActorsOK'
    BY <1>4, AfterPushOK DEF PushSend, TypeOK
  <2>2. aim[a] \in Versions
    BY DEF TypeOK, ActorsOK
  <2>3. ConnsOK'
    <3>1. \A d \in Conns : Append(commands[d], aim[a]) \in Seq(Versions)
      BY <2>2 DEF TypeOK, ConnsOK
    <3>2. CASE UNCHANGED <<commands, sent>>
      BY <1>4, <3>2 DEF PushSend, TypeOK, ConnsOK
    <3>3. CASE /\ commands' = [commands EXCEPT ![held[a]] = Append(@, aim[a])]
               /\ sent' = [sent EXCEPT ![held[a]] = @ \cup {aim[a]}]
      <4>1. commands' \in [Conns -> Seq(Versions)]
        BY <3>1, <3>3 DEF TypeOK, ConnsOK
      <4>2. sent' \in [Conns -> SUBSET Versions]
        BY <2>2, <3>3 DEF TypeOK, ConnsOK
      <4> QED BY <1>4, <4>1, <4>2 DEF PushSend, TypeOK, ConnsOK
    <3> QED BY <1>4, <3>2, <3>3 DEF PushSend
  <2> QED BY <1>4, <2>1, <2>3 DEF PushSend, TypeOK, nodeVars
<1> QED
  BY <1>1, <1>2, <1>3, <1>4 DEF Push

\* Administrators' requests.
LEMMA AdminType ==
  ASSUME TypeOK, NEW u \in Admins, RequestUpdate(u) \/ RequestNodeUpdate(u) \/ Abort(u)
  PROVE  TypeOK'
<1> u \in Actors
  BY DEF Actors
<1>0. {"idle", "write", "push"} \subseteq LabelsOf(u)
  BY DEF LabelsOf, AdminLabels
<1> USE VersionsAreNaturals
<1>1. ASSUME RequestUpdate(u) PROVE TypeOK'
  BY <1>0, <1>1, GoToPlain DEF RequestUpdate, Edit, TypeOK, ConnsOK, connVars, nodeVars
<1>2. ASSUME RequestNodeUpdate(u) PROVE TypeOK'
  <2>1. ActorsOK'
    BY <1>0, <1>2, GoToPlain, AfterPushOK DEF RequestNodeUpdate, TypeOK
  <2>2. row' \in NodeRow
    <3>1. aim[u] \in Versions
      BY DEF TypeOK, ActorsOK
    <3>2. row' = row \/ row' = Row(FALSE, row.status, row.agent, aim[u])
      BY <1>2 DEF RequestNodeUpdate
    <3>3. Row(FALSE, row.status, row.agent, aim[u]) \in NodeRow
      BY <3>1 DEF TypeOK, Row, NodeRow
    <3> QED BY <3>2, <3>3 DEF TypeOK
  <2> QED BY <1>2, <2>1, <2>2 DEF RequestNodeUpdate, TypeOK, ConnsOK, connVars, nodeVars
<1>3. ASSUME Abort(u) PROVE TypeOK'
  <2>1. ActorsOK'
    BY <1>0, <1>3, GoToPlain DEF Abort, TypeOK
  <2>2. cut' \in BOOLEAN
    BY <1>3 DEF Abort
  <2> QED BY <1>3, <2>1, <2>2 DEF Abort, Fault, TypeOK, ConnsOK, connVars, nodeVars
<1> QED
  BY <1>1, <1>2, <1>3

\* The node's own steps, and what happens to its row.
LEMMA NodeType ==
  ASSUME TypeOK,
         \/ \E c \in Conns : Dial(c)
         \/ \E b \in BOOLEAN : SetNodeRevoked(b)
         \/ \E v \in Versions : UpdateReport(v)
         \/ MarkOffline \/ Publish \/ Beat \/ HandleUpdateCommand \/ Notice
         \/ SendReport \/ RunUpdate \/ Disconnect \/ Restart
  PROVE  TypeOK'
<1> USE VersionsAreNaturals
<1>1. ASSUME NEW c \in Conns, Dial(c) PROVE TypeOK'
  <2>1. c \in Actors /\ "hello" \in LabelsOf(c)
    BY DEF Actors, LabelsOf, HandlerLabels
  <2>2. ActorsOK'
    BY <1>1, <2>1, GoToPlain DEF Dial, TypeOK
  <2> QED BY <1>1, <2>2 DEF Dial, TypeOK, ConnsOK, MaybeConn
<1>2. ASSUME NEW b \in BOOLEAN, SetNodeRevoked(b) PROVE TypeOK'
  <2>1. row' \in NodeRow
    BY <1>2 DEF SetNodeRevoked, TypeOK, Row, NodeRow
  <2> QED BY <1>2, <2>1
       DEF SetNodeRevoked, Edit, TypeOK, ActorsOK, ConnsOK, actorVars, connVars, nodeVars
<1>3. ASSUME NEW v \in Versions, UpdateReport(v) PROVE TypeOK'
  <2>1. row' \in NodeRow
    BY <1>3, MarkSeenOK DEF UpdateReport, TypeOK
  <2> QED BY <1>3, <2>1 DEF UpdateReport, TypeOK, ActorsOK, ConnsOK, actorVars, connVars
<1>4. ASSUME MarkOffline PROVE TypeOK'
  <2>1. row' \in NodeRow
    BY <1>4 DEF MarkOffline, TypeOK, Row, NodeRow
  <2> QED BY <1>4, <2>1
       DEF MarkOffline, TypeOK, ActorsOK, ConnsOK, actorVars, connVars, nodeVars
<1>5. ASSUME Publish PROVE TypeOK'
  BY <1>5 DEF Publish, TypeOK, ActorsOK, ConnsOK, actorVars, connVars, nodeVars, Versions
<1>6. ASSUME Beat PROVE TypeOK'
  BY <1>6 DEF Beat, TypeOK, ActorsOK, ConnsOK, actorVars, nodeVars, MaybeConn
<1>7. ASSUME HandleUpdateCommand PROVE TypeOK'
  <2>1. link \in Conns /\ commands[link] \in Seq(Versions) /\ commands[link] # <<>>
    BY <1>7 DEF HandleUpdateCommand, TypeOK, ConnsOK, MaybeConn
  <2>2. Head(commands[link]) \in Versions /\ Tail(commands[link]) \in Seq(Versions)
    BY <2>1
  <2> QED BY <1>7, <2>1, <2>2 DEF HandleUpdateCommand, TypeOK, ActorsOK, ConnsOK, actorVars
<1>8. ASSUME Notice PROVE TypeOK'
  BY <1>8 DEF Notice, TypeOK, ActorsOK, ConnsOK, actorVars, connVars, MaybeConn
<1>9. ASSUME SendReport PROVE TypeOK'
  BY <1>9 DEF SendReport, TypeOK, ActorsOK, ConnsOK, actorVars, connVars
<1>10. ASSUME RunUpdate PROVE TypeOK'
  BY <1>10 DEF RunUpdate, TypeOK, ActorsOK, ConnsOK, actorVars, connVars, MaybeConn
<1>11. ASSUME Disconnect PROVE TypeOK'
  BY <1>11 DEF Disconnect, Fault, TypeOK, ActorsOK, ConnsOK, actorVars, connVars, MaybeConn
<1>12. ASSUME Restart PROVE TypeOK'
  <2>1. ActorsOK'
    BY <1>12 DEF Restart, ActorsOK, Actors, HandlerLabels, AdminLabels, MaybeConn
  <2> QED BY <1>12, <2>1 DEF Restart, Fault, TypeOK, ConnsOK, nodeVars, MaybeConn
<1> QED
  BY <1>1, <1>2, <1>3, <1>4, <1>5, <1>6, <1>7, <1>8, <1>9, <1>10, <1>11, <1>12

LEMMA TypeStep == TypeOK /\ [Next]_vars => TypeOK'
<1> SUFFICES ASSUME TypeOK, [Next]_vars PROVE TypeOK'
  OBVIOUS
<1>1. CASE UNCHANGED vars
  BY <1>1 DEF vars, TypeOK, ActorsOK, ConnsOK, actorVars, connVars, nodeVars
<1>2. CASE \E c \in Conns : Handle(c)
  BY <1>2, HandleType
<1>3. CASE \E a \in Actors : Push(a)
  BY <1>3, PushType
<1>4. CASE \E u \in Admins : RequestUpdate(u) \/ RequestNodeUpdate(u) \/ Abort(u)
  BY <1>4, AdminType
<1> QED
  BY <1>1, <1>2, <1>3, <1>4, NodeType DEF Next

\* TypeOK is an invariant, for any number of connections, requests and versions.
THEOREM TypeCorrect == Spec => []TypeOK
BY TypeInit, TypeStep, PTL DEF Spec

-----------------------------------------------------------------------------
(* Revocation.                                                             *)

\* RevokedStaysRevoked is an invariant: no write that was prepared before a node
\* was revoked changes its status afterwards.
THEOREM RevocationCorrect == Spec => []RevokedStaysRevoked
<1>1. Init => RevokedStaysRevoked
  BY DEF Init, Row, RevokedStaysRevoked
<1>2. TypeOK /\ RevokedStaysRevoked /\ [Next]_vars => RevokedStaysRevoked'
  <2> SUFFICES ASSUME TypeOK, RevokedStaysRevoked, [Next]_vars PROVE RevokedStaysRevoked'
    OBVIOUS
  <2> USE DEF RevokedStaysRevoked
  <2>1. CASE UNCHANGED row
    BY <2>1
  <2>2. ASSUME NEW v, MarkSeen(v) PROVE RevokedStaysRevoked'
    BY <2>2 DEF MarkSeen, Row
  <2>3. ASSUME NEW b \in BOOLEAN, SetNodeRevoked(b) PROVE RevokedStaysRevoked'
    BY <2>3 DEF SetNodeRevoked, Row
  <2>4. ASSUME NEW u \in Admins, RequestNodeUpdate(u) PROVE RevokedStaysRevoked'
    BY <2>4 DEF RequestNodeUpdate, Row
  <2>5. CASE MarkOffline
    BY <2>5 DEF MarkOffline, Row
  <2>6. ASSUME NEW c \in Conns, Handle(c) PROVE UNCHANGED row \/ \E v : MarkSeen(v)
    BY <2>6 DEF Handle, Hello, NoHello, Seen, RegisterSocket, CloseOld, Heartbeat, ReadFails, Leave
  <2>7. ASSUME NEW v \in Versions, UpdateReport(v) PROVE MarkSeen(v)
    BY <2>7 DEF UpdateReport
  <2>8. ASSUME NEW a \in Actors, Push(a) PROVE UNCHANGED row
    BY <2>8 DEF Push, PushRead, PushMatch, PushFind, PushSend
  <2>9. ASSUME NEW u \in Admins, RequestUpdate(u) \/ Abort(u) PROVE UNCHANGED row
    BY <2>9 DEF RequestUpdate, Abort
  <2>10. ASSUME NEW c \in Conns, Dial(c) PROVE UNCHANGED row
    BY <2>10 DEF Dial
  <2>11. ASSUME \/ Publish \/ Beat \/ HandleUpdateCommand \/ Notice \/ SendReport
                \/ RunUpdate \/ Disconnect \/ Restart \/ UNCHANGED vars
         PROVE  UNCHANGED row
    BY <2>11 DEF Publish, Beat, HandleUpdateCommand, Notice, SendReport, RunUpdate,
                 Disconnect, Restart, vars
  <2> QED
    BY <2>1, <2>2, <2>3, <2>4, <2>5, <2>6, <2>7, <2>8, <2>9, <2>10, <2>11 DEF Next
<1> QED
  BY <1>1, <1>2, TypeCorrect, PTL DEF Spec

-----------------------------------------------------------------------------
(* The hub.                                                                *)

HubOK == HubHoldsNoGhost /\ ListenerIsReachable

\* What a step may do without harm to the hub: leave the hub and the closing of
\* connections alone, and move nobody in or out of the registered handlers.
LEMMA HubUndisturbed ==
  ASSUME HubOK, hub' = hub,
         \A c \in Conns : pc[c] \in Registered <=> pc'[c] \in Registered,
         \A c \in Conns : pc[c] = "leave" => pc'[c] = "leave",
         \A c \in Conns : pc[c] = "closing" => pc'[c] = "closing" /\ held'[c] = held[c],
         \A c \in Conns : dead[c] => dead'[c] \/ pc'[c] \notin Registered,
         hub \in MaybeConn
  PROVE  HubOK'
BY DEF HubOK, HubHoldsNoGhost, ListenerIsReachable, MaybeConn

LEMMA HandleHub ==
  ASSUME TypeOK, HubOK, NEW c \in Conns, Handle(c)
  PROVE  HubOK'
<1> c \in Actors /\ hub \in MaybeConn /\ c # NoConn
  BY DEF Actors, TypeOK
<1>0. /\ pc \in [Actors -> HandlerLabels \cup AdminLabels]
      /\ held \in [Actors -> MaybeConn] /\ dead \in [Conns -> BOOLEAN]
      /\ \A d \in Conns : d \in Actors
      /\ \A d \in Conns : pc[d] \in {"closing", "send"} <=> held[d] # NoConn
  BY DEF TypeOK, ActorsOK, ConnsOK, Actors
<1>1. ASSUME Hello(c) \/ NoHello(c) \/ Seen(c) PROVE HubOK'
  <2>1. /\ pc[c] \in {"hello", "seen"} /\ hub' = hub
        /\ \E label \in {"free", "seen", "register"} : pc' = [pc EXCEPT ![c] = label]
        /\ held' = [held EXCEPT ![c] = NoConn]
        /\ \A d \in Conns : dead[d] => dead'[d]
    BY <1>0, <1>1 DEF Hello, NoHello, Seen, GoTo
  <2> QED BY <1>0, <2>1, HubUndisturbed DEF Registered
<1>2. ASSUME RegisterSocket(c) PROVE HubOK'
  <2>1. /\ pc[c] = "register" /\ \A d \in Conns : pc[d] # "closing"
        /\ hub' = c /\ dead' = dead
        /\ \/ hub = NoConn /\ pc' = [pc EXCEPT ![c] = "push"]
           \/ /\ hub # NoConn /\ pc' = [pc EXCEPT ![c] = "closing"]
              /\ held' = [held EXCEPT ![c] = hub]
    BY <1>2 DEF RegisterSocket, GoTo, connVars
  <2>2. HubHoldsNoGhost'
    BY <1>0, <2>1 DEF HubHoldsNoGhost, Registered
  <2>3. ASSUME NEW e \in Conns, e # c, pc'[e] \in Registered \ {"leave"}, ~dead'[e],
               \A d \in Conns : pc'[d] = "closing" => held'[d] # e
        PROVE  FALSE
    <3>1. hub = e
      BY <1>0, <2>1, <2>3 DEF HubOK, ListenerIsReachable
    <3> QED BY <1>0, <2>1, <2>3, <3>1
  <2> QED BY <2>1, <2>2, <2>3 DEF HubOK, ListenerIsReachable
<1>3. ASSUME CloseOld(c) PROVE HubOK'
  <2>1. /\ pc[c] = "closing" /\ hub' = hub
        /\ pc' = [pc EXCEPT ![c] = "push"] /\ held' = [held EXCEPT ![c] = NoConn]
        /\ dead' = [dead EXCEPT ![held[c]] = TRUE]
    BY <1>3 DEF CloseOld, GoTo
  <2>2. HubHoldsNoGhost'
    BY <1>0, <2>1 DEF HubOK, HubHoldsNoGhost, Registered, MaybeConn
  <2>3. ASSUME NEW e \in Conns, pc'[e] \in Registered \ {"leave"}, ~dead'[e],
               \A d \in Conns : pc'[d] = "closing" => held'[d] # e
        PROVE  hub' = e
    <3>1. ~dead[e] /\ held[c] # e
      BY <1>0, <2>1, <2>3
    <3>2. \A d \in Conns : pc[d] = "closing" => held[d] # e
      BY <1>0, <2>1, <2>3, <3>1
    <3>3. pc[e] \in Registered \ {"leave"}
      BY <1>0, <2>1, <2>3 DEF Registered
    <3> QED BY <2>1, <3>1, <3>2, <3>3 DEF HubOK, ListenerIsReachable
  <2> QED BY <2>2, <2>3 DEF HubOK, ListenerIsReachable
<1>4. ASSUME Heartbeat(c) PROVE HubOK'
  <2>1. /\ pc[c] = "loop" /\ hub' = hub /\ dead' = dead
        /\ \/ pc' = pc /\ held' = held
           \/ pc' = [pc EXCEPT ![c] = "leave"] /\ held' = [held EXCEPT ![c] = NoConn]
    BY <1>4 DEF Heartbeat, GoTo, actorVars
  <2> QED BY <1>0, <2>1, HubUndisturbed DEF Registered
<1>5. ASSUME ReadFails(c) PROVE HubOK'
  <2>1. /\ pc[c] = "loop" /\ hub' = hub /\ dead' = dead
        /\ pc' = [pc EXCEPT ![c] = "leave"] /\ held' = [held EXCEPT ![c] = NoConn]
    BY <1>5 DEF ReadFails, GoTo, connVars
  <2> QED BY <1>0, <2>1, HubUndisturbed DEF Registered
<1>6. ASSUME Leave(c) PROVE HubOK'
  <2>1. /\ pc[c] = "leave" /\ hub' = IF hub = c THEN NoConn ELSE hub
        /\ pc' = [pc EXCEPT ![c] = "free"] /\ held' = [held EXCEPT ![c] = NoConn]
        /\ dead' = [dead EXCEPT ![c] = TRUE]
    BY <1>6 DEF Leave, UnregisterSocket, GoTo
  <2>2. HubHoldsNoGhost'
    BY <1>0, <2>1 DEF HubOK, HubHoldsNoGhost, MaybeConn
  <2>3. ASSUME NEW e \in Conns, pc'[e] \in Registered \ {"leave"}, ~dead'[e],
               \A d \in Conns : pc'[d] = "closing" => held'[d] # e
        PROVE  hub' = e
    <3>1. e # c
      BY <1>0, <2>1, <2>3 DEF Registered
    <3>2. \A d \in Conns : pc[d] = "closing" => held[d] # e
      BY <1>0, <2>1, <2>3
    <3> QED BY <1>0, <2>1, <2>3, <3>1, <3>2 DEF HubOK, ListenerIsReachable
  <2> QED BY <2>2, <2>3 DEF HubOK, ListenerIsReachable
<1> QED
  BY <1>1, <1>2, <1>3, <1>4, <1>5, <1>6 DEF Handle

LEMMA HubStep == TypeOK /\ HubOK /\ [Next]_vars => HubOK'
<1> SUFFICES ASSUME TypeOK, HubOK, [Next]_vars PROVE HubOK'
  OBVIOUS
<1> hub \in MaybeConn /\ Conns \subseteq Actors /\ Admins \subseteq Actors
  BY DEF TypeOK, Actors
<1>0. /\ pc \in [Actors -> HandlerLabels \cup AdminLabels]
      /\ held \in [Actors -> MaybeConn] /\ dead \in [Conns -> BOOLEAN]
  BY DEF TypeOK, ActorsOK, ConnsOK
<1>1. ASSUME NEW c \in Conns, Handle(c) PROVE HubOK'
  BY <1>1, HandleHub
<1>2. ASSUME NEW a \in Actors, Push(a) PROVE HubOK'
  <2>1. /\ pc[a] \in {"push", "match", "find", "send"} /\ hub' = hub /\ dead' = dead
        /\ \E label \in {"match", "find", "send", "loop", "idle"} :
             pc' = [pc EXCEPT ![a] = label] /\ (a \in Conns => label # "idle")
        /\ \E d : held' = [held EXCEPT ![a] = d]
    BY <1>2 DEF Push, PushRead, PushMatch, PushFind, PushSend, AfterPush, GoTo, connVars
  <2> QED BY <1>0, <2>1, HubUndisturbed DEF Registered
<1>3. ASSUME NEW u \in Admins, RequestUpdate(u) \/ RequestNodeUpdate(u) \/ Abort(u) PROVE HubOK'
  <2>1. /\ hub' = hub /\ dead' = dead
        /\ \E label : pc' = [pc EXCEPT ![u] = label]
        /\ \E d : held' = [held EXCEPT ![u] = d]
    BY <1>3 DEF RequestUpdate, RequestNodeUpdate, Abort, AfterPush, GoTo, connVars
  <2>2. \A c \in Conns : pc'[c] = pc[c] /\ held'[c] = held[c]
    BY <1>0, <2>1
  <2> QED BY <2>1, <2>2, HubUndisturbed
<1>4. ASSUME NEW c \in Conns, Dial(c) PROVE HubOK'
  <2>1. /\ pc[c] = "free" /\ hub' = hub
        /\ pc' = [pc EXCEPT ![c] = "hello"] /\ held' = [held EXCEPT ![c] = NoConn]
        /\ dead' = [dead EXCEPT ![c] = FALSE]
    BY <1>4 DEF Dial, Unused, GoTo
  <2> QED BY <1>0, <2>1, HubUndisturbed DEF Registered
<1>5. ASSUME Restart PROVE HubOK'
  BY <1>5 DEF Restart, HubOK, HubHoldsNoGhost, ListenerIsReachable, Registered
<1>6. ASSUME \/ \E b \in BOOLEAN : SetNodeRevoked(b)
             \/ \E v \in Versions : UpdateReport(v)
             \/ MarkOffline \/ Publish \/ Beat \/ HandleUpdateCommand \/ Notice
             \/ SendReport \/ RunUpdate \/ Disconnect \/ UNCHANGED vars
      PROVE  HubOK'
  <2>1. pc' = pc /\ held' = held /\ hub' = hub /\ dead' = dead
    BY <1>6 DEF SetNodeRevoked, UpdateReport, MarkOffline, Publish, Beat, HandleUpdateCommand,
                Notice, SendReport, RunUpdate, Disconnect, vars, actorVars, connVars
  <2> QED BY <2>1, HubUndisturbed
<1> QED
  BY <1>1, <1>2, <1>3, <1>4, <1>5, <1>6 DEF Next

LEMMA HubInvariant == Spec => []HubOK
<1>1. Init => HubOK
  BY DEF Init, HubOK, HubHoldsNoGhost, ListenerIsReachable, Registered, Actors
<1> QED
  BY <1>1, HubStep, TypeCorrect, PTL DEF Spec

\* HubHoldsNoGhost is an invariant: whatever the order in which any number of
\* handlers register and return, the hub's entry will be removed by its handler.
THEOREM HubCorrect == Spec => []HubHoldsNoGhost
<1>1. HubOK => HubHoldsNoGhost
  BY DEF HubOK
<1> QED
  BY <1>1, HubInvariant, PTL

\* ListenerIsReachable is an invariant: the late return of an old handler never
\* takes a newer connection out of the hub.
THEOREM ReachableCorrect == Spec => []ListenerIsReachable
<1>1. HubOK => ListenerIsReachable
  BY DEF HubOK
<1> QED
  BY <1>1, HubInvariant, PTL

-----------------------------------------------------------------------------
(* Versions: nothing knows of a newer agent than the one that runs, and     *)
(* nothing desires a newer version than the one released.                   *)

VersionsOK ==
  /\ row.desired <= release
  /\ \A u \in Admins : pc[u] = "write" => aim[u] <= release
  /\ row.agent <= running
  /\ \A c \in Conns : version[c] <= running
  /\ \A v \in reports : v <= running
  /\ told # 0 => running < told

\* What MarkSeen leaves of it, and what nobody else touches.
LEMMA SeenVersions ==
  ASSUME TypeOK, VersionsOK, NEW v \in Versions, v <= running, MarkSeen(v)
  PROVE  row'.desired = row.desired /\ row'.agent <= running
BY DEF MarkSeen, Row, VersionsOK, TypeOK, NodeRow

LEMMA VersionsStep == TypeOK /\ VersionsOK /\ [Next]_vars => VersionsOK'
<1> SUFFICES ASSUME TypeOK, VersionsOK, [Next]_vars PROVE VersionsOK'
  OBVIOUS
<1>0. /\ release \in Nat /\ running \in Nat /\ told \in Nat
      /\ row.agent \in Nat /\ row.desired \in Nat
      /\ pc \in [Actors -> HandlerLabels \cup AdminLabels] /\ aim \in [Actors -> Nat]
      /\ version \in [Conns -> Nat] /\ reports \in SUBSET Nat
      /\ Conns \subseteq Actors /\ Admins \subseteq Actors
  BY DEF TypeOK, ActorsOK, ConnsOK, NodeRow, Versions, Actors
<1>1. ASSUME NEW c \in Conns, Handle(c) PROVE VersionsOK'
  <2>1. /\ UNCHANGED <<release, version, running, reports, told>>
        /\ UNCHANGED row \/ MarkSeen(version[c])
        /\ \A u \in Admins : pc'[u] = pc[u] /\ aim'[u] = aim[u]
    BY <1>0, <1>1 DEF Handle, Hello, NoHello, Seen, RegisterSocket, CloseOld, Heartbeat,
                ReadFails, Leave, GoTo, nodeVars, connVars, actorVars
  <2>2. row'.desired = row.desired /\ row'.agent <= running
    BY <1>0, <2>1, SeenVersions DEF VersionsOK, TypeOK, ConnsOK
  <2> QED BY <2>1, <2>2 DEF VersionsOK
<1>2. ASSUME NEW a \in Actors, Push(a) PROVE VersionsOK'
  <2>1. /\ UNCHANGED <<release, version, running, reports, told, row>>
        /\ \A u \in Admins : pc'[u] = "write" => pc[u] = "write" /\ aim'[u] = aim[u]
    BY <1>0, <1>2 DEF Push, PushRead, PushMatch, PushFind, PushSend, AfterPush, GoTo,
                nodeVars, connVars
  <2> QED BY <2>1 DEF VersionsOK
<1>3. ASSUME NEW u \in Admins, RequestUpdate(u) PROVE VersionsOK'
  <2>1. /\ UNCHANGED <<release, version, running, reports, told, row>>
        /\ \A w \in Admins : pc'[w] = "write" =>
             (pc[w] = "write" /\ aim'[w] = aim[w]) \/ aim'[w] = release
    BY <1>0, <1>3 DEF RequestUpdate, GoTo, nodeVars, connVars
  <2> QED BY <1>0, <2>1 DEF VersionsOK
<1>4. ASSUME NEW u \in Admins, RequestNodeUpdate(u) \/ Abort(u) PROVE VersionsOK'
  <2>1. /\ UNCHANGED <<release, version, running, reports, told>>
        /\ \A w \in Admins : pc'[w] = "write" => pc[w] = "write" /\ aim'[w] = aim[w]
    BY <1>0, <1>4 DEF RequestNodeUpdate, Abort, AfterPush, GoTo, nodeVars, connVars
  <2>2. row'.desired <= release /\ row'.agent = row.agent
    BY <1>0, <1>4 DEF RequestNodeUpdate, Abort, Row, VersionsOK
  <2> QED BY <2>1, <2>2 DEF VersionsOK
<1>5. ASSUME NEW b \in BOOLEAN, SetNodeRevoked(b) PROVE VersionsOK'
  <2>1. row'.desired = row.desired /\ row'.agent = row.agent
    BY <1>5 DEF SetNodeRevoked, Row
  <2> QED BY <1>5, <2>1 DEF SetNodeRevoked, VersionsOK, actorVars, connVars, nodeVars
<1>6. ASSUME NEW v \in Versions, UpdateReport(v) PROVE VersionsOK'
  <2>1. row'.desired = row.desired /\ row'.agent <= running
    BY <1>6, SeenVersions DEF UpdateReport, VersionsOK
  <2> QED BY <1>6, <2>1 DEF UpdateReport, VersionsOK, actorVars, connVars
<1>7. ASSUME MarkOffline PROVE VersionsOK'
  <2>1. row'.desired = row.desired /\ row'.agent = row.agent
    BY <1>7 DEF MarkOffline, Row
  <2> QED BY <1>7, <2>1 DEF MarkOffline, VersionsOK, actorVars, connVars, nodeVars
<1>8. ASSUME Publish PROVE VersionsOK'
  <2>1. /\ release' = release + 1
        /\ UNCHANGED <<row, pc, aim, version, reports, running, told>>
    BY <1>8 DEF Publish, actorVars, connVars, nodeVars
  <2>2. \A u \in Admins : pc[u] = "write" => aim[u] <= release'
    BY <1>0, <2>1 DEF VersionsOK
  <2> QED BY <1>0, <2>1, <2>2 DEF VersionsOK
<1>9. ASSUME NEW c \in Conns, Dial(c) PROVE VersionsOK'
  <2>1. /\ UNCHANGED <<release, row, reports, running, told>>
        /\ \A w \in Admins : pc'[w] = "write" => pc[w] = "write" /\ aim'[w] = aim[w]
        /\ version' = [version EXCEPT ![c] = running]
    BY <1>0, <1>9 DEF Dial, GoTo
  <2> QED BY <1>0, <2>1 DEF VersionsOK
<1>10. ASSUME HandleUpdateCommand PROVE VersionsOK'
  <2>1. /\ UNCHANGED <<release, row, reports, running, pc, aim, version>>
        /\ told' = told \/ running < told'
    BY <1>10 DEF HandleUpdateCommand, NeedsUpdate, actorVars
  <2> QED BY <2>1 DEF VersionsOK
<1>11. ASSUME SendReport PROVE VersionsOK'
  BY <1>0, <1>11 DEF SendReport, VersionsOK, actorVars, connVars
<1>12. ASSUME RunUpdate PROVE VersionsOK'
  <2>1. /\ UNCHANGED <<release, row, reports, pc, aim, version>>
        /\ running' \in Nat /\ running <= running' /\ told' = 0
    BY <1>0, <1>12 DEF RunUpdate, VersionsOK, actorVars, connVars
  <2>2. /\ row.agent <= running'
        /\ \A c \in Conns : version[c] <= running'
        /\ \A v \in reports : v <= running'
    BY <1>0, <2>1 DEF VersionsOK
  <2> QED BY <2>1, <2>2 DEF VersionsOK
<1>13. ASSUME Restart PROVE VersionsOK'
  BY <1>0, <1>13 DEF Restart, VersionsOK, nodeVars
<1>14. ASSUME Beat \/ Notice \/ Disconnect \/ UNCHANGED vars PROVE VersionsOK'
  BY <1>14 DEF Beat, Notice, Disconnect, VersionsOK, vars, actorVars, connVars, nodeVars
<1> QED
  BY <1>1, <1>2, <1>3, <1>4, <1>5, <1>6, <1>7, <1>8, <1>9, <1>10, <1>11, <1>12, <1>13, <1>14
  DEF Next

-----------------------------------------------------------------------------
(* Pushes.                                                                 *)

\* Connection c could be sent the desired release and has not been.
Waits(c) ==
  /\ hub = c /\ ~dead[c]
  /\ row.desired = release /\ NeedsUpdate(running, release) /\ ~cut
  /\ row.desired \notin sent[c]

\* Actor a is about to send it over c.
Carries(a, c) ==
  \/ pc[a] = "closing" /\ a = c
  \/ pc[a] = "push"
  \/ pc[a] \in {"match", "find"} /\ aim[a] = row.desired
  \/ pc[a] = "send" /\ aim[a] = row.desired /\ held[a] = c

PushOK == \A c \in Conns : Waits(c) => \E a \in Actors : Carries(a, c)

\* Steps that change neither what a connection waits for nor who carries it.
LEMMA PushUndisturbed ==
  ASSUME PushOK,
         \A c \in Conns : Waits(c)' => Waits(c),
         \A c \in Conns, a \in Actors : Waits(c)' /\ Carries(a, c) => Carries(a, c)'
  PROVE  PushOK'
<1> SUFFICES ASSUME NEW c \in Conns, Waits(c)' PROVE \E a \in Actors : Carries(a, c)'
  BY DEF PushOK
<1>1. PICK a \in Actors : Carries(a, c)
  BY DEF PushOK
<1> QED
  BY <1>1

LEMMA HandlePush ==
  ASSUME TypeOK, VersionsOK, PushOK, NEW c \in Conns, Handle(c)
  PROVE  PushOK'
<1>0. /\ pc \in [Actors -> HandlerLabels \cup AdminLabels]
      /\ aim \in [Actors -> Versions] /\ held \in [Actors -> MaybeConn]
      /\ dead \in [Conns -> BOOLEAN]
      /\ Conns \subseteq Actors /\ c \in Actors /\ c # NoConn
  BY DEF TypeOK, ActorsOK, ConnsOK, Actors
<1> USE DEF Waits, Carries
<1>1. ASSUME Hello(c) \/ NoHello(c) \/ Seen(c) \/ Heartbeat(c) \/ ReadFails(c) PROVE PushOK'
  <2>1. /\ pc[c] \in {"hello", "seen", "loop"}
        /\ UNCHANGED <<hub, release, running, cut, sent>> /\ row'.desired = row.desired
        /\ \A e \in Conns : dead[e] => dead'[e]
        /\ \A a \in Actors : a # c => pc'[a] = pc[a] /\ aim'[a] = aim[a] /\ held'[a] = held[a]
    BY <1>0, <1>1 DEF Hello, NoHello, Seen, Heartbeat, ReadFails, GoTo, MarkSeen, Row,
                nodeVars, connVars, actorVars
  <2> QED BY <2>1, PushUndisturbed
<1>2. ASSUME RegisterSocket(c) PROVE PushOK'
  <2>1. hub' = c /\ pc'[c] \in {"push", "closing"}
    BY <1>0, <1>2 DEF RegisterSocket, GoTo
  <2> QED BY <1>0, <2>1 DEF PushOK
<1>3. ASSUME CloseOld(c) PROVE PushOK'
  <2>1. /\ pc'[c] = "push"
        /\ UNCHANGED <<hub, release, row, running, cut, sent>>
        /\ \A e \in Conns : dead[e] => dead'[e]
        /\ \A a \in Actors : a # c => pc'[a] = pc[a] /\ aim'[a] = aim[a] /\ held'[a] = held[a]
    BY <1>0, <1>3 DEF CloseOld, GoTo, nodeVars
  <2> QED BY <2>1, PushUndisturbed
<1>4. ASSUME Leave(c) PROVE PushOK'
  <2>1. /\ pc[c] = "leave" /\ hub' \in {hub, NoConn}
        /\ UNCHANGED <<release, row, running, cut, sent>>
        /\ \A e \in Conns : dead[e] => dead'[e]
        /\ \A a \in Actors : a # c => pc'[a] = pc[a] /\ aim'[a] = aim[a] /\ held'[a] = held[a]
    BY <1>0, <1>4 DEF Leave, UnregisterSocket, GoTo, nodeVars
  <2> QED BY <2>1, PushUndisturbed
<1> QED
  BY <1>1, <1>2, <1>3, <1>4 DEF Handle

\* A pusher does not drop what a connection still waits for.
LEMMA PushPush ==
  ASSUME TypeOK, VersionsOK, PushOK, NEW a \in Actors, Push(a)
  PROVE  PushOK'
<1>0. /\ pc \in [Actors -> HandlerLabels \cup AdminLabels]
      /\ aim \in [Actors -> Versions] /\ held \in [Actors -> MaybeConn]
      /\ sent \in [Conns -> SUBSET Versions]
      /\ row.agent \in Nat /\ row.desired \in Nat /\ running \in Nat
  BY DEF TypeOK, ActorsOK, ConnsOK, NodeRow, Versions
<1>1. /\ UNCHANGED <<hub, release, row, running, cut, dead>>
      /\ \A b \in Actors : b # a => pc'[b] = pc[b] /\ aim'[b] = aim[b] /\ held'[b] = held[b]
      /\ \A c \in Conns : sent[c] \subseteq sent'[c]
  BY <1>0 DEF Push, PushRead, PushMatch, PushFind, PushSend, AfterPush, GoTo, nodeVars, connVars
<1>2. \A c \in Conns : Waits(c)' => Waits(c)
  BY <1>1 DEF Waits
<1>3. ASSUME NEW c \in Conns, Waits(c)', Carries(a, c) PROVE Carries(a, c)'
  <2>1. CASE PushRead(a)
    <3>1. NeedsUpdate(row.agent, row.desired)
      BY <1>0, <1>2, <1>3 DEF VersionsOK, Waits, NeedsUpdate
    <3> QED BY <1>0, <2>1, <3>1 DEF PushRead, GoTo, Carries
  <2>2. CASE PushMatch(a)
    BY <1>0, <1>2, <1>3, <2>2 DEF PushMatch, GoTo, Carries, Waits
  <2>3. CASE PushFind(a)
    <3>1. hub = c /\ hub # NoConn
      BY <1>2, <1>3 DEF Waits
    <3> QED BY <1>0, <1>3, <2>3, <3>1 DEF PushFind, GoTo, Carries
  <2>4. CASE PushSend(a)
    <3>1. held[a] = c /\ aim[a] = row.desired
      BY <1>3, <2>4 DEF PushSend, Carries
    <3>2. row.desired \in sent'[c]
      BY <1>0, <1>2, <1>3, <2>4, <3>1 DEF PushSend, Waits
    <3> QED BY <1>1, <1>3, <3>2 DEF Waits
  <2> QED BY <2>1, <2>2, <2>3, <2>4 DEF Push
<1>4. ASSUME NEW c \in Conns, NEW b \in Actors, Waits(c)', Carries(b, c), b # a
      PROVE  Carries(b, c)'
  BY <1>1, <1>4 DEF Carries
<1> QED
  BY <1>2, <1>3, <1>4, PushUndisturbed

LEMMA AdminPush ==
  ASSUME TypeOK, PushOK, NEW u \in Admins, RequestUpdate(u) \/ RequestNodeUpdate(u) \/ Abort(u)
  PROVE  PushOK'
<1>0. /\ pc \in [Actors -> HandlerLabels \cup AdminLabels]
      /\ aim \in [Actors -> Versions] /\ held \in [Actors -> MaybeConn]
      /\ u \in Actors
  BY DEF TypeOK, ActorsOK, Actors
<1>1. UNCHANGED <<hub, release, running, sent, dead>>
  BY DEF RequestUpdate, RequestNodeUpdate, Abort, nodeVars, connVars
<1>2. \A a \in Actors : a # u => pc'[a] = pc[a] /\ aim'[a] = aim[a] /\ held'[a] = held[a]
  BY <1>0 DEF RequestUpdate, RequestNodeUpdate, Abort, AfterPush, GoTo
<1> USE DEF Waits, Carries
<1>3. ASSUME RequestUpdate(u) PROVE PushOK'
  <2>1. pc[u] = "idle" /\ UNCHANGED <<row, cut>>
    BY <1>3 DEF RequestUpdate
  <2> QED BY <1>1, <1>2, <2>1, PushUndisturbed
<1>4. ASSUME RequestNodeUpdate(u), row.revoked PROVE PushOK'
  <2>1. pc[u] = "write" /\ UNCHANGED <<row, cut>>
    BY <1>4 DEF RequestNodeUpdate
  <2> QED BY <1>1, <1>2, <2>1, PushUndisturbed
<1>5. ASSUME RequestNodeUpdate(u), ~row.revoked PROVE PushOK'
  <2>1. pc'[u] = "push"
    BY <1>0, <1>5 DEF RequestNodeUpdate, GoTo
  <2> QED BY <1>0, <2>1 DEF PushOK
<1>6. ASSUME Abort(u) PROVE PushOK'
  <2>1. UNCHANGED row /\ (cut' = (cut \/ pc[u] # "write"))
    BY <1>6 DEF Abort
  <2> QED BY <1>1, <1>2, <2>1, PushUndisturbed
<1> QED
  BY <1>3, <1>4, <1>5, <1>6

LEMMA PushStep == TypeOK /\ VersionsOK /\ PushOK /\ [Next]_vars => PushOK'
<1> SUFFICES ASSUME TypeOK, VersionsOK, PushOK, [Next]_vars PROVE PushOK'
  OBVIOUS
<1>0. /\ pc \in [Actors -> HandlerLabels \cup AdminLabels]
      /\ aim \in [Actors -> Versions] /\ held \in [Actors -> MaybeConn]
      /\ dead \in [Conns -> BOOLEAN] /\ sent \in [Conns -> SUBSET Versions]
      /\ release \in Nat /\ running \in Nat /\ told \in Nat /\ row.desired \in Nat
      /\ Conns \subseteq Actors
  BY DEF TypeOK, ActorsOK, ConnsOK, NodeRow, Versions, Actors
<1>1. ASSUME \/ \E b \in BOOLEAN : SetNodeRevoked(b)
             \/ \E v \in Versions : UpdateReport(v)
             \/ MarkOffline \/ Beat \/ HandleUpdateCommand \/ Notice
             \/ SendReport \/ RunUpdate \/ Disconnect \/ UNCHANGED vars
      PROVE  PushOK'
  <2>1. /\ UNCHANGED <<hub, release, cut, dead, sent, pc, aim, held>>
        /\ row'.desired = row.desired
    BY <1>1 DEF SetNodeRevoked, UpdateReport, MarkOffline, Beat, HandleUpdateCommand, Notice,
                SendReport, RunUpdate, Disconnect, MarkSeen, Row, vars, actorVars, connVars
  <2>2. NeedsUpdate(running', release) => NeedsUpdate(running, release)
    <3>1. running' = running \/ RunUpdate
      BY <1>1 DEF SetNodeRevoked, UpdateReport, MarkOffline, Beat, HandleUpdateCommand, Notice,
                  SendReport, Disconnect, vars, nodeVars
    <3>2. CASE RunUpdate
      <4>1. running' \in Nat /\ running <= running'
        BY <1>0, <3>2 DEF RunUpdate, VersionsOK
      <4> QED BY <1>0, <4>1 DEF NeedsUpdate
    <3> QED BY <3>1, <3>2
  <2> QED BY <2>1, <2>2, PushUndisturbed DEF Waits, Carries
<1>2. ASSUME NEW c \in Conns, Dial(c) PROVE PushOK'
  <2>1. /\ pc[c] = "free" /\ hub # c /\ UNCHANGED <<hub, release, row, cut, running>>
        /\ \A e \in Conns : e # c => dead'[e] = dead[e] /\ sent'[e] = sent[e]
        /\ \A a \in Actors : a # c => pc'[a] = pc[a] /\ aim'[a] = aim[a] /\ held'[a] = held[a]
    BY <1>0, <1>2 DEF Dial, Unused, GoTo
  <2> QED BY <2>1, PushUndisturbed DEF Waits, Carries
<1>3. ASSUME Publish PROVE PushOK'
  <2>1. release' = release + 1 /\ row' = row
    BY <1>3 DEF Publish
  <2> QED BY <1>0, <2>1 DEF PushOK, Waits, VersionsOK
<1>4. ASSUME Restart PROVE PushOK'
  BY <1>4 DEF Restart, PushOK, Waits
<1>5. ASSUME NEW c \in Conns, Handle(c) PROVE PushOK'
  BY <1>5, HandlePush
<1>6. ASSUME NEW a \in Actors, Push(a) PROVE PushOK'
  BY <1>6, PushPush
<1>7. ASSUME NEW u \in Admins, RequestUpdate(u) \/ RequestNodeUpdate(u) \/ Abort(u) PROVE PushOK'
  BY <1>7, AdminPush
<1> QED
  BY <1>1, <1>2, <1>3, <1>4, <1>5, <1>6, <1>7 DEF Next

LEMMA PushInit == Init => VersionsOK /\ PushOK
<1> SUFFICES ASSUME Init PROVE VersionsOK /\ PushOK
  OBVIOUS
<1>1. release \in Nat /\ running \in Nat
  BY DEF Init, Versions
<1>2. VersionsOK
  BY <1>1 DEF Init, VersionsOK, Row, Actors
<1>3. PushOK
  BY DEF Init, PushOK, Waits
<1> QED
  BY <1>2, <1>3

\* PushIsNotLost is an invariant: for any number of administrators, connections
\* and versions, an update that a connected node should have been sent was sent.
THEOREM PushCorrect == Spec => []PushIsNotLost
<1>1. TypeOK /\ PushOK => PushIsNotLost
  <2> SUFFICES ASSUME TypeOK, PushOK, NEW c \in Conns,
                      hub = c, ~dead[c], pc[c] = "loop",
                      row.desired = release, NeedsUpdate(running, release), ~cut,
                      \A a \in Actors : pc[a] \notin {"push", "match", "find", "send"},
                      row.desired \notin sent[c]
               PROVE  FALSE
    BY DEF PushIsNotLost
  <2>1. PICK a \in Actors : Carries(a, c)
    BY DEF PushOK, Waits
  <2> QED BY <2>1 DEF Carries
<1>2. TypeOK /\ VersionsOK /\ PushOK /\ [Next]_vars => VersionsOK' /\ PushOK'
  BY VersionsStep, PushStep
<1> QED
  BY <1>1, <1>2, PushInit, TypeCorrect, PTL DEF Spec
=============================================================================
