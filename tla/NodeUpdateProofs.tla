--------------------------- MODULE NodeUpdateProofs ---------------------------
(***************************************************************************)
(* What TLAPS proves about NodeUpdate: types, that a pending update has a  *)
(* request file, and that NodeUpdate implements Upgrade.                   *)
(***************************************************************************)
EXTENDS NodeUpdate, TLAPS

USE ConstantsAssumption

LEMMA SmallFacts ==
  /\ 0 \in Versions /\ Releases \subseteq Versions /\ Versions \subseteq Int
  /\ NoMessage \in Message /\ Off \in Updater
  /\ Registered = {"push", "loop", "mark", "report"}
BY DEF Versions, NoMessage, Says, Message, Statuses, Off, At, Updater, Registered

LEMMA TypeInit == Init => TypeOK
<1> SUFFICES ASSUME Init PROVE TypeOK
  OBVIOUS
<1>1. row \in NodeRow /\ file \in File
  BY SmallFacts DEF Init, NodeRow, Row, Statuses, File, Entry
<1>2. inbox \in [Conns -> Seq(Message)] /\ commands \in Seq(Versions)
  BY DEF Init
<1>3. msg \in [Conns -> Message] /\ updater \in Updater
  BY SmallFacts DEF Init
<1>4. pc \in [Conns -> {"free", "hello", "seen"} \cup Registered]
  BY DEF Init
<1> QED BY <1>1, <1>2, <1>3, <1>4, SmallFacts DEF Init, TypeOK

\* A message that is sent joins the inbox of the node's connection.
LEMMA SendType ==
  ASSUME TypeOK, NEW m \in Message, Send(m)
  PROVE  inbox' \in [Conns -> Seq(Message)]
<1>1. inbox \in [Conns -> Seq(Message)]
  BY DEF TypeOK
<1>2. CASE link \in Conns
  <2>1. Append(inbox[link], m) \in Seq(Message)
    BY <1>1, <1>2
  <2> QED BY <1>1, <2>1 DEF Send
<1>3. CASE link \notin Conns
  BY <1>1, <1>3 DEF Send
<1> QED BY <1>2, <1>3

LEMMA SaysType ==
  ASSUME NEW v \in Versions, NEW s \in Statuses, NEW t \in {"hello", "heartbeat", "update_status"}
  PROVE  Says(t, v, s) \in Message
BY DEF Says, Message

LEMMA PushType ==
  ASSUME TypeOK, Push
  PROVE  commands' \in Seq(Versions)
BY DEF Push, TypeOK

\* The first message of a queue, and what is left without it.
LEMMA HeadTail ==
  ASSUME NEW S, NEW q \in Seq(S), q # <<>>
  PROVE  Head(q) \in S /\ Tail(q) \in Seq(S)
OBVIOUS

LEMMA HandleType ==
  ASSUME TypeOK, NEW c \in Conns, Handle(c)
  PROVE  TypeOK'
<1>1. /\ \A r \in NodeRow : r.agent \in Versions /\ r.desired \in Versions /\ r.status \in Statuses
      /\ \A m \in Message : m.version \in Versions /\ m.status \in Statuses
      /\ row \in NodeRow /\ msg[c] \in Message /\ inbox[c] \in Seq(Message)
  BY DEF TypeOK, NodeRow, Message
<1>2. ASSUME NEW label \in {"free", "hello", "seen"} \cup Registered, NEW m \in Message,
             GoTo(c, label, m)
      PROVE  /\ pc' \in [Conns -> {"free", "hello", "seen"} \cup Registered]
             /\ msg' \in [Conns -> Message]
  BY <1>2 DEF GoTo, TypeOK
<1>3. CASE ReadSeen(c)
  <2>1. Head(inbox[c]) \in Message /\ Tail(inbox[c]) \in Seq(Message)
    BY <1>1, <1>3, HeadTail DEF ReadSeen
  <2>2. \A m \in Message : Decided(m) \in Message
    BY DEF Decided, Message
  <2>3. pc' \in [Conns -> {"free", "hello", "seen"} \cup Registered] /\ msg' \in [Conns -> Message]
    BY <1>2, <1>3, <2>1, <2>2, SmallFacts DEF ReadSeen
  <2>4. inbox' \in [Conns -> Seq(Message)]
    BY <1>3, <2>1 DEF ReadSeen, TypeOK
  <2> QED BY <1>3, <2>3, <2>4 DEF ReadSeen, TypeOK, agentVars, updateVars
<1>4. CASE ReadStatus(c)
  <2>1. Head(inbox[c]) \in Message /\ Tail(inbox[c]) \in Seq(Message)
    BY <1>1, <1>4, HeadTail DEF ReadStatus
  <2>2. pc' \in [Conns -> {"free", "hello", "seen"} \cup Registered] /\ msg' \in [Conns -> Message]
    BY <1>2, <1>4, <2>1, SmallFacts DEF ReadStatus
  <2>3. inbox' \in [Conns -> Seq(Message)]
    BY <1>4, <2>1 DEF ReadStatus, TypeOK
  <2> QED BY <1>4, <2>2, <2>3 DEF ReadStatus, TypeOK, agentVars, updateVars
<1>5. CASE MarkNodeSeen(c)
  <2>1. row' \in NodeRow
    BY <1>1, <1>5 DEF MarkNodeSeen, Row, NodeRow, Statuses
  <2>2. pc' \in [Conns -> {"free", "hello", "seen"} \cup Registered] /\ msg' \in [Conns -> Message]
    BY <1>1, <1>2, <1>5, SmallFacts DEF MarkNodeSeen
  <2> QED BY <1>5, <2>1, <2>2 DEF MarkNodeSeen, TypeOK, agentVars, updateVars
<1>6. CASE UpdateNodeReport(c)
  <2>1. row' \in NodeRow
    BY <1>1, <1>6 DEF UpdateNodeReport, Row, NodeRow
  <2>2. pc' \in [Conns -> {"free", "hello", "seen"} \cup Registered] /\ msg' \in [Conns -> Message]
    BY <1>2, <1>6, SmallFacts DEF UpdateNodeReport
  <2> QED BY <1>6, <2>1, <2>2 DEF UpdateNodeReport, TypeOK, agentVars, updateVars
<1>7. CASE PushAtHello(c)
  <2>1. pc' \in [Conns -> {"free", "hello", "seen"} \cup Registered] /\ msg' \in [Conns -> Message]
    BY <1>2, <1>7, SmallFacts DEF PushAtHello
  <2> QED BY <1>7, <2>1, PushType DEF PushAtHello, TypeOK, updateVars
<1>8. CASE Leave(c)
  <2>1. pc' \in [Conns -> {"free", "hello", "seen"} \cup Registered] /\ msg' \in [Conns -> Message]
    BY <1>2, <1>8, SmallFacts DEF Leave
  <2>2. inbox' \in [Conns -> Seq(Message)]
    BY <1>8 DEF Leave, TypeOK
  <2> QED BY <1>8, <2>1, <2>2 DEF Leave, TypeOK, agentVars, updateVars
<1> QED BY <1>3, <1>4, <1>5, <1>6, <1>7, <1>8 DEF Handle

LEMMA AgentType ==
  ASSUME TypeOK, Agent \/ (\E c \in Conns : Dial(c))
  PROVE  TypeOK'
<1>1. /\ file.status \in Statuses /\ running \in Versions /\ "none" \in Statuses
      /\ "requested" \in Statuses /\ commands \in Seq(Versions) /\ accepting \in Versions
  BY DEF TypeOK, File, Statuses
<1>2. ASSUME NEW c \in Conns, Dial(c) PROVE TypeOK'
  <2>1. Says("hello", running, "none") \in Message
        /\ Says("update_status", running, file.status) \in Message
    BY <1>1, SaysType
  <2>2. inbox' \in [Conns -> Seq(Message)]
    BY <1>2, <2>1 DEF Dial, TypeOK
  <2> QED BY <1>2, <2>2, SmallFacts DEF Dial, TypeOK, updateVars
<1>3. CASE Beat
  <2>1. Says("heartbeat", running, file.status) \in Message
    BY <1>1, SaysType
  <2> QED BY <1>3, <2>1, SendType DEF Beat, TypeOK, agentVars, updateVars
<1>4. CASE Decline
  <2>1. Says("update_status", running, "requested") \in Message
    BY <1>1, SaysType
  <2>2. Tail(commands) \in Seq(Versions)
    BY <1>1, <1>4, HeadTail DEF Decline
  <2> QED BY <1>4, <2>1, <2>2, SendType DEF Decline, TypeOK, updateVars
<1>5. CASE Accept
  <2>1. Head(commands) \in Versions /\ Tail(commands) \in Seq(Versions)
    BY <1>1, <1>5, HeadTail DEF Accept
  <2>2. file' \in File
    BY <1>1, <1>5, <2>1 DEF Accept, Entry, File
  <2> QED BY <1>5, <2>1, <2>2 DEF Accept, TypeOK, handlerVars
<1>6. CASE WriteUpdateRequest
  <2>1. Says("update_status", running, "requested") \in Message
    BY <1>1, SaysType
  <2>2. inbox' \in [Conns -> Seq(Message)]
    BY <1>6, <2>1, SendType DEF WriteUpdateRequest, TypeOK
  <2> QED BY <1>1, <1>6, <2>2, SmallFacts DEF WriteUpdateRequest, TypeOK
<1> QED BY <1>2, <1>3, <1>4, <1>5, <1>6 DEF Agent

LEMMA StartAgentType ==
  ASSUME TypeOK, StartAgent
  PROVE  /\ running' \in Versions /\ link' \in Conns \cup {NoConn}
         /\ commands' \in Seq(Versions) /\ accepting' \in Versions /\ lost' \in BOOLEAN
BY SmallFacts DEF StartAgent, TypeOK

LEMMA UpdateType ==
  ASSUME TypeOK, Update
  PROVE  TypeOK'
<1>1. /\ updater.code \in Versions /\ updater.target \in Versions
      /\ binary \in Versions /\ request \in Versions
  BY DEF TypeOK, Updater
<1>2. \A label \in {"validate", "fetch", "install", "report", "failed", "succeeded", "restart"},
         code \in Versions, target \in Versions : At(label, code, target) \in Updater
  BY DEF At, Updater
<1>3. ASSUME NEW label \in {"validate", "fetch", "install", "report", "failed", "succeeded"},
             NEW status \in Statuses, GoOn(label, status), UNCHANGED binary
      PROVE  TypeOK'
  <2>1. updater' \in Updater /\ file' \in File
    BY <1>1, <1>2, <1>3 DEF GoOn, Entry, File
  <2> QED BY <1>3, <2>1 DEF GoOn, TypeOK, handlerVars, agentVars
<1>4. CASE StartUpdater
  BY <1>1, <1>2, <1>4 DEF StartUpdater, TypeOK, handlerVars, agentVars
<1>5. CASE Validate \/ UpdateFails \/ ReportSuccess
  BY <1>3, <1>5 DEF Validate, UpdateFails, ReportSuccess, Statuses
<1>6. CASE FetchNodeRelease \/ ReplaceBinary
  BY <1>1, <1>2, <1>6 DEF FetchNodeRelease, ReplaceBinary, TypeOK, handlerVars, agentVars
<1>7. CASE RemoveRequest
  <2>1. updater' \in Updater
    BY <1>1, <1>2, <1>7, SmallFacts DEF RemoveRequest
  <2> QED BY <1>7, <2>1, SmallFacts DEF RemoveRequest, TypeOK, handlerVars, agentVars
<1>8. CASE RestartNodeService
  BY <1>8, StartAgentType, SmallFacts DEF RestartNodeService, TypeOK, handlerVars
<1> QED BY <1>4, <1>5, <1>6, <1>7, <1>8 DEF Update

LEMMA FaultType ==
  ASSUME TypeOK,
         SaveFails \/ KillUpdater \/ CrashAgent \/ Reboot \/ Disconnect \/ RestartController
  PROVE  TypeOK'
<1>1. faults + 1 \in Nat
  BY DEF TypeOK
<1> USE <1>1 DEF Fault
<1>2. CASE SaveFails
  <2>1. Says("update_status", running, "failed") \in Message
    BY SaysType DEF TypeOK, Statuses
  <2>2. inbox' \in [Conns -> Seq(Message)]
    BY <1>2, <2>1, SendType DEF SaveFails, TypeOK
  <2>3. At("failed", updater.code, updater.target) \in Updater
    BY DEF At, Updater, TypeOK
  <2>4. commands' \in Seq(Versions)
    <3>0. commands \in Seq(Versions)
      BY DEF TypeOK
    <3>1. commands # <<>> => Tail(commands) \in Seq(Versions)
      BY <3>0, HeadTail
    <3>2. commands' = commands \/ (commands # <<>> /\ commands' = Tail(commands))
      BY <1>2 DEF SaveFails
    <3> QED BY <3>0, <3>1, <3>2
  <2>5. accepting' \in Versions /\ updater' \in Updater /\ lost' \in BOOLEAN /\ link' = link
    BY <1>2, <2>3, SmallFacts DEF SaveFails, TypeOK
  <2> QED BY <1>2, <2>2, <2>4, <2>5 DEF SaveFails, TypeOK
<1>3. CASE KillUpdater
  BY <1>3, SmallFacts DEF KillUpdater, TypeOK, handlerVars, agentVars
<1>4. CASE CrashAgent
  BY <1>4, StartAgentType DEF CrashAgent, TypeOK, handlerVars
<1>5. CASE Reboot
  BY <1>5, StartAgentType, SmallFacts DEF Reboot, TypeOK, handlerVars
<1>6. CASE Disconnect
  BY <1>6, SmallFacts DEF Disconnect, TypeOK, handlerVars, updateVars
<1>7. CASE RestartController
  <2>1. inbox' \in [Conns -> Seq(Message)] /\ commands' \in Seq(Versions)
    BY <1>7 DEF RestartController
  <2>2. msg' \in [Conns -> Message]
    BY <1>7, SmallFacts DEF RestartController
  <2>3. pc' \in [Conns -> {"free", "hello", "seen"} \cup Registered]
    BY <1>7 DEF RestartController
  <2> QED BY <1>7, <2>1, <2>2, <2>3, SmallFacts DEF RestartController, TypeOK, updateVars
<1> QED BY <1>2, <1>3, <1>4, <1>5, <1>6, <1>7

LEMMA RequestType ==
  ASSUME TypeOK, (\E v \in Releases : Publish(v)) \/ RequestNodeUpdate \/ PushRequested
  PROVE  TypeOK'
<1>1. edits + 1 \in Nat /\ row \in NodeRow
  BY DEF TypeOK
<1>2. CASE \E v \in Releases : Publish(v)
  BY <1>1, <1>2, SmallFacts DEF Publish, Edit, TypeOK, handlerVars, agentVars, updateVars
<1>3. CASE RequestNodeUpdate
  <2>1. row' \in NodeRow
    BY <1>1, <1>3 DEF RequestNodeUpdate, Row, NodeRow, Statuses, TypeOK
  <2> QED BY <1>1, <1>3, <2>1 DEF RequestNodeUpdate, Edit, TypeOK, handlerVars, agentVars, updateVars
<1>4. CASE PushRequested
  BY <1>4, PushType DEF PushRequested, TypeOK, handlerVars, updateVars
<1> QED BY <1>2, <1>3, <1>4

LEMMA TypeStep == TypeOK /\ [Next]_vars => TypeOK'
<1> SUFFICES ASSUME TypeOK, [Next]_vars PROVE TypeOK'
  OBVIOUS
<1>1. CASE UNCHANGED vars
  BY <1>1 DEF vars, TypeOK, handlerVars, agentVars, updateVars
<1> QED BY <1>1, HandleType, AgentType, UpdateType, FaultType, RequestType DEF Next

\* TypeOK is an invariant, for any connections, versions and bounds.
THEOREM TypeCorrect == Spec => []TypeOK
BY TypeInit, TypeStep, PTL DEF Spec

-----------------------------------------------------------------------------
(* A pending update has a request file.                                    *)

\* Until the updater has an outcome, nobody removes its request; afterwards the
\* status file says the outcome, unless the agent accepted the next command.
UpdaterKeepsRequest ==
  /\ updater.pc \in {"validate", "fetch", "install", "report"} => request # 0
  /\ updater.pc \in {"failed", "succeeded"} /\ file.status \in {"requested", "running"} =>
       accepting # 0 \/ lost

PendingInv == PendingHasRequest /\ UpdaterKeepsRequest

LEMMA PendingUpdate ==
  ASSUME PendingInv, Update
  PROVE  PendingInv'
<1> USE DEF PendingInv, PendingHasRequest, UpdaterKeepsRequest
<1>1. CASE StartUpdater
  BY <1>1 DEF StartUpdater, At, agentVars
<1>2. CASE Validate \/ UpdateFails \/ ReportSuccess
  BY <1>2 DEF Validate, UpdateFails, ReportSuccess, GoOn, At, Entry, agentVars
<1>3. CASE FetchNodeRelease \/ ReplaceBinary
  BY <1>3 DEF FetchNodeRelease, ReplaceBinary, At, agentVars
<1>4. CASE RemoveRequest
  BY <1>4 DEF RemoveRequest, At, Off, agentVars
<1>5. CASE RestartNodeService
  BY <1>5 DEF RestartNodeService, StartAgent, At, Off
<1> QED BY <1>1, <1>2, <1>3, <1>4, <1>5 DEF Update

LEMMA PendingAgent ==
  ASSUME PendingInv, Agent
  PROVE  PendingInv'
<1> USE DEF PendingInv, PendingHasRequest, UpdaterKeepsRequest
<1>1. CASE Beat \/ Decline
  BY <1>1 DEF Beat, Decline, agentVars, updateVars
<1>2. CASE Accept
  BY <1>2 DEF Accept, NeedsUpdate
<1>3. CASE WriteUpdateRequest
  BY <1>3 DEF WriteUpdateRequest
<1> QED BY <1>1, <1>2, <1>3 DEF Agent

LEMMA PendingFault ==
  ASSUME PendingInv,
         SaveFails \/ KillUpdater \/ CrashAgent \/ Reboot \/ Disconnect \/ RestartController
  PROVE  PendingInv'
<1> USE DEF PendingInv, PendingHasRequest, UpdaterKeepsRequest
<1>1. CASE SaveFails
  BY <1>1 DEF SaveFails, At
<1>2. CASE KillUpdater
  BY <1>2 DEF KillUpdater, Off, At, agentVars
<1>3. CASE CrashAgent
  BY <1>3 DEF CrashAgent, StartAgent
<1>4. CASE Reboot
  BY <1>4 DEF Reboot, StartAgent, Off, At
<1>5. CASE Disconnect \/ RestartController
  BY <1>5 DEF Disconnect, RestartController, updateVars
<1> QED BY <1>1, <1>2, <1>3, <1>4, <1>5

\* What requests and the handlers of connections leave alone.
LEMMA ControllerLeavesNode ==
  ASSUME \/ (\E v \in Releases : Publish(v)) \/ RequestNodeUpdate \/ PushRequested
         \/ \E c \in Conns : Handle(c) \/ Dial(c)
  PROVE  UNCHANGED <<running, accepting, updateVars>>
<1>1. ASSUME NEW c \in Conns, Handle(c) \/ Dial(c)
      PROVE  UNCHANGED <<running, accepting, updateVars>>
  BY <1>1 DEF Handle, ReadSeen, ReadStatus, MarkNodeSeen, UpdateNodeReport, PushAtHello, Leave,
              Dial, agentVars, updateVars
<1>2. ASSUME (\E v \in Releases : Publish(v)) \/ RequestNodeUpdate \/ PushRequested
      PROVE  UNCHANGED <<running, accepting, updateVars>>
  BY <1>2 DEF Publish, RequestNodeUpdate, PushRequested, agentVars, updateVars
<1> QED BY <1>1, <1>2

LEMMA PendingStep == PendingInv /\ [Next]_vars => PendingInv'
<1> SUFFICES ASSUME PendingInv, [Next]_vars PROVE PendingInv'
  OBVIOUS
<1>1. ASSUME UNCHANGED <<running, accepting, updateVars>> PROVE PendingInv'
  BY <1>1 DEF PendingInv, PendingHasRequest, UpdaterKeepsRequest, updateVars
<1>2. CASE UNCHANGED vars
  BY <1>1, <1>2 DEF vars, agentVars
<1> QED
  BY <1>1, <1>2, PendingUpdate, PendingAgent, PendingFault, ControllerLeavesNode DEF Next

\* PendingHasRequest is an invariant, for any connections, versions and bounds:
\* no crash of agent, updater or machine leaves a pending update without its
\* request file.
THEOREM PendingCorrect == Spec => []PendingHasRequest
<1>1. Init => PendingInv
  BY DEF Init, PendingInv, PendingHasRequest, UpdaterKeepsRequest, Entry, Off, At
<1>2. PendingInv => PendingHasRequest
  BY DEF PendingInv
<1> QED BY <1>1, <1>2, PendingStep, PTL DEF Spec

-----------------------------------------------------------------------------
(* NodeUpdate implements Upgrade.                                          *)

\* While the updater runs nobody else replaces the binary, so that what it
\* compared with its own version still holds when it installs.
UpdaterIsOlder ==
  /\ updater.pc \in {"validate", "fetch", "install"} => updater.code = binary
  /\ updater.pc \in {"fetch", "install"} => NeedsUpdate(updater.code, updater.target)

LEMMA OlderStep == UpdaterIsOlder /\ [Next]_vars => UpdaterIsOlder'
<1> SUFFICES ASSUME UpdaterIsOlder, [Next]_vars PROVE UpdaterIsOlder'
  OBVIOUS
<1> USE DEF UpdaterIsOlder, NeedsUpdate, At, Off
<1>1. ASSUME UNCHANGED <<updater, binary>> PROVE UpdaterIsOlder'
  BY <1>1
<1>2. CASE Agent \/ CrashAgent \/ Disconnect \/ RestartController
  BY <1>1, <1>2 DEF Agent, Beat, Decline, Accept, WriteUpdateRequest, CrashAgent, Disconnect,
                    RestartController, updateVars
<1>3. CASE SaveFails \/ KillUpdater \/ Reboot
  BY <1>3 DEF SaveFails, KillUpdater, Reboot
<1>4. CASE StartUpdater \/ Validate \/ UpdateFails \/ ReportSuccess
  BY <1>4 DEF StartUpdater, Validate, UpdateFails, ReportSuccess, GoOn
<1>5. CASE FetchNodeRelease \/ ReplaceBinary \/ RemoveRequest \/ RestartNodeService
  BY <1>5 DEF FetchNodeRelease, ReplaceBinary, RemoveRequest, RestartNodeService
<1>6. CASE UNCHANGED vars
  BY <1>1, <1>6 DEF vars, updateVars
<1>7. ASSUME UNCHANGED updateVars PROVE UpdaterIsOlder'
  BY <1>1, <1>7 DEF updateVars
<1> QED
  BY <1>2, <1>3, <1>4, <1>5, <1>6, <1>7, ControllerLeavesNode DEF Next, Update

\* What the promise is about.
Promised == <<release, binary, running>>

LEMMA ImplementsStep ==
  TypeOK /\ UpdaterIsOlder /\ [Next]_vars => [Promise!Next]_Promised
<1> SUFFICES ASSUME TypeOK, UpdaterIsOlder, [Next]_vars PROVE [Promise!Next]_Promised
  OBVIOUS
<1> USE DEF Promised
<1>1. CASE Agent \/ SaveFails \/ KillUpdater \/ Disconnect \/ RestartController
  BY <1>1 DEF Agent, Beat, Decline, Accept, WriteUpdateRequest, SaveFails, KillUpdater,
              Disconnect, RestartController, agentVars, updateVars
<1>2. CASE CrashAgent \/ Reboot \/ RestartNodeService
  BY <1>2 DEF CrashAgent, Reboot, RestartNodeService, StartAgent, Promise!Next, Promise!Start
<1>3. CASE StartUpdater \/ Validate \/ UpdateFails \/ ReportSuccess \/ FetchNodeRelease \/ RemoveRequest
  BY <1>3 DEF StartUpdater, Validate, UpdateFails, ReportSuccess, GoOn, FetchNodeRelease,
              RemoveRequest, agentVars
<1>4. CASE ReplaceBinary
  <2>1. release > binary
    BY <1>4, SmallFacts DEF ReplaceBinary, UpdaterIsOlder, NeedsUpdate, TypeOK
  <2> QED BY <1>4, <2>1 DEF ReplaceBinary, agentVars, Promise!Next, Promise!Install
<1>5. ASSUME NEW v \in Releases, Publish(v) PROVE Promise!Offer
  BY <1>5, SmallFacts DEF Publish, agentVars, updateVars, Promise!Offer, Promise!Versions, Versions
<1>6. ASSUME RequestNodeUpdate \/ PushRequested PROVE UNCHANGED Promised
  BY <1>6 DEF RequestNodeUpdate, PushRequested, agentVars, updateVars
<1>7. ASSUME NEW c \in Conns, Handle(c) \/ Dial(c) PROVE UNCHANGED Promised
  BY <1>7 DEF Handle, ReadSeen, ReadStatus, MarkNodeSeen, UpdateNodeReport, PushAtHello, Leave,
              Dial, agentVars, updateVars
<1>8. CASE UNCHANGED vars
  BY <1>8 DEF vars, agentVars, updateVars
<1> QED
  BY <1>1, <1>2, <1>3, <1>4, <1>5, <1>6, <1>7, <1>8 DEF Next, Update, Promise!Next

\* UpgradesOnly holds: NodeUpdate implements Upgrade, for any versions and any
\* sequence of releases, requests, crashes and failures.
THEOREM UpgradeCorrect == Spec => UpgradesOnly
<1>1. Init => UpdaterIsOlder
  BY DEF Init, UpdaterIsOlder, Off, At
<1>2. Spec => []UpdaterIsOlder
  BY <1>1, OlderStep, PTL DEF Spec
<1>3. Init => Promise!Init
  BY SmallFacts DEF Init, Promise!Init, Promise!Versions, Versions
<1> QED
  BY <1>2, <1>3, ImplementsStep, TypeCorrect, PTL DEF Spec, UpgradesOnly, Promise!Spec, Promised
==============================================================================
