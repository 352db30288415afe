------------------------------ MODULE NodeLink ------------------------------
(***************************************************************************)
(* The control channel between the controller and one node.                *)
(*                                                                         *)
(* The node keeps one WebSocket to the controller and dials again when it  *)
(* is gone; the controller runs a handler per WebSocket, which notices     *)
(* later that its node is gone, so that handlers of old and new            *)
(* connections run side by side.  A hub maps the node to the connection    *)
(* that registered last.  An update is requested by writing desired_version*)
(* in the node's row and then pushing it over whatever connection the hub  *)
(* has; a new connection registers first and then pushes what the row      *)
(* desires.  Nothing retries a push: one of the two has to see the other.  *)
(*                                                                         *)
(* Versions are numbers in the order Compare gives them, 0 for the empty   *)
(* string.  The columns an update's progress is reported in (update_status,*)
(* update_error) are not part of this module, and neither are the messages *)
(* that only touch them.                                                   *)
(***************************************************************************)
EXTENDS Integers, Sequences, FiniteSets

CONSTANTS
  Conns,      \* connections, each with its handler on the controller
  Admins,     \* requests of administrators
  NoConn,     \* no connection
  MaxVersion, \* the last version that is ever released
  Backlog,    \* bound on the unread messages of a connection
  MaxReports, \* bound on the reports on their way
  MaxEdits,   \* bound on update requests and revocations
  MaxFaults   \* bound on lost connections, aborted requests and restarts

ASSUME ConstantsAssumption ==
  /\ NoConn \notin Conns /\ Conns \cap Admins = {}
  /\ MaxVersion \in Nat \ {0} /\ Backlog \in Nat \ {0} /\ MaxReports \in Nat
  /\ MaxEdits \in Nat /\ MaxFaults \in Nat

VARIABLES
  edits,    \* how many update requests and revocations there were
  faults,   \* how many faults there were
  release,  \* version of the release the controller offers, 0 if none
  row,      \* the node's row
  hub,      \* the connection registered for the node
  pc,       \* where each handler and each administrator's request is
  aim,      \* the version each of them is about to write or push
  held,     \* the connection each of them took from the hub
  dead,     \* connections the controller closed
  version,  \* per connection: the version its agent runs
  unread,   \* per connection: messages of the node not read yet
  commands, \* per connection: versions on their way to the node
  sent,     \* history, per connection: the versions that were sent over it
  cut,      \* history: a request was aborted after its write and before its push
  link,     \* node: its connection
  running,  \* node: the version of its agent
  told,     \* node: the version in its update request file, 0 if there is none
  reports   \* versions in the signed reports on their way

actorVars == <<pc, aim, held>>
connVars == <<dead, version, unread, commands, sent>>
nodeVars == <<link, running, told, reports>>
vars == <<edits, faults, release, row, hub, actorVars, connVars, cut, nodeVars>>

Actors == Conns \cup Admins
MaybeConn == Conns \cup {NoConn}
Versions == 0 .. MaxVersion
NodeRow == [revoked: BOOLEAN, status: {"pending", "online", "offline", "revoked"},
            agent: Versions, desired: Versions]

Row(revoked, status, agent, desired) ==
  [revoked |-> revoked, status |-> status, agent |-> agent, desired |-> desired]

NeedsUpdate(current, desired) == desired # 0 /\ current < desired

Init ==
  /\ edits = 0 /\ faults = 0
  /\ release \in Versions
  /\ row = Row(FALSE, "pending", 0, 0)
  /\ hub = NoConn
  /\ pc = [a \in Actors |-> IF a \in Conns THEN "free" ELSE "idle"]
  /\ aim = [a \in Actors |-> 0]
  /\ held = [a \in Actors |-> NoConn]
  /\ dead = [c \in Conns |-> TRUE]
  /\ version = [c \in Conns |-> 0]
  /\ unread = [c \in Conns |-> 0]
  /\ commands = [c \in Conns |-> <<>>]
  /\ sent = [c \in Conns |-> {}]
  /\ cut = FALSE
  /\ link = NoConn /\ running \in Versions \ {0} /\ told = 0 /\ reports = {}

\* A handler or request a goes on at label, with version v and connection c in hand.
GoTo(a, label, v, c) ==
  /\ pc' = [pc EXCEPT ![a] = label]
  /\ aim' = [aim EXCEPT ![a] = v]
  /\ held' = [held EXCEPT ![a] = c]

\* What follows a push: a handler reads messages, a request is done.
AfterPush(a) == GoTo(a, IF a \in Conns THEN "loop" ELSE "idle", 0, NoConn)

Edit == edits < MaxEdits /\ edits' = edits + 1
Fault == faults < MaxFaults /\ faults' = faults + 1

-----------------------------------------------------------------------------
(* The handler of a connection, handleNodeWS.                              *)

\* Mutant of MarkSeen: the UPDATE without "revoked = 0".
MarkSeenMutant(v) == row' = Row(row.revoked, "online", v, row.desired)

\* MarkNodeSeen, and what a report writes of it, for a node that is not revoked.
MarkSeen(v) == row' = IF row.revoked THEN row ELSE Row(FALSE, "online", v, row.desired)

\* Read hello, then the row: a revoked node is turned away.
Hello(c) ==
  /\ pc[c] = "hello" /\ unread[c] > 0
  /\ unread' = [unread EXCEPT ![c] = @ - 1]
  /\ IF row.revoked
     THEN GoTo(c, "free", 0, NoConn) /\ dead' = [dead EXCEPT ![c] = TRUE]
     ELSE GoTo(c, "seen", 0, NoConn) /\ UNCHANGED dead
  /\ UNCHANGED <<edits, faults, release, row, hub, version, commands, sent, cut, nodeVars>>

\* No hello in time, or the node is gone.
NoHello(c) ==
  /\ pc[c] = "hello" /\ link # c
  /\ GoTo(c, "free", 0, NoConn) /\ dead' = [dead EXCEPT ![c] = TRUE]
  /\ UNCHANGED <<edits, faults, release, row, hub, version, unread, commands, sent, cut, nodeVars>>

Seen(c) ==
  /\ pc[c] = "seen"
  /\ MarkSeen(version[c])
  /\ IF row.revoked
     THEN GoTo(c, "free", 0, NoConn) /\ dead' = [dead EXCEPT ![c] = TRUE]
     ELSE GoTo(c, "register", 0, NoConn) /\ UNCHANGED dead
  /\ UNCHANGED <<edits, faults, release, hub, version, unread, commands, sent, cut, nodeVars>>

\* Mutant of RegisterSocket: a new connection that does not push.
RegisterSocketMutant(c) ==
  /\ pc[c] = "register" /\ \A d \in Conns : pc[d] # "closing"
  /\ hub' = c /\ cut' = FALSE
  /\ IF hub = NoConn THEN GoTo(c, "loop", 0, NoConn) ELSE GoTo(c, "closing", 0, hub)
  /\ UNCHANGED <<edits, faults, release, row, connVars, nodeVars>>

\* RegisterSocket, under nodeSocketMu, which is held while the old connection is
\* being closed.
RegisterSocket(c) ==
  /\ pc[c] = "register" /\ \A d \in Conns : pc[d] # "closing"
  /\ hub' = c /\ cut' = FALSE
  /\ IF hub = NoConn THEN GoTo(c, "push", 0, NoConn) ELSE GoTo(c, "closing", 0, hub)
  /\ UNCHANGED <<edits, faults, release, row, connVars, nodeVars>>

CloseOld(c) ==
  /\ pc[c] = "closing"
  /\ dead' = [dead EXCEPT ![held[c]] = TRUE]
  /\ GoTo(c, "push", 0, NoConn)
  /\ UNCHANGED <<edits, faults, release, row, hub, version, unread, commands, sent, cut, nodeVars>>

\* Mutant of Heartbeat: the error of a revoked node's heartbeat is ignored.
HeartbeatMutant(c) ==
  /\ pc[c] = "loop" /\ unread[c] > 0
  /\ unread' = [unread EXCEPT ![c] = @ - 1]
  /\ MarkSeen(version[c])
  /\ UNCHANGED <<edits, faults, release, hub, actorVars, dead, version, commands, sent, cut, nodeVars>>

\* A heartbeat; the handler returns when the node is revoked.
Heartbeat(c) ==
  /\ pc[c] = "loop" /\ unread[c] > 0
  /\ unread' = [unread EXCEPT ![c] = @ - 1]
  /\ MarkSeen(version[c])
  /\ IF row.revoked THEN GoTo(c, "leave", 0, NoConn) ELSE UNCHANGED actorVars
  /\ UNCHANGED <<edits, faults, release, hub, dead, version, commands, sent, cut, nodeVars>>

\* Mutant of ReadFails: the handler returns without unregistering.
ReadFailsMutant(c) ==
  /\ pc[c] = "loop" /\ (dead[c] \/ link # c)
  /\ GoTo(c, "free", 0, NoConn) /\ dead' = [dead EXCEPT ![c] = TRUE]
  /\ UNCHANGED <<edits, faults, release, row, hub, version, unread, commands, sent, cut, nodeVars>>

\* The read fails: the connection is closed, the node is gone, or it was silent too long.
ReadFails(c) ==
  /\ pc[c] = "loop" /\ (dead[c] \/ link # c)
  /\ GoTo(c, "leave", 0, NoConn)
  /\ UNCHANGED <<edits, faults, release, row, hub, connVars, cut, nodeVars>>

\* Mutant of UnregisterSocket: whoever is registered is removed.
UnregisterSocketMutant(c) == hub' = NoConn

UnregisterSocket(c) == hub' = IF hub = c THEN NoConn ELSE hub

\* The handler returns: it unregisters, then closes the connection.
Leave(c) ==
  /\ pc[c] = "leave"
  /\ UnregisterSocket(c)
  /\ GoTo(c, "free", 0, NoConn) /\ dead' = [dead EXCEPT ![c] = TRUE]
  /\ UNCHANGED <<edits, faults, release, row, version, unread, commands, sent, cut, nodeVars>>

-----------------------------------------------------------------------------
(* pushNodeUpdate, by a handler that registered or an administrator.       *)

PushRead(a) ==
  /\ pc[a] = "push"
  /\ IF NeedsUpdate(row.agent, row.desired)
     THEN GoTo(a, "match", row.desired, NoConn) ELSE AfterPush(a)
  /\ UNCHANGED <<edits, faults, release, row, hub, connVars, cut, nodeVars>>

\* The release of the version read has to be still there.
PushMatch(a) ==
  /\ pc[a] = "match"
  /\ IF release = aim[a] THEN GoTo(a, "find", aim[a], NoConn) ELSE AfterPush(a)
  /\ UNCHANGED <<edits, faults, release, row, hub, connVars, cut, nodeVars>>

\* Mutant of PushFind: no test for a node that is not connected.
PushFindMutant(a) ==
  /\ pc[a] = "find"
  /\ GoTo(a, "send", aim[a], hub)
  /\ UNCHANGED <<edits, faults, release, row, hub, connVars, cut, nodeVars>>

PushFind(a) ==
  /\ pc[a] = "find"
  /\ IF hub = NoConn THEN AfterPush(a) ELSE GoTo(a, "send", aim[a], hub)
  /\ UNCHANGED <<edits, faults, release, row, hub, connVars, cut, nodeVars>>

\* A send fails on a connection that was closed; else it is written, read or not.
PushSend(a) ==
  /\ pc[a] = "send"
  /\ IF dead[held[a]] THEN UNCHANGED <<commands, sent>>
     ELSE /\ commands' = [commands EXCEPT ![held[a]] = Append(@, aim[a])]
          /\ sent' = [sent EXCEPT ![held[a]] = @ \cup {aim[a]}]
  /\ AfterPush(a)
  /\ UNCHANGED <<edits, faults, release, row, hub, dead, version, unread, cut, nodeVars>>

-----------------------------------------------------------------------------
(* Administrators, and the signed reports.                                 *)

\* handleUpdateNode, or one turn of handleUpdateAllNodes: the release and the row
\* are read.  A node that already has the release is not written, but pushed to.
RequestUpdate(u) ==
  /\ Edit
  /\ pc[u] = "idle" /\ release # 0 /\ ~row.revoked
  /\ IF NeedsUpdate(row.agent, release)
     THEN GoTo(u, "write", release, NoConn) ELSE GoTo(u, "push", 0, NoConn)
  /\ UNCHANGED <<faults, release, row, hub, connVars, cut, nodeVars>>

\* RequestNodeUpdate; nothing is pushed to a node that was revoked meanwhile.
RequestNodeUpdate(u) ==
  /\ pc[u] = "write"
  /\ IF row.revoked THEN AfterPush(u) /\ UNCHANGED row
     ELSE /\ row' = Row(FALSE, row.status, row.agent, aim[u])
          /\ GoTo(u, "push", 0, NoConn)
  /\ UNCHANGED <<edits, faults, release, hub, connVars, cut, nodeVars>>

SetNodeRevoked(revoked) ==
  /\ Edit
  /\ row' = Row(revoked, IF revoked THEN "revoked" ELSE "pending", row.agent, row.desired)
  /\ UNCHANGED <<faults, release, hub, actorVars, connVars, cut, nodeVars>>

\* The node was silent for too long, of which this module has no clock.
MarkOffline ==
  /\ ~row.revoked /\ row.status = "online"
  /\ row' = Row(FALSE, "offline", row.agent, row.desired)
  /\ UNCHANGED <<edits, faults, release, hub, actorVars, connVars, cut, nodeVars>>

\* UpdateReport refuses the reports of a revoked node.
UpdateReport(v) ==
  /\ v \in reports /\ reports' = reports \ {v}
  /\ MarkSeen(v)
  /\ UNCHANGED <<edits, faults, release, hub, actorVars, connVars, cut, link, running, told>>

\* A newer release is put in the release directory and noticed.
Publish ==
  /\ release < MaxVersion /\ release' = release + 1
  /\ UNCHANGED <<edits, faults, row, hub, actorVars, connVars, cut, nodeVars>>

-----------------------------------------------------------------------------
(* The node, controlLoop, and its updater.                                 *)

Unused(c) == pc[c] = "free" /\ link # c /\ hub # c /\ \A a \in Actors : held[a] # c

\* withNode turns a revoked node away; the node says hello when it is let in.
Dial(c) ==
  /\ link = NoConn /\ Unused(c) /\ ~row.revoked
  /\ link' = c
  /\ GoTo(c, "hello", 0, NoConn)
  /\ dead' = [dead EXCEPT ![c] = FALSE]
  /\ version' = [version EXCEPT ![c] = running]
  /\ unread' = [unread EXCEPT ![c] = 1]
  /\ commands' = [commands EXCEPT ![c] = <<>>]
  /\ sent' = [sent EXCEPT ![c] = {}]
  /\ UNCHANGED <<edits, faults, release, row, hub, cut, running, told, reports>>

Beat ==
  /\ link # NoConn /\ unread[link] < Backlog
  /\ unread' = [unread EXCEPT ![link] = @ + 1]
  /\ UNCHANGED <<edits, faults, release, row, hub, actorVars, dead, version, commands, sent, cut, nodeVars>>

\* handleUpdateCommand: a newer version goes to the updater, in place of the one before.
HandleUpdateCommand ==
  /\ link # NoConn /\ commands[link] # <<>>
  /\ told' = IF NeedsUpdate(running, Head(commands[link])) THEN Head(commands[link]) ELSE told
  /\ commands' = [commands EXCEPT ![link] = Tail(@)]
  /\ UNCHANGED <<edits, faults, release, row, hub, actorVars, dead, version, unread, sent, cut,
                 link, running, reports>>

\* The node reads the end of its connection.
Notice ==
  /\ link # NoConn /\ dead[link]
  /\ link' = NoConn
  /\ UNCHANGED <<edits, faults, release, row, hub, actorVars, connVars, cut, running, told, reports>>

SendReport ==
  /\ Cardinality(reports) < MaxReports
  /\ reports' = reports \cup {running}
  /\ UNCHANGED <<edits, faults, release, row, hub, actorVars, connVars, cut, link, running, told>>

\* The updater fails, or installs the release it was told of and restarts the agent.
RunUpdate ==
  /\ told # 0 /\ told' = 0
  /\ \/ told = release /\ running' = told /\ link' = NoConn
     \/ UNCHANGED <<running, link>>
  /\ UNCHANGED <<edits, faults, release, row, hub, actorVars, connVars, cut, reports>>

-----------------------------------------------------------------------------
(* Faults.                                                                 *)

\* The node loses its connection, or restarts; the controller does not know yet.
Disconnect ==
  /\ Fault
  /\ link # NoConn /\ link' = NoConn
  /\ UNCHANGED <<edits, release, row, hub, actorVars, connVars, cut, running, told, reports>>

\* An administrator's client goes away: the request's context is cancelled.
Abort(u) ==
  /\ Fault
  /\ pc[u] # "idle" /\ GoTo(u, "idle", 0, NoConn)
  /\ cut' = (cut \/ pc[u] # "write")
  /\ UNCHANGED <<edits, release, row, hub, connVars, nodeVars>>

\* The controller restarts: hub, handlers and requests are gone, the row is kept.
Restart ==
  /\ Fault
  /\ hub' = NoConn
  /\ pc' = [a \in Actors |-> IF a \in Conns THEN "free" ELSE "idle"]
  /\ aim' = [a \in Actors |-> 0]
  /\ held' = [a \in Actors |-> NoConn]
  /\ dead' = [c \in Conns |-> TRUE]
  /\ UNCHANGED <<edits, release, row, version, unread, commands, sent, cut, nodeVars>>

Push(a) == PushRead(a) \/ PushMatch(a) \/ PushFind(a) \/ PushSend(a)

Handle(c) ==
  \/ Hello(c) \/ NoHello(c) \/ Seen(c) \/ RegisterSocket(c) \/ CloseOld(c)
  \/ Heartbeat(c) \/ ReadFails(c) \/ Leave(c)

Next ==
  \/ \E c \in Conns : Handle(c) \/ Dial(c)
  \/ \E a \in Actors : Push(a)
  \/ \E u \in Admins : RequestUpdate(u) \/ RequestNodeUpdate(u) \/ Abort(u)
  \/ \E b \in BOOLEAN : SetNodeRevoked(b)
  \/ \E v \in Versions : UpdateReport(v)
  \/ MarkOffline \/ Publish
  \/ Beat \/ HandleUpdateCommand \/ Notice \/ SendReport \/ RunUpdate
  \/ Disconnect \/ Restart

\* Goroutines run; a read or a close times out, so that a mutex is not held for
\* ever; the node's loops run, its heartbeat has a ticker, and it dials again,
\* sooner or later, when its connection is gone.
Fairness ==
  /\ \A c \in Conns : WF_vars(Handle(c))
  /\ \A a \in Actors : WF_vars(Push(a))
  /\ \A u \in Admins : WF_vars(RequestNodeUpdate(u))
  /\ WF_vars(\E c \in Conns : Dial(c))
  /\ WF_vars(Beat) /\ WF_vars(HandleUpdateCommand) /\ WF_vars(Notice)

Spec == Init /\ [][Next]_vars /\ Fairness
-----------------------------------------------------------------------------
(* Properties.                                                             *)

HandlerLabels == {"free", "hello", "seen", "register", "closing", "push", "match",
                  "find", "send", "loop", "leave"}
AdminLabels == {"idle", "write", "push", "match", "find", "send"}

ActorsOK ==
  /\ pc \in [Actors -> HandlerLabels \cup AdminLabels]
  /\ \A c \in Conns : pc[c] \in HandlerLabels
  /\ \A u \in Admins : pc[u] \in AdminLabels
  /\ aim \in [Actors -> Versions]
  /\ held \in [Actors -> MaybeConn]
  /\ \A a \in Actors : pc[a] \in {"closing", "send"} <=> held[a] # NoConn

ConnsOK ==
  /\ dead \in [Conns -> BOOLEAN]
  /\ version \in [Conns -> Versions]
  /\ unread \in [Conns -> Nat]
  /\ commands \in [Conns -> Seq(Versions)]
  /\ sent \in [Conns -> SUBSET Versions]

\* Every variable holds a value of its type, and who closes or sends, and nobody
\* else, has a connection from the hub in hand.
TypeOK ==
  /\ edits \in Nat /\ faults \in Nat /\ release \in Versions /\ row \in NodeRow
  /\ hub \in MaybeConn /\ cut \in BOOLEAN
  /\ ActorsOK
  /\ ConnsOK
  /\ link \in MaybeConn /\ running \in Versions \ {0} /\ told \in Versions
  /\ reports \in SUBSET Versions

Registered == {"closing", "push", "match", "find", "send", "loop", "leave"}

\* The hub never holds a connection nobody will remove (hub.go:34): the one it
\* holds has a handler that registered it and has not returned yet, whichever
\* order the handlers of old and new connections register and unregister in.
HubHoldsNoGhost == hub # NoConn => pc[hub] \in Registered

\* A handler that is reading messages on an open connection is the one the hub
\* finds (hub.go:34-43), unless a newer handler is just closing it: the late
\* return of an old handler does not make a connected node unreachable.
ListenerIsReachable ==
  \A c \in Conns :
    /\ pc[c] \in Registered \ {"leave"} /\ ~dead[c]
    /\ \A d \in Conns : pc[d] = "closing" => held[d] # c
    => hub = c

\* No update is lost between writing and registering (control.go:69-79 and
\* 181-185): once requests and the connected handler have pushed what they had
\* to, a node behind the desired release has been sent it over this connection.
\* Only a request whose client went away after the write leaves it unsent.
PushIsNotLost ==
  \A c \in Conns :
    /\ hub = c /\ ~dead[c] /\ pc[c] = "loop"
    /\ row.desired = release /\ NeedsUpdate(running, release) /\ ~cut
    /\ \A a \in Actors : pc[a] \notin {"push", "match", "find", "send"}
    => row.desired \in sent[c]

\* The two columns that say a node is revoked agree (store.go:1007), although
\* hellos, heartbeats, reports, the maintenance loop and update requests of a node
\* write its row, after checks they made before it was revoked.
RevokedStaysRevoked == row.revoked <=> row.status = "revoked"

Received(v) ==
  link # NoConn /\ v \in sent[link] /\ \A i \in DOMAIN commands[link] : commands[link][i] # v

\* A release that goes on being desired of a node is received by the node over the
\* connection it has in the end (control.go:69-79 and 181-185), also when the
\* connection is lost or the controller restarts on the way.
UpdateIsDelivered ==
  \A v \in Versions :
    row.desired = v /\ release = v /\ NeedsUpdate(running, v) ~>
      Received(v) \/ running >= v \/ row.desired # v \/ release # v \/ row.revoked \/ cut

\* A node that stays revoked loses its control channel (control.go:205): its next
\* heartbeat ends the handler, and no new connection gets as far as the hub.
RevokedIsCutOff ==
  row.revoked ~> \/ ~row.revoked
                 \/ hub = NoConn /\ link = NoConn /\ \A c \in Conns : pc[c] = "free"
==============================================================================
