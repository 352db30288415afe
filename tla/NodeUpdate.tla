------------------------------ MODULE NodeUpdate ------------------------------
(***************************************************************************)
(* How a node updates itself, and how the controller follows it.           *)
(*                                                                         *)
(* The agent writes a status file and a request file; a systemd path unit  *)
(* starts the updater while a request file exists; the updater replaces    *)
(* the binary, writes the status, removes the request and restarts the     *)
(* agent.  Agent and updater are two processes that share nothing but      *)
(* these files, each written by an atomic rename.  With every heartbeat    *)
(* the agent sends its version and what the status file says; the          *)
(* controller writes both to the node's row, in two statements.            *)
(*                                                                         *)
(* The hub and revocation are in NodeLink; here a push finds the node's    *)
(* connection once its handler has registered it.                          *)
(***************************************************************************)
EXTENDS Integers, Sequences

CONSTANTS
  Conns,      \* connections, each with its handler on the controller
  NoConn,     \* no connection
  MaxVersion, \* the last version there is
  Releases,   \* the versions that are ever released; 0 is no release
  Backlog,    \* bound on the unread messages of a connection
  MaxEdits,   \* bound on update requests and changes of the release
  MaxFaults   \* bound on crashes, failed writes and lost connections

ASSUME ConstantsAssumption ==
  /\ NoConn \notin Conns
  /\ Releases \subseteq 0 .. MaxVersion
  /\ MaxVersion \in Nat \ {0} /\ Backlog \in Nat \ {0}
  /\ MaxEdits \in Nat /\ MaxFaults \in Nat

VARIABLES
  edits,     \* how many requests and changes of the release there were
  faults,    \* how many faults there were
  release,   \* the version of the release the controller offers, 0 if none
  row,       \* the node's row
  pushing,   \* a request wrote the row and has not pushed yet
  pc, msg,   \* per connection: where its handler is, and the message it works on
  inbox,     \* per connection: messages of the node not read yet
  commands,  \* versions on their way to the node over its connection
  link,      \* node: its connection
  running,   \* node: the version of its agent
  accepting, \* node: the command between its two files, 0 if none
  file,      \* node: the status file
  request,   \* node: the version in the request file, 0 if there is none
  binary,    \* node: the version of the installed binary
  updater,   \* node: the updater process
  lost       \* history: the request or the outcome of an update was lost

handlerVars == <<pc, msg, inbox>>
agentVars == <<link, commands, running, accepting>>
updateVars == <<file, request, binary, updater, lost>>
vars == <<edits, faults, release, row, pushing, handlerVars, agentVars, updateVars>>

Versions == 0 .. MaxVersion
Statuses == {"none", "requested", "running", "succeeded", "failed"}
NodeRow  == [agent: Versions, desired: Versions, status: Statuses]
\* status is that of the message's update report; reached is what MarkNodeSeen decided.
Message  == [type: {"hello", "heartbeat", "update_status"}, version: Versions,
             status: Statuses, reached: BOOLEAN]
File     == [status: Statuses, version: Versions]
Updater  == [pc: {"off", "validate", "fetch", "install", "report",
                  "failed", "succeeded", "restart"},
             code: Versions, target: Versions]

Row(agent, desired, status) == [agent |-> agent, desired |-> desired, status |-> status]
Says(type, version, status) ==
  [type |-> type, version |-> version, status |-> status, reached |-> FALSE]
NoMessage == Says("hello", 0, "none")
Entry(status, version) == [status |-> status, version |-> version]
At(label, code, target) == [pc |-> label, code |-> code, target |-> target]
Off == At("off", 0, 0)

NeedsUpdate(current, desired) == desired # 0 /\ current < desired

\* Where the handler of a registered connection is.
Registered == {"push", "loop", "mark", "report"}

Init ==
  /\ edits = 0 /\ faults = 0
  /\ release \in Releases
  /\ row = Row(0, 0, "none") /\ pushing = FALSE
  /\ pc = [c \in Conns |-> "free"]
  /\ msg = [c \in Conns |-> NoMessage]
  /\ inbox = [c \in Conns |-> <<>>]
  /\ commands = <<>> /\ link = NoConn /\ accepting = 0
  /\ binary \in Versions \ {0} /\ running = binary
  /\ file = Entry("none", 0) /\ request = 0 /\ updater = Off
  /\ lost = FALSE

Edit == edits < MaxEdits /\ edits' = edits + 1
Fault == faults < MaxFaults /\ faults' = faults + 1

-----------------------------------------------------------------------------
(* The controller.                                                         *)

\* The release directory gets another release, maybe an older one.
Publish(v) ==
  /\ Edit
  /\ release' = v
  /\ UNCHANGED <<faults, row, pushing, handlerVars, agentVars, updateVars>>

\* requestNodeUpdate: a node that needs the release is written.
RequestNodeUpdate ==
  /\ Edit
  /\ ~pushing /\ pushing' = TRUE
  /\ release # 0
  /\ row' = IF NeedsUpdate(row.agent, release) THEN Row(row.agent, release, "requested") ELSE row
  /\ UNCHANGED <<faults, release, handlerVars, agentVars, updateVars>>

\* pushNodeUpdate, to a connection whose handler has registered it.
Push ==
  commands' =
    IF /\ NeedsUpdate(row.agent, row.desired) /\ release = row.desired
       /\ link # NoConn /\ pc[link] \in Registered
    THEN Append(commands, release) ELSE commands

PushRequested ==
  /\ pushing /\ pushing' = FALSE
  /\ Push
  /\ UNCHANGED <<edits, faults, release, row, handlerVars, link, running, accepting, updateVars>>

\* The handler of c goes on at label, with message m in hand.
GoTo(c, label, m) ==
  /\ pc' = [pc EXCEPT ![c] = label]
  /\ msg' = [msg EXCEPT ![c] = m]

\* The message with what MarkNodeSeen decides about it.
Decided(m) ==
  [type |-> m.type, version |-> m.version, status |-> m.status,
   reached |-> row.desired # 0 /\ ~NeedsUpdate(m.version, row.desired)]

\* The first half of MarkNodeSeen, for a hello or a heartbeat: read what is desired.
ReadSeen(c) ==
  /\ pc[c] \in {"hello", "loop"} /\ inbox[c] # <<>>
  /\ LET m == Head(inbox[c]) IN
     /\ m.type # "update_status"
     /\ GoTo(c, IF m.type = "hello" THEN "seen" ELSE "mark", Decided(m))
  /\ inbox' = [inbox EXCEPT ![c] = Tail(@)]
  /\ UNCHANGED <<edits, faults, release, row, pushing, agentVars, updateVars>>

ReadStatus(c) ==
  /\ pc[c] = "loop" /\ inbox[c] # <<>> /\ Head(inbox[c]).type = "update_status"
  /\ GoTo(c, "report", Head(inbox[c]))
  /\ inbox' = [inbox EXCEPT ![c] = Tail(@)]
  /\ UNCHANGED <<edits, faults, release, row, pushing, agentVars, updateVars>>

\* Its second half: write what was seen, and that the update succeeded if it was
\* reached then.  After a hello the connection is registered.
MarkNodeSeen(c) ==
  /\ row' = Row(msg[c].version, row.desired, IF msg[c].reached THEN "succeeded" ELSE row.status)
  /\ \/ pc[c] = "seen" /\ GoTo(c, "push", NoMessage)
     \/ pc[c] = "mark" /\ msg[c].status # "none" /\ GoTo(c, "report", msg[c])
     \/ pc[c] = "mark" /\ msg[c].status = "none" /\ GoTo(c, "loop", NoMessage)
  /\ UNCHANGED <<edits, faults, release, pushing, inbox, agentVars, updateVars>>

\* The row takes the status, whatever version it is about.
UpdateNodeReport(c) ==
  /\ pc[c] = "report"
  /\ row' = Row(row.agent, row.desired, msg[c].status)
  /\ GoTo(c, "loop", NoMessage)
  /\ UNCHANGED <<edits, faults, release, pushing, inbox, agentVars, updateVars>>

PushAtHello(c) ==
  /\ pc[c] = "push"
  /\ Push
  /\ GoTo(c, "loop", NoMessage)
  /\ UNCHANGED <<edits, faults, release, row, pushing, inbox, link, running, accepting, updateVars>>

\* The handler of a connection the node left notices, sooner or later.
Leave(c) ==
  /\ c # link /\ pc[c] \in {"hello", "loop"}
  /\ GoTo(c, "free", NoMessage)
  /\ inbox' = [inbox EXCEPT ![c] = <<>>]
  /\ UNCHANGED <<edits, faults, release, row, pushing, agentVars, updateVars>>

-----------------------------------------------------------------------------
(* The agent.                                                              *)

\* A message of the agent over its connection.
Send(m) == inbox' = [inbox EXCEPT ![link] = Append(@, m)]

\* Dial, say hello and report the status file.
Dial(c) ==
  /\ link = NoConn /\ pc[c] = "free"
  /\ link' = c
  /\ pc' = [pc EXCEPT ![c] = "hello"]
  /\ inbox' = [inbox EXCEPT ![c] =
       <<Says("hello", running, "none")>> \o
       IF file.status = "none" THEN <<>> ELSE <<Says("update_status", running, file.status)>>]
  /\ UNCHANGED <<edits, faults, release, row, pushing, msg, commands, running, accepting, updateVars>>

\* Mutant of Beat: the heartbeat leaves the status file out.
BeatMutant ==
  /\ link # NoConn /\ Len(inbox[link]) < Backlog
  /\ Send(Says("heartbeat", running, "none"))
  /\ UNCHANGED <<edits, faults, release, row, pushing, pc, msg, agentVars, updateVars>>

\* A heartbeat, with the status file as it is now.
Beat ==
  /\ link # NoConn /\ Len(inbox[link]) < Backlog
  /\ Send(Says("heartbeat", running, file.status))
  /\ UNCHANGED <<edits, faults, release, row, pushing, pc, msg, agentVars, updateVars>>

\* handleUpdateCommand for a version that is not newer: nothing is done, and
\* the answer is the same as if it were.
Decline ==
  /\ accepting = 0 /\ commands # <<>> /\ ~NeedsUpdate(running, Head(commands))
  /\ Send(Says("update_status", running, "requested"))
  /\ commands' = Tail(commands)
  /\ UNCHANGED <<edits, faults, release, row, pushing, pc, msg, link, running, accepting, updateVars>>

\* Mutant of Accept: a status the rest of the program does not know.
AcceptMutant ==
  /\ accepting = 0 /\ commands # <<>> /\ NeedsUpdate(running, Head(commands))
  /\ accepting' = Head(commands)
  /\ file' = Entry("accepted", accepting')
  /\ commands' = Tail(commands)
  /\ UNCHANGED <<edits, faults, release, row, pushing, handlerVars, link, running,
                 request, binary, updater, lost>>

\* For a newer one: first the status file ...
Accept ==
  /\ accepting = 0 /\ commands # <<>> /\ NeedsUpdate(running, Head(commands))
  /\ accepting' = Head(commands)
  /\ file' = Entry("requested", accepting')
  /\ commands' = Tail(commands)
  /\ UNCHANGED <<edits, faults, release, row, pushing, handlerVars, link, running,
                 request, binary, updater, lost>>

\* ... then the request file, in place of the one before, and the answer, if
\* the connection is still there.
WriteUpdateRequest ==
  /\ accepting # 0 /\ accepting' = 0
  /\ request' = accepting
  /\ IF link = NoConn THEN UNCHANGED inbox ELSE Send(Says("update_status", running, "requested"))
  /\ lost' = (lost \/ updater.pc \in {"failed", "succeeded"})
  /\ UNCHANGED <<edits, faults, release, row, pushing, pc, msg, link, commands, running,
                 file, binary, updater>>

-----------------------------------------------------------------------------
(* The updater, runUpdate, in a process of its own.                        *)

\* Mutant of StartUpdater: the request is removed as soon as it is read.
StartUpdaterMutant ==
  /\ updater.pc = "off" /\ request # 0
  /\ updater' = At("validate", binary, request)
  /\ request' = 0
  /\ UNCHANGED <<edits, faults, release, row, pushing, handlerVars, agentVars, file, binary, lost>>

\* The path unit starts it while a request file exists and it is not running.
StartUpdater ==
  /\ updater.pc = "off" /\ request # 0
  /\ updater' = At("validate", binary, request)
  /\ UNCHANGED <<edits, faults, release, row, pushing, handlerVars, agentVars,
                 file, request, binary, lost>>

\* The updater goes on at label, and the status file gets status.
GoOn(label, status) ==
  /\ updater' = At(label, updater.code, updater.target)
  /\ file' = Entry(status, updater.target)
  /\ UNCHANGED <<edits, faults, release, row, pushing, handlerVars, agentVars, request, lost>>

\* The request must be for a version newer than the updater itself.
Validate ==
  /\ updater.pc = "validate"
  /\ IF NeedsUpdate(updater.code, updater.target)
     THEN GoOn("fetch", "running") ELSE GoOn("failed", "failed")
  /\ UNCHANGED binary

\* The manifest on offer is still the one requested.
FetchNodeRelease ==
  /\ updater.pc = "fetch" /\ release = updater.target
  /\ updater' = At("install", updater.code, updater.target)
  /\ UNCHANGED <<edits, faults, release, row, pushing, handlerVars, agentVars,
                 file, request, binary, lost>>

\* Mutant of ReplaceBinary: the binary that was downloaded is not checked.
ReplaceBinaryMutant ==
  /\ updater.pc = "install"
  /\ binary' = updater.target
  /\ updater' = At("report", updater.code, updater.target)
  /\ UNCHANGED <<edits, faults, release, row, pushing, handlerVars, agentVars, file, request, lost>>

\* And so is the binary, which the digest in the manifest shows.
ReplaceBinary ==
  /\ updater.pc = "install" /\ release = updater.target
  /\ binary' = updater.target
  /\ updater' = At("report", updater.code, updater.target)
  /\ UNCHANGED <<edits, faults, release, row, pushing, handlerVars, agentVars, file, request, lost>>

\* Mutant of UpdateFails: the failure is not written to the status file.
UpdateFailsMutant ==
  /\ updater.pc \in {"fetch", "install"}
  /\ updater' = At("failed", updater.code, updater.target)
  /\ UNCHANGED <<edits, faults, release, row, pushing, handlerVars, agentVars,
                 file, request, binary, lost>>

\* It is not, or the controller cannot be reached, or the file cannot be replaced.
UpdateFails ==
  /\ updater.pc \in {"fetch", "install"}
  /\ GoOn("failed", "failed")
  /\ UNCHANGED binary

ReportSuccess ==
  /\ updater.pc = "report"
  /\ GoOn("succeeded", "succeeded")
  /\ UNCHANGED binary

\* The deferred Remove, of whatever request file is there by now; what follows is
\* the restart of the agent, if the update succeeded.
RemoveRequest ==
  /\ updater.pc \in {"failed", "succeeded"}
  /\ request' = 0
  /\ updater' = IF updater.pc = "failed" THEN Off
                ELSE At("restart", updater.code, updater.target)
  /\ UNCHANGED <<edits, faults, release, row, pushing, handlerVars, agentVars, file, binary, lost>>

\* The agent stops, wherever it is, and the installed one starts.
StartAgent ==
  /\ running' = binary
  /\ link' = NoConn /\ commands' = <<>> /\ accepting' = 0
  /\ lost' = (lost \/ accepting # 0)

RestartNodeService ==
  /\ updater.pc = "restart" /\ updater' = Off
  /\ StartAgent
  /\ UNCHANGED <<edits, faults, release, row, pushing, handlerVars, file, request, binary>>

-----------------------------------------------------------------------------
(* Faults.                                                                 *)

\* A status or request file cannot be written.  The agent answers that the
\* command failed; the updater removes the request and ends without a restart.
SaveFails ==
  /\ Fault
  /\ \/ /\ accepting = 0 /\ commands # <<>> /\ NeedsUpdate(running, Head(commands))
        /\ Send(Says("update_status", running, "failed"))
        /\ commands' = Tail(commands)
        /\ UNCHANGED <<link, accepting, updater, lost>>
     \/ /\ accepting # 0 /\ accepting' = 0
        /\ IF link = NoConn THEN UNCHANGED inbox ELSE Send(Says("update_status", running, "failed"))
        /\ lost' = TRUE
        /\ UNCHANGED <<link, commands, updater>>
     \/ /\ updater.pc \in {"validate", "fetch", "install", "report"}
        /\ updater' = At("failed", updater.code, updater.target)
        /\ lost' = TRUE
        /\ UNCHANGED <<inbox, link, commands, accepting>>
  /\ UNCHANGED <<edits, release, row, pushing, pc, msg, running, file, request, binary>>

\* The updater is killed.
KillUpdater ==
  /\ Fault
  /\ updater # Off /\ updater' = Off
  /\ UNCHANGED <<edits, release, row, pushing, handlerVars, agentVars, file, request, binary, lost>>

\* The agent crashes and systemd starts it again.
CrashAgent ==
  /\ Fault
  /\ StartAgent
  /\ UNCHANGED <<edits, release, row, pushing, handlerVars, file, request, binary, updater>>

\* The machine crashes, and both processes with it.
Reboot ==
  /\ Fault
  /\ StartAgent
  /\ updater' = Off
  /\ UNCHANGED <<edits, release, row, pushing, handlerVars, file, request, binary>>

Disconnect ==
  /\ Fault
  /\ link # NoConn /\ link' = NoConn /\ commands' = <<>>
  /\ UNCHANGED <<edits, release, row, pushing, handlerVars, running, accepting, updateVars>>

\* The controller restarts: its handlers and connections are gone.
RestartController ==
  /\ Fault
  /\ pushing' = FALSE
  /\ pc' = [c \in Conns |-> "free"]
  /\ msg' = [c \in Conns |-> NoMessage]
  /\ inbox' = [c \in Conns |-> <<>>]
  /\ link' = NoConn /\ commands' = <<>>
  /\ UNCHANGED <<edits, release, row, running, accepting, updateVars>>

-----------------------------------------------------------------------------
Handle(c) ==
  ReadSeen(c) \/ ReadStatus(c) \/ MarkNodeSeen(c) \/ UpdateNodeReport(c)
  \/ PushAtHello(c) \/ Leave(c)

Agent == Beat \/ Decline \/ Accept \/ WriteUpdateRequest

Update ==
  \/ StartUpdater \/ Validate \/ FetchNodeRelease \/ ReplaceBinary \/ UpdateFails
  \/ ReportSuccess \/ RemoveRequest \/ RestartNodeService

Next ==
  \/ \E v \in Releases : Publish(v)
  \/ RequestNodeUpdate \/ PushRequested
  \/ \E c \in Conns : Handle(c) \/ Dial(c)
  \/ Agent \/ Update
  \/ SaveFails \/ KillUpdater \/ CrashAgent \/ Reboot \/ Disconnect \/ RestartController

\* Goroutines and processes run, the heartbeat has a ticker, the node dials
\* again, and the path unit watches the request file.
Fairness ==
  /\ \A c \in Conns : WF_vars(Handle(c))
  /\ WF_vars(PushRequested) /\ WF_vars(\E c \in Conns : Dial(c))
  /\ WF_vars(Beat) /\ WF_vars(Decline \/ Accept \/ WriteUpdateRequest)
  /\ WF_vars(Update)

Spec == Init /\ [][Next]_vars /\ Fairness
-----------------------------------------------------------------------------
(* Properties.                                                             *)

\* Every variable holds a value of its type.
TypeOK ==
  /\ edits \in Nat /\ faults \in Nat /\ release \in Versions
  /\ row \in NodeRow /\ pushing \in BOOLEAN
  /\ pc \in [Conns -> {"free", "hello", "seen"} \cup Registered]
  /\ msg \in [Conns -> Message] /\ inbox \in [Conns -> Seq(Message)]
  /\ commands \in Seq(Versions) /\ link \in Conns \cup {NoConn}
  /\ running \in Versions /\ accepting \in Versions
  /\ file \in File /\ request \in Versions /\ binary \in Versions
  /\ updater \in Updater /\ lost \in BOOLEAN

Promise == INSTANCE Upgrade WITH release <- release, binary <- binary, running <- running,
                                MaxVersion <- MaxVersion

\* What updating promises (update.go:176, 204-241): whatever requests are
\* accepted, replaced or tried again, and whatever the release is changed to
\* meanwhile, only a newer release that is on offer is ever installed.
UpgradesOnly == Promise!Spec

\* An update the node says is under way has a request file for the path unit to
\* find (update.go:64-77, 156-173), whichever of agent and updater crashes where,
\* unless a newer request was removed with an older one or a file was not written.
PendingHasRequest ==
  file.status \in {"requested", "running"} => request # 0 \/ accepting # 0 \/ lost

\* An update that was accepted has an outcome, except when it was lost as above.
UpdateEnds ==
  file.status \in {"requested", "running"} ~> file.status \in {"succeeded", "failed"} \/ lost

\* The row's update status ends up as the node's status file (store.go:951,
\* control.go:205-222), unless that file contradicts the version the node runs.
RowFollowsNode ==
  \A s \in Statuses \ {"none"} :
    <>[](file.status = s /\ (s = "succeeded" \/ NeedsUpdate(running, row.desired)))
      => <>[](row.status = s)

\* "The fixed systemd updater atomically replaces and restarts the node"
\* (README.md:26): an agent that is older than the installed binary is restarted.
ReplacedBinaryIsStarted == running < binary ~> running >= binary
==============================================================================
