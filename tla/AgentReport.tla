----------------------------- MODULE AgentReport ------------------------------
(***************************************************************************)
(* How a node's reports reach the controller and count.                    *)
(*                                                                         *)
(* The agent signs each report with its token, the time and a fresh nonce. *)
(* The network delays, reorders, duplicates and loses requests.  A handler *)
(* checks the time, reads the node's credential, checks the signature,     *)
(* claims the nonce in a cache that lives in memory, and stores the        *)
(* report, in this order; other requests come in between.                  *)
(*                                                                         *)
(* Time is the controller's, in ticks.  One node: the cache's keys hold    *)
(* the node id, and its capacity here is the share of one node.            *)
(***************************************************************************)
EXTENDS Integers, FiniteSets

CONSTANTS
  Handlers,   \* the controller's request handlers
  Window,     \* how old or young a request may be (5 minutes)
  Keep,       \* how long a nonce is kept (10 minutes)
  Capacity,   \* how many nonces the cache holds
  Delay,      \* longest time from the check of the time to the nonce (ReadTimeout)
  Interval,   \* time between reports
  Skews,      \* how much the node's clock may be ahead
  MaxReports, \* bound on reports
  MaxTime,    \* bound on time
  MaxEdits,   \* bound on rotations, revocations and their undoing
  MaxFaults   \* bound on store errors and restarts

ASSUME ConstantsAssumption ==
  /\ Window \in Nat /\ Keep \in Nat /\ Delay \in Nat
  /\ Capacity \in Nat /\ Interval \in Nat \ {0} /\ Skews \subseteq Int
  /\ MaxReports \in Nat /\ MaxTime \in Nat /\ MaxEdits \in Nat /\ MaxFaults \in Nat

\* What the deployment has to provide: the clocks differ by less than the two
\* windows leave, so that a nonce outlives the request it came with.
ASSUME ClocksAssumption == \A s \in Skews : s + Delay < Keep - Window

\* And the node's share of the cache has room for the reports whose nonces can be there
\* at the same time: those of an interval each, one on its way and one collected.
ASSUME CapacityAssumption ==
  \A s \in Skews : Keep + Window + Delay + s <= Interval * (Capacity - 2) + 1

VARIABLES
  now,      \* the controller's clock
  skew,     \* how much the node's clock is ahead of it
  due,      \* reports the agent is collecting or has a tick for
  held,     \* the number of the token the agent has
  sent,     \* how many reports it sent
  stamp,    \* per report: the time in its header
  signer,   \* per report: the token it is signed with
  token,    \* the number of the node's token, of which the row has the hash
  revoked,  \* the node is revoked
  expires,  \* per report: when its nonce leaves the cache, 0 if it is not there
  pc,       \* per handler: where it is
  report,   \* per handler: its report
  began,    \* per handler: when it checked the time
  cred,     \* per handler: the token the row had when it read it
  counted,  \* history: the reports stored since the controller started
  row,      \* the report the node's row shows
  edits, faults

nodeVars == <<due, held, sent, stamp, signer>>
handlerVars == <<pc, report, began, cred>>
storeVars == <<token, revoked, counted, row>>
vars == <<now, skew, nodeVars, handlerVars, storeVars, expires, edits, faults>>

Numbers == 1 .. MaxReports

Init ==
  /\ now = 0 /\ skew \in Skews
  /\ due = 1 /\ held = 0 /\ sent = 0
  /\ stamp = [n \in Numbers |-> 0] /\ signer = [n \in Numbers |-> 0]
  /\ token = 0 /\ revoked = FALSE
  /\ expires = [n \in Numbers |-> 0]
  /\ pc = [h \in Handlers |-> "idle"] /\ report = [h \in Handlers |-> 0]
  /\ began = [h \in Handlers |-> 0] /\ cred = [h \in Handlers |-> 0]
  /\ counted = {} /\ row = 0
  /\ edits = 0 /\ faults = 0

Edit == edits < MaxEdits /\ edits' = edits + 1
Fault == faults < MaxFaults /\ faults' = faults + 1

-----------------------------------------------------------------------------
(* The node.                                                               *)

\* Mutant of Tick: ticks that are not taken pile up.
TickMutant ==
  /\ now < MaxTime /\ now' = now + 1
  /\ \A h \in Handlers : pc[h] \in {"credential", "claim"} => now < began[h] + Delay
  /\ due' = IF now' % Interval = 0 THEN due + 1 ELSE due
  /\ UNCHANGED <<skew, held, sent, stamp, signer, handlerVars, storeVars, expires, edits, faults>>

\* Time passes, and the agent's ticker with it: its channel has room for one tick,
\* beside the report that is being collected.  A handler gets the body before
\* the connection's read deadline.
Tick ==
  /\ now < MaxTime /\ now' = now + 1
  /\ \A h \in Handlers : pc[h] \in {"credential", "claim"} => now < began[h] + Delay
  /\ due' = IF now' % Interval = 0 /\ due < 2 THEN due + 1 ELSE due
  /\ UNCHANGED <<skew, held, sent, stamp, signer, handlerVars, storeVars, expires, edits, faults>>

\* send and client.report: a request with the time, a fresh nonce, which is the
\* number of the report, and a signature.  It is not tried again.
Send ==
  /\ due > 0 /\ due' = due - 1
  /\ sent < MaxReports /\ sent' = sent + 1
  /\ stamp' = [stamp EXCEPT ![sent'] = now + skew]
  /\ signer' = [signer EXCEPT ![sent'] = held]
  /\ UNCHANGED <<now, skew, held, handlerVars, storeVars, expires, edits, faults>>

\* The node is installed again, with the current token; with the one it has,
\* nothing changes.
Reinstall ==
  /\ held # token /\ held' = token
  /\ UNCHANGED <<now, skew, due, sent, stamp, signer, handlerVars, storeVars, expires, edits, faults>>

-----------------------------------------------------------------------------
(* handleAgentReport.                                                      *)

\* The handler goes on at label.
GoTo(h, label) == pc' = [pc EXCEPT ![h] = label]

\* It answers the request and is done.
Answer(h) ==
  /\ GoTo(h, "idle")
  /\ report' = [report EXCEPT ![h] = 0]
  /\ began' = [began EXCEPT ![h] = 0]
  /\ cred' = [cred EXCEPT ![h] = 0]

Fresh(n) == now - stamp[n] <= Window /\ stamp[n] - now <= Window

\* A request that was sent arrives, not for the first time perhaps.  One whose
\* time is too far off is refused at once.
Receive(h, n) ==
  /\ pc[h] = "idle" /\ n <= sent /\ Fresh(n)
  /\ GoTo(h, "credential")
  /\ report' = [report EXCEPT ![h] = n]
  /\ began' = [began EXCEPT ![h] = now]
  /\ UNCHANGED <<now, skew, nodeVars, cred, storeVars, expires, edits, faults>>

GetNodeCredential(h) ==
  /\ pc[h] = "credential"
  /\ IF revoked THEN Answer(h)
     ELSE /\ GoTo(h, "claim")
          /\ cred' = [cred EXCEPT ![h] = token]
          /\ UNCHANGED <<report, began>>
  /\ UNCHANGED <<now, skew, nodeVars, storeVars, expires, edits, faults>>

\* The nonces that are left once the old ones have been dropped.
Purged == [n \in Numbers |-> IF now < expires[n] THEN expires[n] ELSE 0]
Cached == {n \in Numbers : Purged[n] # 0}

\* Mutant of Claimable: nonces that are too old stay.
ClaimableMutant(n) == expires[n] = 0 /\ Cardinality({k \in Numbers : expires[k] # 0}) < Capacity

\* nonceCache.Claim accepts the nonce.
Claimable(n) == n \notin Cached /\ Cardinality(Cached) < Capacity

\* The signature is checked with the credential that was read.
Unsigned(h) ==
  /\ pc[h] = "claim" /\ signer[report[h]] # cred[h]
  /\ Answer(h)
  /\ UNCHANGED <<now, skew, nodeVars, storeVars, expires, edits, faults>>

\* Mutant of Claim: the claim lasts as long as a request may be old.
ClaimMutant(h) ==
  /\ pc[h] = "claim" /\ signer[report[h]] = cred[h]
  /\ Claimable(report[h])
  /\ expires' = [Purged EXCEPT ![report[h]] = now + Window]
  /\ GoTo(h, "store")
  /\ UNCHANGED <<now, skew, nodeVars, report, began, cred, storeVars, edits, faults>>

Claim(h) ==
  /\ pc[h] = "claim" /\ signer[report[h]] = cred[h]
  /\ Claimable(report[h])
  /\ expires' = [Purged EXCEPT ![report[h]] = now + Keep]
  /\ GoTo(h, "store")
  /\ UNCHANGED <<now, skew, nodeVars, report, began, cred, storeVars, edits, faults>>

\* The answer is that the request was replayed.
Refuse(h) ==
  /\ pc[h] = "claim" /\ signer[report[h]] = cred[h]
  /\ ~Claimable(report[h])
  /\ expires' = Purged
  /\ Answer(h)
  /\ UNCHANGED <<now, skew, nodeVars, storeVars, edits, faults>>

\* UpdateReport, in one transaction that looks at revoked again.
UpdateReport(h) ==
  /\ pc[h] = "store"
  /\ IF revoked THEN UNCHANGED <<counted, row>>
     ELSE counted' = counted \cup {report[h]} /\ row' = report[h]
  /\ Answer(h)
  /\ UNCHANGED <<now, skew, nodeVars, token, revoked, expires, edits, faults>>

\* A statement fails, or the node has closed the connection.
StoreError(h) ==
  /\ Fault
  /\ pc[h] \in {"credential", "store"}
  /\ Answer(h)
  /\ UNCHANGED <<now, skew, nodeVars, storeVars, expires, edits>>

-----------------------------------------------------------------------------
(* Administrators, and the controller's restart.                           *)

\* handleRotateToken: the row gets another token; the node is not told.
SetNodeTokenHash ==
  /\ Edit
  /\ token' = token + 1
  /\ UNCHANGED <<now, skew, nodeVars, handlerVars, revoked, counted, row, expires, faults>>

SetNodeRevoked ==
  /\ Edit
  /\ revoked' = ~revoked
  /\ UNCHANGED <<now, skew, nodeVars, handlerVars, token, counted, row, expires, faults>>

\* Nonces and requests are gone.
Restart ==
  /\ Fault
  /\ expires' = [n \in Numbers |-> 0]
  /\ pc' = [h \in Handlers |-> "idle"] /\ report' = [h \in Handlers |-> 0]
  /\ began' = [h \in Handlers |-> 0] /\ cred' = [h \in Handlers |-> 0]
  /\ counted' = {}
  /\ UNCHANGED <<now, skew, nodeVars, token, revoked, row, edits>>

-----------------------------------------------------------------------------
Handle(h) ==
  \/ \E n \in Numbers : Receive(h, n)
  \/ GetNodeCredential(h) \/ Unsigned(h) \/ Claim(h) \/ Refuse(h)
  \/ UpdateReport(h) \/ StoreError(h)

Next ==
  \/ Tick \/ Send \/ Reinstall
  \/ \E h \in Handlers : Handle(h)
  \/ SetNodeTokenHash \/ SetNodeRevoked \/ Restart

Spec == Init /\ [][Next]_vars
-----------------------------------------------------------------------------
(* Properties.                                                             *)

\* Every variable holds a value of its type.
TypeOK ==
  /\ now \in Nat /\ skew \in Skews
  /\ due \in 0 .. 2 /\ held \in Nat /\ sent \in 0 .. MaxReports
  /\ stamp \in [Numbers -> Int] /\ signer \in [Numbers -> Nat]
  /\ token \in Nat /\ revoked \in BOOLEAN /\ expires \in [Numbers -> Nat]
  /\ pc \in [Handlers -> {"idle", "credential", "claim", "store"}]
  /\ report \in [Handlers -> 0 .. MaxReports]
  /\ began \in [Handlers -> Nat] /\ cred \in [Handlers -> Nat]
  /\ counted \subseteq Numbers /\ row \in 0 .. MaxReports
  /\ edits \in Nat /\ faults \in Nat

Promise == INSTANCE Reports WITH
  MaxReports <- MaxReports, sent <- sent, counted <- counted, row <- row

\* "The controller rejects reuse" (client.go:59): however often a request
\* arrives, at however many handlers, it counts once, as long as the controller
\* runs.  The nonces are in memory: after a restart it may count again.
CountsOnce == Promise!Spec

\* A request the controller refuses as replayed is one (server.go:95-104): the
\* nonces of a node that reports at its interval never fill the cache.
OnlyReplaysAreRefused ==
  [][\A h \in Handlers : Refuse(h) => report[h] \in Cached]_vars
==============================================================================
