------------------------------ MODULE GeoLookup ------------------------------
(***************************************************************************)
(* Where the nodes are: the controller looks the address of a node up in a *)
(* GeoIP service, once per address, and keeps the answer in the node's row.*)
(*                                                                         *)
(* Reports and administrators change a node's address while lookups are on *)
(* their way.  A request is a sequence of statements on the store's single *)
(* connection, and other requests, answers and revocations run between any *)
(* two of them.  The row says which address was looked up last             *)
(* (country_lookup_ip); claims and answers are UPDATEs that only apply to  *)
(* the address they are about.                                             *)
(***************************************************************************)
EXTENDS Integers

CONSTANTS
  Nodes,      \* node ids
  Addresses,  \* IP addresses
  Eligible,   \* those that may be looked up: neither private nor loopback
  NoIP,       \* the empty string: no address
  Omitted,    \* a field an edit leaves out
  Observed,   \* the addresses a report can bring: [v4, v6], or Omitted
  Patches,    \* what an edit can ask for: [ip, country]
  Handlers,   \* goroutines that serve requests
  MaxLookups, \* bound on the lookups of one address for one node at a time
  MaxEdits,   \* bound on edits and revocations
  MaxFaults   \* bound on aborted requests, failed lookups and restarts

MaybeIP == Addresses \cup {NoIP}

ASSUME ConstantsAssumption ==
  /\ NoIP \notin Addresses /\ Eligible \subseteq Addresses
  /\ Observed \subseteq [v4: MaybeIP, v6: MaybeIP] \cup {Omitted}
  /\ Patches \subseteq [ip: MaybeIP \cup {Omitted}, country: BOOLEAN \cup {Omitted}]
  /\ Omitted \notin MaybeIP \cup BOOLEAN \cup [v4: MaybeIP, v6: MaybeIP]
  /\ MaxLookups \in Nat /\ MaxEdits \in Nat /\ MaxFaults \in Nat

VARIABLES
  edits,     \* how many edits and revocations there were
  faults,    \* how many faults there were
  node,      \* nodes: the columns this is about
  pc,        \* per handler: where its request is
  subject,   \* per handler: the node of its request
  patch,     \* per handler: the edit it was asked for
  seen,      \* per handler: the row as it read it last
  starting,  \* nodes the starting controller still has to queue
  inflight,  \* how many lookups of an address for a node are on their way
  lost       \* history: the lookup the row's claim stands for ended without an answer

reqVars == <<pc, subject, patch, seen>>
vars == <<edits, faults, node, reqVars, starting, inflight, lost>>

\* located is the address whose location the row holds, lookup is
\* country_lookup_ip; country says whether an administrator overrides the country.
NodeRow == [v4: MaybeIP, v6: MaybeIP, override: MaybeIP, country: BOOLEAN,
            located: MaybeIP, lookup: MaybeIP, revoked: BOOLEAN]

Row(v4, v6, override, country, located, lookup, revoked) ==
  [v4 |-> v4, v6 |-> v6, override |-> override, country |-> country,
   located |-> located, lookup |-> lookup, revoked |-> revoked]

\* The address that counts: the override, else IPv4, else IPv6.
Address(v4, v6, override) ==
  IF override # NoIP THEN override ELSE IF v4 # NoIP THEN v4 ELSE v6

AddressOf(row) == Address(row.v4, row.v6, row.override)

\* Mutant of Readdress: the override is forgotten where the addresses are compared.
ReaddressBlindMutant(row, v4, v6, override, country) ==
  LET moved == v4 # row.v4 \/ v6 # row.v6
  IN  Row(v4, v6, override, country,
          IF moved THEN NoIP ELSE row.located, IF moved THEN NoIP ELSE row.lookup, row.revoked)

\* Mutant of Readdress: the location goes, the claim stays.
ReaddressKeepMutant(row, v4, v6, override, country) ==
  LET moved == Address(v4, v6, override) # AddressOf(row)
  IN  Row(v4, v6, override, country,
          IF moved THEN NoIP ELSE row.located, row.lookup, row.revoked)

\* A row with new addresses: when the one that counts changes, the location and
\* the claim go with it.
Readdress(row, v4, v6, override, country) ==
  LET moved == Address(v4, v6, override) # AddressOf(row)
  IN  Row(v4, v6, override, country,
          IF moved THEN NoIP ELSE row.located, IF moved THEN NoIP ELSE row.lookup, row.revoked)

SetLookup(row, located, lookup) ==
  Row(row.v4, row.v6, row.override, row.country, located, lookup, row.revoked)

NoRow == Row(NoIP, NoIP, NoIP, FALSE, NoIP, NoIP, FALSE)
NoPatch == [ip |-> Omitted, country |-> Omitted]

-----------------------------------------------------------------------------
\* Nodes are created with or without overrides, and never looked up then.
Init ==
  /\ edits = 0 /\ faults = 0
  /\ \E override \in [Nodes -> MaybeIP], country \in [Nodes -> BOOLEAN] :
       node = [n \in Nodes |-> Row(NoIP, NoIP, override[n], country[n], NoIP, NoIP, FALSE)]
  /\ pc = [h \in Handlers |-> "idle"]
  /\ subject \in [Handlers -> Nodes]
  /\ patch = [h \in Handlers |-> NoPatch]
  /\ seen = [h \in Handlers |-> NoRow]
  /\ starting = {}
  /\ inflight = [l \in Nodes \X Addresses |-> 0]
  /\ lost = [n \in Nodes |-> FALSE]

Begin(h, n, label, p, row) ==
  /\ starting = {} /\ pc[h] = "idle"
  /\ pc' = [pc EXCEPT ![h] = label]
  /\ subject' = [subject EXCEPT ![h] = n]
  /\ patch' = [patch EXCEPT ![h] = p]
  /\ seen' = [seen EXCEPT ![h] = row]

\* The request goes on with what it has read now.
GoOn(h, label, row) ==
  /\ pc' = [pc EXCEPT ![h] = label]
  /\ seen' = [seen EXCEPT ![h] = row]
  /\ UNCHANGED subject

End(h) == GoOn(h, "idle", NoRow) /\ patch' = [patch EXCEPT ![h] = NoPatch]

\* UpdateReport of an authorized node: one transaction.
Report(h, n) ==
  /\ ~node[n].revoked
  /\ Begin(h, n, "reported", NoPatch, NoRow)
  /\ \E ips \in Observed :
       IF ips = Omitted THEN UNCHANGED node
       ELSE node' = [node EXCEPT ![n] = Readdress(@, ips.v4, ips.v6, @.override, @.country)]
  /\ UNCHANGED <<edits, faults, starting, inflight, lost>>

\* Mutant of LoadReported: a report that does not queue a lookup.
LoadReportedMutant(h) ==
  /\ pc[h] = "reported"
  /\ End(h)
  /\ UNCHANGED <<edits, faults, node, starting, inflight, lost>>

\* The report's handler reads the node back to know which address to look up.
LoadReported(h) ==
  /\ pc[h] = "reported"
  /\ GoOn(h, "claim", node[subject[h]])
  /\ UNCHANGED <<edits, faults, node, patch, starting, inflight, lost>>

\* handleUpdateNodeMetadata reads the node, for the overrides the edit leaves out.
LoadEdited(h, n) ==
  /\ edits < MaxEdits /\ edits' = edits + 1
  /\ \E p \in Patches : Begin(h, n, "edit", p, node[n])
  /\ UNCHANGED <<faults, node, starting, inflight, lost>>

\* UpdateNodeMetadataWithOverrides: its UPDATE.
SaveEdited(h) ==
  LET n == subject[h]
      ip == IF patch[h].ip = Omitted THEN seen[h].override ELSE patch[h].ip
      country == IF patch[h].country = Omitted THEN seen[h].country ELSE patch[h].country
  IN  /\ pc[h] = "edit"
      /\ node' = [node EXCEPT ![n] = Readdress(@, @.v4, @.v6, ip, country)]
      /\ pc' = [pc EXCEPT ![h] = "edited"]
      /\ UNCHANGED <<edits, faults, subject, patch, seen, starting, inflight, lost>>

\* It reads the row back.  A changed IP override, or a cleared country override
\* of a node without a location, calls for a lookup.
ReloadEdited(h) ==
  LET new   == node[subject[h]]
      reset == seen[h].country /\ ~new.country /\ new.located = NoIP
  IN  /\ pc[h] = "edited"
      /\ \/ reset /\ GoOn(h, "reset", new) /\ UNCHANGED patch
         \/ ~reset /\ seen[h].override # new.override /\ GoOn(h, "claim", new) /\ UNCHANGED patch
         \/ ~reset /\ seen[h].override = new.override /\ End(h)
      /\ UNCHANGED <<edits, faults, node, starting, inflight, lost>>

\* ResetGeoLookup forgets the claim of a node that has no location.
ResetGeoLookup(h) ==
  /\ pc[h] = "reset"
  /\ node' = [node EXCEPT ![subject[h]] = IF @.located = NoIP THEN SetLookup(@, NoIP, NoIP) ELSE @]
  /\ pc' = [pc EXCEPT ![h] = "claim"]
  /\ UNCHANGED <<edits, faults, subject, patch, seen, starting, inflight, lost>>

\* queueNodeGeoLookup: claim the address, if it still is the node's and was not
\* looked up before, and start the lookup.
ClaimGeoLookup(n, ip) ==
  IF /\ ip \in Eligible
     /\ ~node[n].revoked /\ AddressOf(node[n]) = ip /\ node[n].lookup # ip
  THEN /\ inflight[<<n, ip>>] < MaxLookups
       /\ node' = [node EXCEPT ![n] = SetLookup(@, @.located, ip)]
       /\ inflight' = [inflight EXCEPT ![<<n, ip>>] = @ + 1]
       /\ lost' = [lost EXCEPT ![n] = FALSE]
  ELSE UNCHANGED <<node, inflight, lost>>

Claim(h) ==
  /\ pc[h] = "claim"
  /\ ClaimGeoLookup(subject[h], AddressOf(seen[h]))
  /\ End(h)
  /\ UNCHANGED <<edits, faults, starting>>

\* queueAllNodeGeoLookups, before the controller serves its first request.
QueueAtStartup(n) ==
  /\ n \in starting /\ starting' = starting \ {n}
  /\ ClaimGeoLookup(n, AddressOf(node[n]))
  /\ UNCHANGED <<edits, faults, reqVars>>

\* Mutant of Answered: an answer that does not count as used up.
AnsweredMutant(n, ip) == inflight' = [inflight EXCEPT ![<<n, ip>>] = @ - 1]

Answered(n, ip) ==
  /\ inflight[<<n, ip>>] > 0
  /\ inflight' = [inflight EXCEPT ![<<n, ip>>] = @ - 1]

\* The answer arrives: SaveNodeGeoLocation.
SaveNodeGeoLocation(n, ip) ==
  LET wanted == AddressOf(node[n]) = ip /\ node[n].lookup = ip
  IN  /\ Answered(n, ip)
      /\ \/ /\ ~node[n].revoked /\ wanted
            /\ node' = [node EXCEPT ![n] = SetLookup(@, ip, ip)]
            /\ UNCHANGED lost
         \/ /\ node[n].revoked \/ ~wanted
            /\ lost' = [lost EXCEPT ![n] = @ \/ node[n].lookup = ip]
            /\ UNCHANGED node
      /\ UNCHANGED <<edits, faults, reqVars, starting>>

Fault == faults < MaxFaults /\ faults' = faults + 1

\* The service fails or times out: nothing is written.
LookupFails(n, ip) ==
  /\ Fault
  /\ Answered(n, ip)
  /\ lost' = [lost EXCEPT ![n] = @ \/ node[n].lookup = ip]
  /\ UNCHANGED <<edits, node, reqVars, starting>>

\* A statement fails, or the client disconnects and the request's context is cancelled.
Abort(h) ==
  /\ Fault
  /\ pc[h] # "idle" /\ End(h)
  /\ UNCHANGED <<edits, node, starting, inflight, lost>>

SetNodeRevoked(n, revoked) ==
  /\ starting = {}
  /\ edits < MaxEdits /\ edits' = edits + 1
  /\ node' = [node EXCEPT ![n] = Row(@.v4, @.v6, @.override, @.country, @.located, @.lookup, revoked)]
  /\ UNCHANGED <<faults, reqVars, starting, inflight, lost>>

Restart ==
  /\ Fault
  /\ pc' = [h \in Handlers |-> "idle"]
  /\ patch' = [h \in Handlers |-> NoPatch]
  /\ seen' = [h \in Handlers |-> NoRow]
  /\ starting' = {n \in Nodes : ~node[n].revoked}
  /\ inflight' = [l \in Nodes \X Addresses |-> 0]
  /\ lost' = [n \in Nodes |-> lost[n] \/
       (node[n].lookup \in Addresses /\ inflight[<<n, node[n].lookup>>] > 0)]
  /\ UNCHANGED <<edits, node, subject>>

Serve(h) ==
  LoadReported(h) \/ SaveEdited(h) \/ ReloadEdited(h) \/ ResetGeoLookup(h) \/ Claim(h)

Next ==
  \/ \E h \in Handlers : Serve(h) \/ Abort(h)
  \/ \E h \in Handlers, n \in Nodes : Report(h, n) \/ LoadEdited(h, n)
  \/ \E n \in Nodes : QueueAtStartup(n)
  \/ \E n \in Nodes, ip \in Addresses : SaveNodeGeoLocation(n, ip) \/ LookupFails(n, ip)
  \/ \E n \in Nodes, b \in BOOLEAN : SetNodeRevoked(n, b)
  \/ Restart

\* A node that runs reports every 15 seconds, each request has a goroutine of
\* its own (so that no report is kept out for ever by the others), goroutines
\* run, and a lookup ends within the client's timeout of 5 seconds.
Fairness ==
  /\ \A n \in Nodes : SF_vars(\E h \in Handlers : Report(h, n))
  /\ \A h \in Handlers : WF_vars(Serve(h))
  /\ \A n \in Nodes : WF_vars(QueueAtStartup(n))
  /\ \A n \in Nodes, ip \in Addresses : WF_vars(SaveNodeGeoLocation(n, ip) \/ LookupFails(n, ip))

Spec == Init /\ [][Next]_vars /\ Fairness
-----------------------------------------------------------------------------
(* Properties.                                                             *)

\* Every variable holds a value of its type; no lookup is answered twice.
TypeOK ==
  /\ edits \in Nat /\ faults \in Nat
  /\ node \in [Nodes -> NodeRow]
  /\ pc \in [Handlers -> {"idle", "reported", "edit", "edited", "reset", "claim"}]
  /\ subject \in [Handlers -> Nodes]
  /\ patch \in [Handlers -> Patches \cup {NoPatch}]
  /\ seen \in [Handlers -> NodeRow]
  /\ starting \in SUBSET Nodes
  /\ inflight \in [Nodes \X Addresses -> Nat]
  /\ lost \in [Nodes -> BOOLEAN]

\* The location in a node's row is that of the address that counts for the node
\* (store.go:879), however late the answer is and whatever reports and edits
\* changed meanwhile.
LocationIsCurrent ==
  \A n \in Nodes : node[n].located \in {NoIP, AddressOf(node[n])}

\* A claim is a promise (store.go:850): while country_lookup_ip names an address,
\* reports will not look it up again, so its location is there, or a lookup that
\* can bring it is on its way, or that lookup failed, was cut off by a restart,
\* or was refused because the node was revoked.
ClaimIsHonoured ==
  \A n \in Nodes : LET ip == node[n].lookup IN
    ip # NoIP => \/ node[n].located = ip
                 \/ inflight[<<n, ip>>] > 0
                 \/ lost[n]

\* A node that goes on reporting from an address that may be looked up ends up
\* with the location of that address, or with a lookup lost as above, whatever
\* edits left it without a location on the way.
NodesAreLocated ==
  \A n \in Nodes, ip \in Eligible :
    <>[](AddressOf(node[n]) = ip /\ ~node[n].revoked) =>
      <>[](node[n].located = ip \/ lost[n])

\* "The controller re-queues the GeoIP identification of the nodes' current
\* addresses when it starts" (README.md:25): after a restart every active node
\* with an eligible address and no location has a lookup on its way.
StartupLooksUpAgain ==
  [][\A n \in Nodes :
       n \in starting \ starting' /\ AddressOf(node[n]) \in Eligible /\ node[n].located = NoIP
         => inflight'[<<n, AddressOf(node[n])>>] > 0]_vars
==============================================================================
