--------------------------- MODULE GeoLookupProofs ---------------------------
(***************************************************************************)
(* What TLAPS proves of GeoLookup for any nodes, addresses and requests:   *)
(* its types, that a location is always the current address's, and that    *)
(* every claim is honoured.                                                *)
(***************************************************************************)
EXTENDS GeoLookup, TLAPS

USE ConstantsAssumption

-----------------------------------------------------------------------------
(* Rows.                                                                   *)

\* A row's claim is about the address that counts, its location about the claim.
RowGood(row) ==
  /\ row.lookup \in {NoIP, AddressOf(row)}
  /\ row.located \in {NoIP, row.lookup}

LEMMA AddressType ==
  ASSUME NEW row \in NodeRow
  PROVE  AddressOf(row) \in MaybeIP
BY DEF AddressOf, Address, NodeRow, MaybeIP

\* New addresses leave a good row good: a row that moves loses location and claim.
LEMMA ReaddressGood ==
  ASSUME NEW row \in NodeRow, NEW v4 \in MaybeIP, NEW v6 \in MaybeIP,
         NEW override \in MaybeIP, NEW country \in BOOLEAN
  PROVE  LET new == Readdress(row, v4, v6, override, country) IN
         /\ new \in NodeRow
         /\ RowGood(row) => RowGood(new)
         /\ new.lookup = NoIP \/ (new.lookup = row.lookup /\ new.located = row.located)
         /\ new.revoked = row.revoked
<1> DEFINE new == Readdress(row, v4, v6, override, country)
<1>1. new \in NodeRow
  BY DEF Readdress, Row, NodeRow, MaybeIP
<1>2. /\ AddressOf(new) = Address(v4, v6, override)
      /\ new.revoked = row.revoked
  BY DEF Readdress, Row, AddressOf
<1>3. CASE Address(v4, v6, override) = AddressOf(row)
  BY <1>1, <1>2, <1>3 DEF Readdress, Row, RowGood
<1>4. CASE Address(v4, v6, override) # AddressOf(row)
  BY <1>1, <1>2, <1>4 DEF Readdress, Row, RowGood
<1> QED
  BY <1>1, <1>2, <1>3, <1>4

LEMMA SetLookupRow ==
  ASSUME NEW row \in NodeRow, NEW located \in MaybeIP, NEW lookup \in MaybeIP
  PROVE  LET new == SetLookup(row, located, lookup) IN
         /\ new \in NodeRow
         /\ AddressOf(new) = AddressOf(row)
         /\ new.located = located /\ new.lookup = lookup
BY DEF SetLookup, Row, NodeRow, AddressOf

LEMMA RevokedRow ==
  ASSUME NEW row \in NodeRow, NEW revoked \in BOOLEAN
  PROVE  LET new == Row(row.v4, row.v6, row.override, row.country, row.located, row.lookup, revoked)
         IN  /\ new \in NodeRow
             /\ RowGood(row) => RowGood(new)
             /\ new.lookup = row.lookup /\ new.located = row.located
BY DEF Row, NodeRow, RowGood, AddressOf

-----------------------------------------------------------------------------
(* The invariant.                                                          *)

Honoured(n) ==
  node[n].lookup # NoIP =>
    \/ node[n].located = node[n].lookup
    \/ inflight[<<n, node[n].lookup>>] > 0
    \/ lost[n]

\* What the tables and the lookups have to do with each other, ...
TablesOK ==
  /\ node \in [Nodes -> NodeRow]
  /\ inflight \in [Nodes \X Addresses -> Nat]
  /\ lost \in [Nodes -> BOOLEAN]
  /\ \A n \in Nodes : RowGood(node[n]) /\ Honoured(n)

\* ... and what the requests remember.
RequestsOK ==
  /\ edits \in Nat /\ faults \in Nat /\ starting \in SUBSET Nodes
  /\ pc \in [Handlers -> {"idle", "reported", "edit", "edited", "reset", "claim"}]
  /\ subject \in [Handlers -> Nodes]
  /\ patch \in [Handlers -> Patches \cup {NoPatch}]
  /\ seen \in [Handlers -> NodeRow]

LEMMA NoRowType == NoRow \in NodeRow
BY DEF NoRow, Row, NodeRow, MaybeIP

LEMMA GeoInit == Init => TablesOK /\ RequestsOK
<1> SUFFICES ASSUME Init PROVE TablesOK /\ RequestsOK
  OBVIOUS
<1>1. ASSUME NEW n \in Nodes
      PROVE  node[n] \in NodeRow /\ node[n].lookup = NoIP /\ node[n].located = NoIP
  <2>1. PICK override \in [Nodes -> MaybeIP], country \in [Nodes -> BOOLEAN] :
          node = [m \in Nodes |-> Row(NoIP, NoIP, override[m], country[m], NoIP, NoIP, FALSE)]
    BY DEF Init
  <2> QED BY <2>1 DEF Row, NodeRow, MaybeIP
<1>2. node \in [Nodes -> NodeRow]
  BY <1>1 DEF Init
<1> QED
  BY <1>1, <1>2, NoRowType DEF Init, TablesOK, RequestsOK, RowGood, Honoured

-----------------------------------------------------------------------------
(* Requests: whatever they do to the tables, they remember rows they read.  *)

LEMMA RequestsStep == TablesOK /\ RequestsOK /\ [Next]_vars => RequestsOK'
<1> SUFFICES ASSUME TablesOK, RequestsOK, [Next]_vars PROVE RequestsOK'
  OBVIOUS
<1> USE NoRowType DEF RequestsOK, reqVars
<1>0. \A n \in Nodes : node[n] \in NodeRow
  BY DEF TablesOK
<1>1. ASSUME NEW h \in Handlers, NEW n \in Nodes, Report(h, n) PROVE RequestsOK'
  BY <1>1 DEF Report, Begin
<1>2. ASSUME NEW h \in Handlers, NEW n \in Nodes, LoadEdited(h, n) PROVE RequestsOK'
  <2>1. PICK p \in Patches : Begin(h, n, "edit", p, node[n])
    BY <1>2 DEF LoadEdited
  <2> QED BY <1>0, <1>2, <2>1 DEF LoadEdited, Begin
<1>3. ASSUME NEW h \in Handlers, LoadReported(h) PROVE RequestsOK'
  BY <1>0, <1>3 DEF LoadReported, GoOn
<1>4. ASSUME NEW h \in Handlers, SaveEdited(h) \/ ResetGeoLookup(h) PROVE RequestsOK'
  BY <1>4 DEF SaveEdited, ResetGeoLookup
<1>5. ASSUME NEW h \in Handlers, ReloadEdited(h) PROVE RequestsOK'
  BY <1>0, <1>5 DEF ReloadEdited, GoOn, End
<1>6. ASSUME NEW h \in Handlers, Claim(h) \/ Abort(h) PROVE RequestsOK'
  BY <1>6 DEF Claim, Abort, Fault, End, GoOn
<1>7. ASSUME NEW n \in Nodes, QueueAtStartup(n) PROVE RequestsOK'
  BY <1>7 DEF QueueAtStartup
<1>8. ASSUME NEW n \in Nodes, NEW ip \in Addresses, SaveNodeGeoLocation(n, ip) \/ LookupFails(n, ip)
      PROVE  RequestsOK'
  BY <1>8 DEF SaveNodeGeoLocation, LookupFails, Fault
<1>9. ASSUME NEW n \in Nodes, NEW b \in BOOLEAN, SetNodeRevoked(n, b) PROVE RequestsOK'
  BY <1>9 DEF SetNodeRevoked
<1>10. CASE Restart
  BY <1>10 DEF Restart, Fault
<1>11. CASE UNCHANGED vars
  BY <1>11 DEF vars
<1> QED
  BY <1>1, <1>2, <1>3, <1>4, <1>5, <1>6, <1>7, <1>8, <1>9, <1>10, <1>11 DEF Next, Serve

-----------------------------------------------------------------------------
(* Tables.                                                                 *)

\* A statement that gives one node a good row, and either clears its claim or
\* leaves claim and location alone.
LEMMA RowStep ==
  ASSUME TablesOK, UNCHANGED <<inflight, lost>>, NEW n \in Nodes, NEW row \in NodeRow,
         node' = [node EXCEPT ![n] = row], RowGood(row),
         row.lookup = NoIP \/ (row.lookup = node[n].lookup /\ row.located = node[n].located)
  PROVE  TablesOK'
<1>1. node' \in [Nodes -> NodeRow] /\ \A m \in Nodes : node'[m] = IF m = n THEN row ELSE node[m]
  BY DEF TablesOK
<1>2. ASSUME NEW m \in Nodes PROVE RowGood(node'[m]) /\ Honoured(m)'
  BY <1>1 DEF TablesOK, Honoured
<1> QED
  BY <1>1, <1>2 DEF TablesOK

\* A claim starts a lookup, so that it is honoured.
LEMMA ClaimStep ==
  ASSUME TablesOK, NEW n \in Nodes, NEW ip \in MaybeIP, ClaimGeoLookup(n, ip)
  PROVE  TablesOK'
<1>1. CASE UNCHANGED <<node, inflight, lost>>
  BY <1>1 DEF TablesOK, Honoured
<1>2. CASE ~UNCHANGED <<node, inflight, lost>>
  <2> DEFINE row == SetLookup(node[n], node[n].located, ip)
  <2>1. /\ ip \in Eligible /\ AddressOf(node[n]) = ip /\ node[n].lookup # ip
        /\ node' = [node EXCEPT ![n] = row]
        /\ inflight' = [inflight EXCEPT ![<<n, ip>>] = @ + 1]
        /\ lost' = [lost EXCEPT ![n] = FALSE]
    BY <1>2 DEF ClaimGeoLookup
  <2>2. node[n] \in NodeRow /\ RowGood(node[n])
    BY DEF TablesOK
  <2>3. node[n].located = NoIP /\ node[n].located \in MaybeIP
    BY <2>1, <2>2 DEF RowGood, NodeRow
  <2>4. /\ row \in NodeRow /\ AddressOf(row) = ip
        /\ row.located = NoIP /\ row.lookup = ip
    BY <2>1, <2>2, <2>3, SetLookupRow
  <2>5. ip \in Addresses /\ <<n, ip>> \in Nodes \X Addresses
    BY <2>1
  <2>6. /\ node' \in [Nodes -> NodeRow]
        /\ \A m \in Nodes : node'[m] = IF m = n THEN row ELSE node[m]
    BY <2>1, <2>4 DEF TablesOK
  <2>7. /\ inflight' \in [Nodes \X Addresses -> Nat]
        /\ inflight'[<<n, ip>>] > 0
        /\ \A l \in Nodes \X Addresses : l # <<n, ip>> => inflight'[l] = inflight[l]
    BY <2>1, <2>5 DEF TablesOK
  <2>8. lost' \in [Nodes -> BOOLEAN] /\ \A m \in Nodes : m # n => lost'[m] = lost[m]
    BY <2>1 DEF TablesOK
  <2>9. ASSUME NEW m \in Nodes, m # n PROVE RowGood(node'[m]) /\ Honoured(m)'
    <3>1. node'[m] = node[m] /\ RowGood(node[m]) /\ Honoured(m)
      BY <2>6, <2>9 DEF TablesOK
    <3>2. node[m].lookup \in MaybeIP
      BY DEF TablesOK, NodeRow
    <3>3. node[m].lookup # NoIP => inflight'[<<m, node[m].lookup>>] = inflight[<<m, node[m].lookup>>]
      BY <2>7, <2>9, <3>2 DEF MaybeIP
    <3> QED BY <2>8, <2>9, <3>1, <3>3 DEF Honoured
  <2>10. RowGood(node'[n]) /\ Honoured(n)'
    BY <2>4, <2>6, <2>7 DEF RowGood, Honoured
  <2> QED BY <2>6, <2>7, <2>8, <2>9, <2>10 DEF TablesOK
<1> QED BY <1>1, <1>2

\* A lookup that ends: its answer is saved, or the claim it stands for is lost.
LEMMA AnswerStep ==
  ASSUME TablesOK, NEW n \in Nodes, NEW ip \in Addresses, Answered(n, ip),
         \/ /\ node' = [node EXCEPT ![n] = SetLookup(@, ip, ip)]
            /\ AddressOf(node[n]) = ip /\ node[n].lookup = ip
            /\ UNCHANGED lost
         \/ /\ lost' = [lost EXCEPT ![n] = @ \/ node[n].lookup = ip]
            /\ UNCHANGED node
  PROVE  TablesOK'
<1>1. /\ inflight' \in [Nodes \X Addresses -> Nat]
      /\ \A l \in Nodes \X Addresses : l # <<n, ip>> => inflight'[l] = inflight[l]
  <2> DEFINE left == inflight[<<n, ip>>] - 1
  <2>1. left \in Nat
    BY DEF Answered, TablesOK
  <2>2. inflight' = [inflight EXCEPT ![<<n, ip>>] = left]
    BY DEF Answered
  <2> HIDE DEF left
  <2> QED BY <2>1, <2>2 DEF TablesOK
<1>2. ASSUME NEW m \in Nodes PROVE node[m] \in NodeRow /\ RowGood(node[m]) /\ Honoured(m)
  BY DEF TablesOK
<1>3. ASSUME NEW m \in Nodes, node[m].lookup # NoIP, m # n \/ node[m].lookup # ip
      PROVE  inflight'[<<m, node[m].lookup>>] = inflight[<<m, node[m].lookup>>]
  <2>1. node[m].lookup \in Addresses
    BY <1>2, <1>3 DEF NodeRow, MaybeIP
  <2> QED BY <1>1, <1>3, <2>1
<1>4. CASE /\ node' = [node EXCEPT ![n] = SetLookup(@, ip, ip)]
           /\ AddressOf(node[n]) = ip /\ node[n].lookup = ip
           /\ UNCHANGED lost
  <2> DEFINE row == SetLookup(node[n], ip, ip)
  <2>1. ip \in MaybeIP
    BY DEF MaybeIP
  <2>2. row \in NodeRow /\ AddressOf(row) = ip /\ row.located = ip /\ row.lookup = ip
    BY <1>2, <1>4, <2>1, SetLookupRow
  <2>3. node' \in [Nodes -> NodeRow] /\ \A m \in Nodes : node'[m] = IF m = n THEN row ELSE node[m]
    BY <1>4, <2>2 DEF TablesOK
  <2>4. ASSUME NEW m \in Nodes, m # n PROVE RowGood(node'[m]) /\ Honoured(m)'
    BY <1>2, <1>3, <1>4, <2>3, <2>4 DEF Honoured
  <2>5. RowGood(node'[n]) /\ Honoured(n)'
    BY <2>2, <2>3 DEF RowGood, Honoured
  <2> QED BY <1>1, <1>4, <2>3, <2>4, <2>5 DEF TablesOK
<1>5. CASE lost' = [lost EXCEPT ![n] = @ \/ node[n].lookup = ip] /\ UNCHANGED node
  <2>1. /\ lost' \in [Nodes -> BOOLEAN]
        /\ \A m \in Nodes : lost[m] => lost'[m]
        /\ node[n].lookup = ip => lost'[n]
    BY <1>5 DEF TablesOK
  <2>2. ASSUME NEW m \in Nodes PROVE RowGood(node'[m]) /\ Honoured(m)'
    BY <1>2, <1>3, <1>5, <2>1 DEF Honoured
  <2> QED BY <1>1, <1>5, <2>1, <2>2 DEF TablesOK
<1> QED BY <1>4, <1>5

LEMMA TablesStep == TablesOK /\ RequestsOK /\ [Next]_vars => TablesOK'
<1> SUFFICES ASSUME TablesOK, RequestsOK, [Next]_vars PROVE TablesOK'
  OBVIOUS
<1>0. /\ \A n \in Nodes : node[n] \in NodeRow /\ RowGood(node[n])
      /\ \A h \in Handlers : subject[h] \in Nodes /\ seen[h] \in NodeRow
  BY DEF TablesOK, RequestsOK
<1>a. UNCHANGED <<node, inflight, lost>> => TablesOK'
  BY DEF TablesOK, Honoured
<1>1. ASSUME NEW h \in Handlers, NEW n \in Nodes, Report(h, n) PROVE TablesOK'
  <2>1. UNCHANGED <<inflight, lost>>
    BY <1>1 DEF Report
  <2>2. PICK ips \in Observed :
          IF ips = Omitted THEN UNCHANGED node
          ELSE node' = [node EXCEPT ![n] = Readdress(@, ips.v4, ips.v6, @.override, @.country)]
    BY <1>1 DEF Report
  <2>3. CASE ips = Omitted
    BY <1>a, <2>1, <2>2, <2>3
  <2>4. CASE ips # Omitted
    <3>1. ips.v4 \in MaybeIP /\ ips.v6 \in MaybeIP
      BY <2>4
    <3>2. node[n].override \in MaybeIP /\ node[n].country \in BOOLEAN
      BY <1>0 DEF NodeRow
    <3> DEFINE row == Readdress(node[n], ips.v4, ips.v6, node[n].override, node[n].country)
    <3>3. /\ row \in NodeRow /\ RowGood(row)
          /\ row.lookup = NoIP \/ (row.lookup = node[n].lookup /\ row.located = node[n].located)
      BY <1>0, <3>1, <3>2, ReaddressGood
    <3>4. node' = [node EXCEPT ![n] = row]
      BY <2>2, <2>4
    <3> HIDE DEF row
    <3> QED BY <2>1, <3>3, <3>4, RowStep
  <2> QED BY <2>3, <2>4
<1>2. ASSUME NEW h \in Handlers, SaveEdited(h) PROVE TablesOK'
  <2> DEFINE n == subject[h]
             ip == IF patch[h].ip = Omitted THEN seen[h].override ELSE patch[h].ip
             country == IF patch[h].country = Omitted THEN seen[h].country ELSE patch[h].country
             row == Readdress(node[n], node[n].v4, node[n].v6, ip, country)
  <2>1. patch[h].ip \in MaybeIP \cup {Omitted} /\ patch[h].country \in BOOLEAN \cup {Omitted}
    BY DEF RequestsOK, NoPatch
  <2>2. ip \in MaybeIP /\ country \in BOOLEAN
    BY <1>0, <2>1 DEF NodeRow
  <2>3. n \in Nodes /\ node[n] \in NodeRow /\ node[n].v4 \in MaybeIP /\ node[n].v6 \in MaybeIP
    BY <1>0 DEF NodeRow
  <2>4. node' = [node EXCEPT ![n] = row] /\ UNCHANGED <<inflight, lost>>
    BY <1>2 DEF SaveEdited
  <2> HIDE DEF ip, country
  <2>5. /\ row \in NodeRow /\ RowGood(row)
        /\ row.lookup = NoIP \/ (row.lookup = node[n].lookup /\ row.located = node[n].located)
    BY <1>0, <2>2, <2>3, ReaddressGood
  <2> HIDE DEF row
  <2> QED BY <2>3, <2>4, <2>5, RowStep
<1>3. ASSUME NEW h \in Handlers, ResetGeoLookup(h) PROVE TablesOK'
  <2> DEFINE n == subject[h]
             row == IF node[n].located = NoIP THEN SetLookup(node[n], NoIP, NoIP) ELSE node[n]
  <2>1. NoIP \in MaybeIP
    BY DEF MaybeIP
  <2>2. /\ row \in NodeRow /\ RowGood(row)
        /\ row.lookup = NoIP \/ (row.lookup = node[n].lookup /\ row.located = node[n].located)
    BY <1>0, <2>1, SetLookupRow DEF RowGood
  <2>3. node' = [node EXCEPT ![n] = row] /\ UNCHANGED <<inflight, lost>>
    BY <1>3 DEF ResetGeoLookup
  <2> HIDE DEF row
  <2> QED BY <1>0, <2>2, <2>3, RowStep
<1>4. ASSUME NEW h \in Handlers, Claim(h) PROVE TablesOK'
  BY <1>0, <1>4, AddressType, ClaimStep DEF Claim
<1>5. ASSUME NEW n \in Nodes, QueueAtStartup(n) PROVE TablesOK'
  BY <1>0, <1>5, AddressType, ClaimStep DEF QueueAtStartup
<1>6. ASSUME NEW n \in Nodes, NEW ip \in Addresses, SaveNodeGeoLocation(n, ip) PROVE TablesOK'
  BY <1>6, AnswerStep DEF SaveNodeGeoLocation
<1>7. ASSUME NEW n \in Nodes, NEW ip \in Addresses, LookupFails(n, ip) PROVE TablesOK'
  BY <1>7, AnswerStep DEF LookupFails
<1>8. ASSUME NEW n \in Nodes, NEW b \in BOOLEAN, SetNodeRevoked(n, b) PROVE TablesOK'
  <2> DEFINE row == Row(node[n].v4, node[n].v6, node[n].override, node[n].country,
                        node[n].located, node[n].lookup, b)
  <2>1. row \in NodeRow /\ RowGood(row) /\ row.lookup = node[n].lookup /\ row.located = node[n].located
    BY <1>0, RevokedRow
  <2>2. node' = [node EXCEPT ![n] = row] /\ UNCHANGED <<inflight, lost>>
    BY <1>8 DEF SetNodeRevoked
  <2> HIDE DEF row
  <2> QED BY <2>1, <2>2, RowStep
<1>9. CASE Restart
  <2>1. /\ UNCHANGED node
        /\ inflight' \in [Nodes \X Addresses -> Nat]
        /\ \A n \in Nodes : lost'[n] = (lost[n] \/
             (node[n].lookup \in Addresses /\ inflight[<<n, node[n].lookup>>] > 0))
        /\ lost' \in [Nodes -> BOOLEAN]
    BY <1>9 DEF Restart, TablesOK
  <2>2. ASSUME NEW n \in Nodes PROVE RowGood(node'[n]) /\ Honoured(n)'
    <3>1. node[n].lookup \in Addresses \cup {NoIP} /\ RowGood(node[n]) /\ Honoured(n)
      BY <1>0 DEF TablesOK, NodeRow, MaybeIP
    <3> QED BY <2>1, <3>1 DEF Honoured
  <2> QED BY <2>1, <2>2 DEF TablesOK
<1>10. ASSUME NEW h \in Handlers, NEW n \in Nodes,
              \/ LoadEdited(h, n) \/ LoadReported(h) \/ ReloadEdited(h) \/ Abort(h)
       PROVE  TablesOK'
  BY <1>a, <1>10 DEF LoadEdited, LoadReported, ReloadEdited, Abort
<1>11. CASE UNCHANGED vars
  BY <1>a, <1>11 DEF vars
<1>12. \A h \in Handlers : LoadReported(h) \/ ReloadEdited(h) \/ Abort(h) => TablesOK'
  BY <1>0, <1>10
<1> QED
  BY <1>1, <1>2, <1>3, <1>4, <1>5, <1>6, <1>7, <1>8, <1>9, <1>10, <1>11, <1>12 DEF Next, Serve

LEMMA GeoInvariant == Spec => [](TablesOK /\ RequestsOK)
<1>1. TablesOK /\ RequestsOK /\ [Next]_vars => TablesOK' /\ RequestsOK'
  BY TablesStep, RequestsStep
<1> QED
  BY <1>1, GeoInit, PTL DEF Spec

\* TypeOK is an invariant, whatever the nodes, addresses and bounds: in
\* particular no lookup is answered more often than it was started.
THEOREM TypeCorrect == Spec => []TypeOK
<1>1. TablesOK /\ RequestsOK => TypeOK
  BY DEF TablesOK, RequestsOK, TypeOK
<1> QED
  BY <1>1, GeoInvariant, PTL

\* LocationIsCurrent is an invariant: for any interleaving of any number of
\* requests and late answers, a row's location is that of its current address.
THEOREM LocationCorrect == Spec => []LocationIsCurrent
<1>1. TablesOK => LocationIsCurrent
  BY DEF TablesOK, RowGood, LocationIsCurrent
<1> QED
  BY <1>1, GeoInvariant, PTL

\* ClaimIsHonoured is an invariant: no claim is forgotten without a failure.
THEOREM ClaimsCorrect == Spec => []ClaimIsHonoured
<1>1. TablesOK => ClaimIsHonoured
  BY DEF TablesOK, Honoured, ClaimIsHonoured
<1> QED
  BY <1>1, GeoInvariant, PTL
==============================================================================
