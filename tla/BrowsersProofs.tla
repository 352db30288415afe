------------------------------ MODULE BrowsersProofs ------------------------------
(***************************************************************************)
(* What TLAPS proves about PublicDashboard, for any number of requests,    *)
(* orders and values, and any silence and lifetime of a page; and about    *)
(* Telemetry, for any number of publishers, streams and events.  Then it   *)
(* shows that MCBrowsers composes these two and Sessions, so that what is  *)
(* proved of each holds of the composition.                                *)
(***************************************************************************)
EXTENDS MCBrowsers, SessionsProofs

-----------------------------------------------------------------------------
(* The public dashboard.                                                   *)

USE DashboardAssumption DEF DashboardAssumption

Places == {"idle", "name", "map", "cache", "list", "keep", "edit name",
           "edit map", "change", "set name", "set map", "invalidate"}
Rows == [name : Values, map : Values, seen : Values, online : BOOLEAN]
CachedPages == [full : BOOLEAN, page : Pages, mode : Modes \cup {NoMode}, built : Nat]

LEMMA NothingTypes == Blank \in Pages /\ Empty \in CachedPages /\ 0 \in Values
<1>1. 0 \in Values
  BY DEF Values
<1>2. Blank \in Pages
  BY <1>1 DEF Blank, Pages
<1> QED BY <1>1, <1>2 DEF Empty, CachedPages

\* What a handler does when it is done.
LEMMA FinishType ==
  ASSUME DashboardTypeOK, NEW r \in Requests, Finish(r)
  PROVE  /\ at' \in [Requests -> Places] /\ asked' \in [Requests -> Nat]
         /\ mode' \in [Requests -> Modes \cup {NoMode}] /\ draft' \in [Requests -> Pages]
         /\ at'[r] = "idle" /\ draft'[r] = Blank
         /\ \A q \in Requests \ {r} :
              at'[q] = at[q] /\ asked'[q] = asked[q] /\ draft'[q] = draft[q]
BY NothingTypes DEF DashboardTypeOK, Finish, Proceed, Places

\* What the history is after a step that leaves the database as it was, or sets it.
LEMMA ShowType ==
  ASSUME DashboardTypeOK, Show, db' \in Rows, clock' \in 0 .. MaxClock
  PROVE  shown' \in [Keys -> [Values -> Int]]
<1>1. \A k \in Keys : db'[k] \in Values
  BY DEF Keys, Rows
<1>2. \A k \in Keys : shown[k] \in [Values -> Int]
  BY DEF DashboardTypeOK
<1> QED BY <1>1, <1>2 DEF Show

LEMMA DashboardTypeInit == DashboardInit => DashboardTypeOK
<1> SUFFICES ASSUME DashboardInit PROVE DashboardTypeOK
  OBVIOUS
<1>1. db \in Rows
  BY NothingTypes DEF DashboardInit, Rows
<1>2. shown \in [Keys -> [Values -> Int]]
  BY DEF DashboardInit
<1> QED BY <1>1, <1>2, NothingTypes DEF DashboardInit, DashboardTypeOK, Rows, CachedPages

\* The type invariant in parts: the provers do numbers and truth values apart.
CountersOK ==
  /\ clock \in 0 .. MaxClock
  /\ pages \in 0 .. MaxPages /\ changes \in 0 .. MaxChanges /\ errors \in 0 .. MaxErrors
StoreOK == db \in Rows /\ shown \in [Keys -> [Values -> Int]] /\ cache \in CachedPages
HandlersOK ==
  /\ at \in [Requests -> Places] /\ asked \in [Requests -> Nat]
  /\ mode \in [Requests -> Modes \cup {NoMode}] /\ draft \in [Requests -> Pages]

LEMMA TypeParts == DashboardTypeOK <=> CountersOK /\ StoreOK /\ HandlersOK
BY DEF DashboardTypeOK, CountersOK, StoreOK, HandlersOK, Places, Rows, CachedPages

\* What fits into a setting.
LEMMA ValueTypes == CountersOK => clock \in Values /\ clock \in Nat /\ changes \in Values
BY DEF CountersOK, Values

LEMMA CountersStep == CountersOK /\ [DashboardNext]_dashboardVars => CountersOK'
<1> SUFFICES ASSUME CountersOK, [DashboardNext]_dashboardVars PROVE CountersOK'
  OBVIOUS
<1> USE DEF DashboardNext, dashboardVars, AskPage, GetSetting, ServeCached, MarkSilent,
       MarkSilentFails, ListNodes, KeepPage, EditSettings, ChangeSettings, SetSetting, Invalidate,
       RequestFails, NodeReports, MarkOffline, ClockTicks, ControllerRestarts
<1>1. clock' = clock \/ (clock < MaxClock /\ clock' = clock + 1)
  OBVIOUS
<1>2. pages' = pages \/ (pages < MaxPages /\ pages' = pages + 1)
  OBVIOUS
<1>3. changes' = changes \/ (changes < MaxChanges /\ changes' = changes + 1)
  OBVIOUS
<1>4. errors' = errors \/ (errors < MaxErrors /\ errors' = errors + 1)
  OBVIOUS
<1> QED BY ONLY <1>1, <1>2, <1>3, <1>4, CountersOK, DashboardAssumption DEF CountersOK

LEMMA HandlersStep ==
  CountersOK /\ StoreOK /\ HandlersOK /\ [DashboardNext]_dashboardVars => HandlersOK'
<1> SUFFICES ASSUME CountersOK, StoreOK, HandlersOK, [DashboardNext]_dashboardVars PROVE HandlersOK'
  OBVIOUS
<1> USE NothingTypes
<1>a. DashboardTypeOK
  BY TypeParts
<1>1. ASSUME NEW r \in Requests, NEW order \in Modes, AskPage(r, order) PROVE HandlersOK'
  <2>1. clock \in Nat
    BY ValueTypes
  <2> QED BY <1>1, <2>1 DEF AskPage, Proceed, HandlersOK, Places
<1>2. ASSUME NEW r \in Requests, GetSetting(r) PROVE HandlersOK'
  <2>1. db.name \in Values /\ db.map \in Values
    BY DEF StoreOK, Rows
  <2>2. draft' \in [Requests -> Pages]
    <3>1. draft' = [draft EXCEPT ![r].name = db.name] \/ draft' = [draft EXCEPT ![r].map = db.map]
      BY <1>2 DEF GetSetting
    <3>2. CASE draft' = [draft EXCEPT ![r].name = db.name]
      BY <2>1, <3>2 DEF HandlersOK, Pages
    <3>3. CASE draft' = [draft EXCEPT ![r].map = db.map]
      BY <2>1, <3>3 DEF HandlersOK, Pages
    <3> QED BY <3>1, <3>2, <3>3
  <2>3. at' \in [Requests -> Places]
    BY <1>2 DEF GetSetting, Proceed, HandlersOK, Places
  <2> QED BY <1>2, <2>2, <2>3 DEF GetSetting, HandlersOK
<1>3. ASSUME NEW r \in Requests, Finish(r) PROVE HandlersOK'
  BY <1>3, <1>a, FinishType DEF HandlersOK
<1>4. ASSUME NEW r \in Requests, MarkSilent(r) PROVE HandlersOK'
  <2>1. draft' \in [Requests -> Pages]
    BY <1>4 DEF MarkSilent, HandlersOK, Pages
  <2> QED BY <1>4, <2>1 DEF MarkSilent, Proceed, HandlersOK, Places
<1>5. ASSUME NEW r \in Requests, MarkSilentFails(r) \/ EditSettings(r) PROVE HandlersOK'
  BY <1>5 DEF MarkSilentFails, EditSettings, Proceed, HandlersOK, Places
<1>6. ASSUME NEW r \in Requests, ListNodes(r) PROVE HandlersOK'
  <2>1. db.seen \in Values /\ db.online \in BOOLEAN
    BY DEF StoreOK, Rows
  <2>2. draft' \in [Requests -> Pages]
    BY <1>6, <2>1 DEF ListNodes, HandlersOK, Pages
  <2> QED BY <1>6, <2>2 DEF ListNodes, Proceed, HandlersOK, Places
<1>7. ASSUME NEW r \in Requests, NEW keys, ChangeSettings(r, keys) PROVE HandlersOK'
  <2>1. draft' \in [Requests -> Pages]
    BY <1>7, ValueTypes DEF ChangeSettings, HandlersOK, Pages
  <2> QED BY <1>7, <2>1 DEF ChangeSettings, Proceed, HandlersOK, Places
<1>8. ASSUME NEW r \in Requests, SetSetting(r) PROVE HandlersOK'
  BY <1>8 DEF SetSetting, Proceed, HandlersOK, Places
<1>9. CASE NodeReports \/ MarkOffline \/ ClockTicks \/ UNCHANGED dashboardVars
  BY <1>9 DEF NodeReports, MarkOffline, ClockTicks, dashboardVars, HandlersOK
<1>10. CASE ControllerRestarts
  BY <1>10 DEF ControllerRestarts, HandlersOK, Places
<1> QED BY <1>1, <1>2, <1>3, <1>4, <1>5, <1>6, <1>7, <1>8, <1>9, <1>10
        DEF DashboardNext, ServeCached, KeepPage, Invalidate, RequestFails

LEMMA StoreStep ==
  CountersOK /\ StoreOK /\ HandlersOK /\ [DashboardNext]_dashboardVars => StoreOK'
<1> SUFFICES ASSUME CountersOK, StoreOK, HandlersOK, [DashboardNext]_dashboardVars PROVE StoreOK'
  OBVIOUS
<1>a. DashboardTypeOK /\ CountersOK'
  BY TypeParts, CountersStep
<1>1. ASSUME NEW r \in Requests, KeepPage(r) PROVE StoreOK'
  BY <1>1 DEF KeepPage, Cached, StoreOK, CachedPages, HandlersOK
<1>2. ASSUME NEW r \in Requests, Invalidate(r) PROVE StoreOK'
  BY <1>2, NothingTypes DEF Invalidate, StoreOK
<1>3. ASSUME NEW r \in Requests, MarkSilent(r) PROVE StoreOK'
  <2>1. db' \in Rows
    BY <1>3 DEF MarkSilent, Silent, StoreOK, Rows
  <2> QED BY <1>3, <2>1 DEF MarkSilent, StoreOK
<1>4. ASSUME Show, db' \in Rows, cache' = cache PROVE StoreOK'
  <2>1. clock' \in 0 .. MaxClock
    BY <1>a DEF CountersOK
  <2> QED BY <1>a, <1>4, <2>1, ShowType DEF StoreOK
<1>5. ASSUME NEW r \in Requests, SetSetting(r) PROVE StoreOK'
  <2>1. draft[r].name \in Values /\ draft[r].map \in Values
    BY DEF HandlersOK, Pages
  <2>2. db' \in Rows
    BY <1>5, <2>1 DEF SetSetting, StoreOK, Rows
  <2> QED BY <1>4, <1>5, <2>2 DEF SetSetting
<1>6. CASE NodeReports
  <2>1. db' \in Rows
    BY <1>6, ValueTypes DEF NodeReports, StoreOK, Rows
  <2> QED BY <1>4, <1>6, <2>1 DEF NodeReports
<1>7. CASE MarkOffline
  <2>1. db' \in Rows
    BY <1>7 DEF MarkOffline, StoreOK, Rows
  <2> QED BY <1>7, <2>1 DEF MarkOffline, StoreOK
<1>8. CASE ClockTicks
  <2>1. db' \in Rows
    BY <1>8 DEF ClockTicks, StoreOK
  <2> QED BY <1>4, <1>8, <2>1 DEF ClockTicks
<1>9. CASE ControllerRestarts
  BY <1>9, NothingTypes DEF ControllerRestarts, StoreOK
<1>10. ASSUME UNCHANGED <<db, shown, cache>> PROVE StoreOK'
  BY <1>10 DEF StoreOK
<1> QED BY <1>1, <1>2, <1>3, <1>5, <1>6, <1>7, <1>8, <1>9, <1>10
        DEF DashboardNext, dashboardVars, AskPage, GetSetting, ServeCached, MarkSilentFails,
            ListNodes, EditSettings, ChangeSettings, RequestFails

LEMMA DashboardTypeStep == DashboardTypeOK /\ [DashboardNext]_dashboardVars => DashboardTypeOK'
BY TypeParts, CountersStep, HandlersStep, StoreStep, PTL

\* DashboardTypeOK is an invariant.
THEOREM DashboardTypeCorrect == DashboardSpec => []DashboardTypeOK
BY DashboardTypeInit, DashboardTypeStep, PTL DEF DashboardSpec

-----------------------------------------------------------------------------
(* Pages are recent.  A handler takes the time before it reads anything, so *)
(* all it reads was so at that time or later; a page in the cache keeps the *)
(* time of the request that built it.                                       *)

\* What the database says now is what it said last, and nothing was so later.
ShownInv ==
  /\ \A k \in Keys : shown[k][db[k]] = clock
  /\ \A k \in Keys, v \in Values : shown[k][v] <= clock

\* What was so at some time was so at that time or later after the step, too.
Grows ==
  /\ clock' >= clock
  /\ \A k \in Keys, v \in Values : shown'[k][v] >= shown[k][v]

LEMMA KeyTypes ==
  ASSUME NEW page \in Pages
  PROVE  \A k \in Keys : page[k] \in Values
BY DEF Pages, Keys

LEMMA ShownInit == DashboardInit => ShownInv
<1> SUFFICES ASSUME DashboardInit PROVE ShownInv
  OBVIOUS
<1>1. \A k \in Keys, v \in Values : shown[k][v] = IF v = 0 THEN 0 ELSE -1
  BY DEF DashboardInit
<1>2. clock = 0 /\ \A k \in Keys : db[k] = 0
  BY DEF DashboardInit, Keys
<1> QED BY <1>1, <1>2, NothingTypes DEF ShownInv

LEMMA ShownStep ==
  DashboardTypeOK /\ ShownInv /\ [DashboardNext]_dashboardVars => ShownInv' /\ Grows
<1> SUFFICES ASSUME DashboardTypeOK, ShownInv, [DashboardNext]_dashboardVars
             PROVE  ShownInv' /\ Grows
  OBVIOUS
<1>a. CountersOK /\ StoreOK /\ HandlersOK /\ CountersOK' /\ StoreOK'
  BY TypeParts, CountersStep, StoreStep
<1>b. /\ clock \in Nat /\ clock' \in Nat
      /\ \A k \in Keys : db[k] \in Values /\ db'[k] \in Values
      /\ \A k \in Keys, v \in Values : shown[k][v] \in Int
  <2>1. clock \in Nat /\ clock' \in Nat
    BY <1>a DEF CountersOK
  <2>2. \A k \in Keys : db[k] \in Values /\ db'[k] \in Values
    BY <1>a DEF StoreOK, Rows, Keys
  <2>3. \A k \in Keys, v \in Values : shown[k][v] \in Int
    BY <1>a DEF StoreOK
  <2> QED BY <2>1, <2>2, <2>3
<1>1. CASE UNCHANGED <<clock, shown>> /\ \A k \in Keys : db'[k] = db[k]
  BY <1>b, <1>1 DEF ShownInv, Grows
<1>2. CASE Show /\ clock' >= clock
  <2>1. \A k \in Keys, v \in Values :
          shown'[k][v] = IF v = db'[k] THEN clock' ELSE shown[k][v]
    BY <1>a, <1>2 DEF Show, StoreOK
  <2> QED BY <1>b, <1>2, <2>1 DEF ShownInv, Grows
<1>3. ASSUME NEW r \in Requests, MarkSilent(r) PROVE ShownInv' /\ Grows
  <2>1. UNCHANGED <<clock, shown>> /\ \A k \in Keys : db'[k] = db[k]
    BY <1>3 DEF MarkSilent, Keys
  <2> QED BY <1>1, <2>1
<1>4. CASE MarkOffline
  <2>1. UNCHANGED <<clock, shown>> /\ \A k \in Keys : db'[k] = db[k]
    BY <1>4 DEF MarkOffline, Keys
  <2> QED BY <1>1, <2>1
<1>5. ASSUME NEW r \in Requests, SetSetting(r) PROVE ShownInv' /\ Grows
  <2>1. clock' = clock /\ Show
    BY <1>5 DEF SetSetting
  <2> QED BY <1>b, <1>2, <2>1
<1>6. CASE NodeReports
  BY <1>2, <1>6, <1>b DEF NodeReports
<1>7. CASE ClockTicks
  BY <1>2, <1>7, <1>b DEF ClockTicks
<1>8. CASE UNCHANGED <<clock, db, shown>>
  BY <1>1, <1>8
<1> QED BY <1>3, <1>4, <1>5, <1>6, <1>7, <1>8
        DEF DashboardNext, dashboardVars, AskPage, GetSetting, ServeCached, MarkSilentFails,
            ListNodes, KeepPage, EditSettings, ChangeSettings, Invalidate, RequestFails,
            ControllerRestarts

\* All that a handler that builds a page has read was so when it was asked, or later.
Reading(r) ==
  /\ asked[r] <= clock
  /\ at[r] \in {"map", "cache", "list", "keep"} => shown["name"][draft[r].name] >= asked[r]
  /\ at[r] \in {"cache", "list", "keep"} => shown["map"][draft[r].map] >= asked[r]
  /\ at[r] = "keep" => shown["seen"][draft[r].seen] >= asked[r]

\* Once a handler has marked the silent nodes, one that is online was not silent then.
Marking(r) ==
  /\ at[r] \notin {"list", "keep"} => ~draft[r].marked
  /\ at[r] = "list" /\ draft[r].marked /\ db.online => db.seen >= asked[r] - OfflineAfter
  /\ at[r] = "keep" /\ draft[r].marked /\ draft[r].online =>
       draft[r].seen >= asked[r] - OfflineAfter

\* What a page says was so at a time or later.
So(page, time) ==
  /\ \A k \in Keys : shown[k][page[k]] >= time
  /\ page.marked /\ page.online => page.seen >= time - OfflineAfter

PageInv ==
  /\ \A r \in Requests : Reading(r) /\ Marking(r)
  /\ cache.full => So(cache.page, cache.built)

LEMMA PageInit == DashboardInit => PageInv
<1> SUFFICES ASSUME DashboardInit PROVE PageInv
  OBVIOUS
<1>1. clock = 0 /\ \A r \in Requests : asked[r] = 0 /\ at[r] = "idle" /\ draft[r] = Blank
  BY DEF DashboardInit
<1>2. Blank.marked = FALSE /\ cache.full = FALSE
  BY DEF Blank, DashboardInit, Empty
<1> QED BY <1>1, <1>2 DEF PageInv, Reading, Marking

\* What the steps leave of a handler that does not move.
LEMMA StillReading ==
  ASSUME DashboardTypeOK, Grows, NEW r \in Requests, Reading(r),
         at'[r] = at[r], asked'[r] = asked[r], draft'[r] = draft[r], clock' \in Nat,
         shown' \in [Keys -> [Values -> Int]]
  PROVE  Reading(r)'
<1>1. /\ draft[r].name \in Values /\ draft[r].map \in Values /\ draft[r].seen \in Values
      /\ asked[r] \in Nat
  BY DEF DashboardTypeOK, Pages
<1>2. \A v \in Values : /\ shown'["name"][v] >= shown["name"][v]
                        /\ shown'["map"][v] >= shown["map"][v]
                        /\ shown'["seen"][v] >= shown["seen"][v]
  BY DEF Grows, Keys
<1>3. \A v \in Values : /\ shown["name"][v] \in Int /\ shown'["name"][v] \in Int
                        /\ shown["map"][v] \in Int /\ shown'["map"][v] \in Int
                        /\ shown["seen"][v] \in Int /\ shown'["seen"][v] \in Int
  BY DEF DashboardTypeOK, Keys
<1>4. clock \in Int /\ clock' >= clock
  BY TypeParts DEF CountersOK, Grows
<1> QED BY <1>1, <1>2, <1>3, <1>4 DEF Reading

LEMMA StillMarking ==
  ASSUME DashboardTypeOK, NEW r \in Requests, Reading(r), Marking(r),
         at'[r] = at[r], asked'[r] = asked[r], draft'[r] = draft[r],
         db'.online => (db.online /\ db'.seen = db.seen) \/ db'.seen = clock
  PROVE  Marking(r)'
<1>1. asked[r] \in Nat /\ clock \in Nat
  BY TypeParts DEF HandlersOK, CountersOK
<1>2. db'.online => (db.online /\ db'.seen = db.seen) \/ db'.seen >= asked[r] - OfflineAfter
  BY <1>1 DEF Reading
<1> QED BY <1>2 DEF Marking

LEMMA StillSo ==
  ASSUME DashboardTypeOK, Grows, NEW page \in Pages, NEW time \in Nat, So(page, time),
         shown' \in [Keys -> [Values -> Int]]
  PROVE  So(page, time)'
<1>1. \A k \in Keys : page[k] \in Values
  BY KeyTypes
<1>2. \A k \in Keys, v \in Values : shown[k][v] \in Int /\ shown'[k][v] \in Int
  BY TypeParts DEF StoreOK
<1> QED BY <1>1, <1>2 DEF So, Grows

\* A handler that is done reads nothing.
LEMMA FinishPage ==
  ASSUME DashboardTypeOK, NEW r \in Requests, Finish(r), clock \in Nat, clock' >= clock,
         clock' \in Nat
  PROVE  Reading(r)' /\ Marking(r)'
<1>1. at'[r] = "idle" /\ asked'[r] = 0 /\ draft'[r] = Blank
  BY DEF Finish, Proceed, DashboardTypeOK
<1> QED BY <1>1 DEF Reading, Marking, Blank

\* A handler's step, as far as pages are concerned.
LEMMA HandlerPage ==
  ASSUME DashboardTypeOK, ShownInv, NEW r \in Requests, Reading(r), Marking(r),
         [DashboardNext]_dashboardVars, DashboardTypeOK', Grows,
         \/ \E order \in Modes : AskPage(r, order)
         \/ GetSetting(r) \/ MarkSilent(r) \/ MarkSilentFails(r) \/ ListNodes(r)
         \/ EditSettings(r)
         \/ \E keys \in {{"name"}, {"map"}, {"name", "map"}} : ChangeSettings(r, keys)
         \/ SetSetting(r)
  PROVE  Reading(r)' /\ Marking(r)'
<1>a. /\ clock \in Nat /\ asked[r] \in Nat /\ draft[r] \in Pages /\ at[r] \in Places
      /\ draft[r].name \in Values /\ draft[r].map \in Values /\ draft[r].seen \in Values
  BY TypeParts DEF CountersOK, HandlersOK, Pages
<1>b. /\ db.name \in Values /\ db.map \in Values /\ db.seen \in Values /\ db.online \in BOOLEAN
  BY TypeParts DEF StoreOK, Rows
<1>c. /\ shown["name"][db.name] = clock /\ shown["map"][db.map] = clock
      /\ shown["seen"][db.seen] = clock
  BY DEF ShownInv, Keys
<1>d. HandlersOK
  BY TypeParts
<1>1. ASSUME NEW order \in Modes, AskPage(r, order) PROVE Reading(r)' /\ Marking(r)'
  <2>1. /\ at'[r] = "name" /\ asked'[r] = clock /\ draft'[r] = draft[r] /\ clock' = clock
        /\ at[r] = "idle"
    BY <1>1, <1>d DEF AskPage, Proceed, HandlersOK
  <2> QED BY <1>a, <2>1 DEF Reading, Marking
<1>2. CASE GetSetting(r)
  <2>1. /\ UNCHANGED <<clock, shown>> /\ asked'[r] = asked[r] /\ draft'[r].marked = draft[r].marked
    BY <1>2, <1>d DEF GetSetting, HandlersOK, Pages
  <2>2. CASE at[r] = "name"
    <3>1. at'[r] = "map" /\ draft'[r].name = db.name
      BY <1>2, <1>d, <2>2 DEF GetSetting, Proceed, HandlersOK, Pages
    <3> QED BY <1>a, <1>c, <2>1, <2>2, <3>1 DEF Reading, Marking
  <2>3. CASE at[r] = "map"
    <3>1. at'[r] = "cache" /\ draft'[r].map = db.map /\ draft'[r].name = draft[r].name
      BY <1>2, <1>d, <2>3 DEF GetSetting, Proceed, HandlersOK, Pages
    <3> QED BY <1>a, <1>c, <2>1, <2>3, <3>1 DEF Reading, Marking
  <2>4. CASE at[r] \in {"edit name", "edit map"}
    <3>1. at'[r] \in {"edit map", "change"}
      BY <1>2, <1>d, <2>4 DEF GetSetting, Proceed, HandlersOK
    <3> QED BY <1>a, <2>1, <2>4, <3>1 DEF Reading, Marking
  <2> QED BY <1>2, <2>2, <2>3, <2>4 DEF GetSetting
<1>3. CASE MarkSilent(r)
  <2>1. /\ UNCHANGED <<clock, shown>> /\ asked'[r] = asked[r] /\ at'[r] = "list" /\ at[r] = "cache"
        /\ draft'[r].name = draft[r].name /\ draft'[r].map = draft[r].map
    BY <1>3, <1>d DEF MarkSilent, Proceed, HandlersOK, Pages
  <2>2. db'.online = (db.online /\ ~Silent(asked[r])) /\ db'.seen = db.seen
    BY <1>3, <1>b, TypeParts DEF MarkSilent, StoreOK, Rows
  <2>3. db'.online => db'.seen >= asked'[r] - OfflineAfter
    <3>1. db'.online => ~(db.seen < asked[r] - OfflineAfter)
      BY <2>2 DEF Silent
    <3>2. db.seen \in Int /\ asked[r] - OfflineAfter \in Int
      BY <1>a, <1>b DEF Values
    <3> QED BY <2>1, <2>2, <3>1, <3>2
  <2>4. Reading(r)'
    BY <2>1 DEF Reading
  <2>5. Marking(r)'
    BY <2>1, <2>3 DEF Marking
  <2> QED BY <2>4, <2>5
<1>4. CASE MarkSilentFails(r)
  <2>1. /\ UNCHANGED <<clock, shown>> /\ asked'[r] = asked[r] /\ at'[r] = "list" /\ at[r] = "cache"
        /\ draft'[r] = draft[r]
    BY <1>4, <1>d DEF MarkSilentFails, Proceed, HandlersOK
  <2> QED BY <2>1 DEF Reading, Marking
<1>5. CASE ListNodes(r)
  <2>1. /\ UNCHANGED <<clock, shown>> /\ asked'[r] = asked[r] /\ at'[r] = "keep" /\ at[r] = "list"
    BY <1>5, <1>d DEF ListNodes, Proceed, HandlersOK
  <2>2. /\ draft'[r].name = draft[r].name /\ draft'[r].map = draft[r].map
        /\ draft'[r].marked = draft[r].marked
        /\ draft'[r].seen = db.seen /\ draft'[r].online = db.online
    BY <1>5, <1>d DEF ListNodes, HandlersOK, Pages
  <2>3. Reading(r)'
    BY <1>a, <1>c, <2>1, <2>2 DEF Reading
  <2>4. Marking(r)'
    BY <2>1, <2>2 DEF Marking
  <2> QED BY <2>3, <2>4
<1>6. CASE EditSettings(r) \/ SetSetting(r)
  <2>1. /\ UNCHANGED <<clock>> /\ asked'[r] = asked[r] /\ draft'[r] = draft[r]
        /\ at[r] \in {"idle", "set name", "set map"}
        /\ at'[r] \in {"edit name", "set map", "invalidate"}
    BY <1>6, <1>d DEF EditSettings, SetSetting, Proceed, HandlersOK
  <2> QED BY <2>1 DEF Reading, Marking
<1>7. ASSUME NEW keys, ChangeSettings(r, keys) PROVE Reading(r)' /\ Marking(r)'
  <2>1. /\ UNCHANGED <<clock>> /\ asked'[r] = asked[r] /\ at[r] = "change" /\ at'[r] = "set name"
        /\ draft'[r].marked = draft[r].marked
    BY <1>7, <1>d DEF ChangeSettings, Proceed, HandlersOK, Pages
  <2> QED BY <2>1 DEF Reading, Marking
<1> QED BY <1>1, <1>2, <1>3, <1>4, <1>5, <1>6, <1>7

LEMMA PageStep ==
  DashboardTypeOK /\ ShownInv /\ PageInv /\ [DashboardNext]_dashboardVars => PageInv'
<1> SUFFICES ASSUME DashboardTypeOK, ShownInv, PageInv, [DashboardNext]_dashboardVars PROVE PageInv'
  OBVIOUS
<1>a. DashboardTypeOK' /\ Grows
  BY DashboardTypeStep, ShownStep
<1>b. /\ CountersOK /\ StoreOK /\ HandlersOK /\ clock \in Nat /\ clock' \in Nat /\ clock' >= clock
      /\ shown' \in [Keys -> [Values -> Int]]
  <2>1. CountersOK /\ StoreOK /\ HandlersOK /\ CountersOK' /\ StoreOK'
    BY TypeParts, CountersStep, StoreStep
  <2> QED BY <1>a, <2>1 DEF CountersOK, StoreOK, Grows
<1>c. \A r \in Requests : Reading(r) /\ Marking(r)
  BY DEF PageInv
<1>1. ASSUME cache' = cache PROVE cache'.full => So(cache.page, cache.built)'
  <2>1. cache.page \in Pages /\ cache.built \in Nat
    BY <1>b DEF StoreOK, CachedPages
  <2> QED BY <1>1, <1>a, <1>b, <2>1, StillSo DEF PageInv, So
\* What the handlers do that do not move.
<1>2. ASSUME NEW q \in Requests, at'[q] = at[q], asked'[q] = asked[q], draft'[q] = draft[q],
             db'.online => (db.online /\ db'.seen = db.seen) \/ db'.seen = clock
      PROVE  Reading(q)' /\ Marking(q)'
  BY <1>2, <1>a, <1>b, <1>c, StillReading, StillMarking
<1>3. ASSUME NEW r \in Requests,
             \/ \E order \in Modes : AskPage(r, order)
             \/ GetSetting(r) \/ MarkSilent(r) \/ MarkSilentFails(r) \/ ListNodes(r)
             \/ EditSettings(r)
             \/ \E keys \in {{"name"}, {"map"}, {"name", "map"}} : ChangeSettings(r, keys)
             \/ SetSetting(r)
      PROVE  PageInv'
  <2> USE DEF AskPage, GetSetting, MarkSilent, MarkSilentFails, ListNodes, EditSettings,
              ChangeSettings, SetSetting
  <2>1. cache' = cache
    BY <1>3
  <2>2. \A q \in Requests \ {r} : at'[q] = at[q] /\ asked'[q] = asked[q] /\ draft'[q] = draft[q]
    BY <1>3, <1>b DEF Proceed, HandlersOK
  <2>3. db'.online => db.online /\ db'.seen = db.seen
    BY <1>3, <1>b DEF StoreOK, Rows
  <2>4. Reading(r)' /\ Marking(r)'
    BY <1>3, <1>a, <1>c, HandlerPage
  <2> QED BY <1>1, <1>2, <2>1, <2>2, <2>3, <2>4 DEF PageInv
<1>4. ASSUME NEW r \in Requests, ServeCached(r) \/ KeepPage(r) \/ Invalidate(r) \/ RequestFails(r)
      PROVE  PageInv'
  <2>1. Finish(r) /\ UNCHANGED <<clock, db, shown>>
    BY <1>4 DEF ServeCached, KeepPage, Invalidate, RequestFails
  <2>2. \A q \in Requests \ {r} : Reading(q)' /\ Marking(q)'
    <3>1. \A q \in Requests \ {r} : at'[q] = at[q] /\ asked'[q] = asked[q] /\ draft'[q] = draft[q]
      BY <2>1, FinishType
    <3> QED BY <1>2, <2>1, <3>1
  <2>3. Reading(r)' /\ Marking(r)'
    BY <1>b, <2>1, FinishPage
  <2>4. CASE cache' = cache
    BY <1>1, <2>2, <2>3, <2>4 DEF PageInv
  <2>5. CASE KeepPage(r)
    <3>1. cache' = Cached(draft[r], mode[r], asked[r]) /\ at[r] = "keep"
      BY <2>5 DEF KeepPage
    <3>2. cache'.page = draft[r] /\ cache'.built = asked[r]
      BY <3>1 DEF Cached
    <3>3. \A k \in Keys : shown[k][draft[r][k]] >= asked[r]
      BY <1>c, <3>1 DEF Reading, Keys
    <3>4. draft[r].marked /\ draft[r].online => draft[r].seen >= asked[r] - OfflineAfter
      BY <1>c, <3>1 DEF Marking
    <3>5. So(cache.page, cache.built)'
      BY <2>1, <3>2, <3>3, <3>4 DEF So
    <3> QED BY <2>2, <2>3, <3>5 DEF PageInv
  <2>6. CASE Invalidate(r)
    <3>1. cache'.full = FALSE
      BY <2>6 DEF Invalidate, Empty
    <3> QED BY <2>2, <2>3, <3>1 DEF PageInv
  <2> QED BY <1>4, <2>4, <2>5, <2>6 DEF ServeCached, RequestFails
<1>5. CASE NodeReports \/ MarkOffline \/ ClockTicks \/ UNCHANGED dashboardVars
  <2>1. UNCHANGED <<cache, at, asked, draft>>
    BY <1>5 DEF NodeReports, MarkOffline, ClockTicks, dashboardVars
  <2>2. db'.online => (db.online /\ db'.seen = db.seen) \/ db'.seen = clock
    BY <1>5, <1>b DEF NodeReports, MarkOffline, ClockTicks, dashboardVars, StoreOK, Rows
  <2> QED BY <1>1, <1>2, <2>1, <2>2 DEF PageInv
<1>6. CASE ControllerRestarts
  <2>1. \A r \in Requests : at'[r] = "idle" /\ asked'[r] = 0 /\ draft'[r] = Blank
    BY <1>6 DEF ControllerRestarts
  <2>2. cache'.full = FALSE
    BY <1>6 DEF ControllerRestarts, Empty
  <2> QED BY <1>b, <2>1, <2>2 DEF PageInv, Reading, Marking, Blank
<1> QED BY <1>3, <1>4, <1>5, <1>6 DEF DashboardNext

\* What was so at a time less than TTL before another is recent then.
LEMMA SoIsRecent ==
  ASSUME DashboardTypeOK, NEW page \in Pages, NEW built \in Nat, NEW time \in Nat,
         time - built < TTL, So(page, built)
  PROVE  Recent(page, time)
<1>1. \A k \in Keys : shown[k][page[k]] \in Int
  <2>1. \A k \in Keys : page[k] \in Values
    BY KeyTypes
  <2> QED BY <2>1, TypeParts DEF StoreOK
<1>2. page.seen \in Int
  BY DEF Pages, Values
<1> QED BY <1>1, <1>2 DEF So, Recent

LEMMA PageServed ==
  DashboardTypeOK /\ PageInv =>
    \A r \in Requests : /\ ServeCached(r) => Recent(cache.page, asked[r])
                        /\ KeepPage(r) => Recent(draft[r], asked[r])
<1> SUFFICES ASSUME DashboardTypeOK, PageInv, NEW r \in Requests
             PROVE  /\ ServeCached(r) => Recent(cache.page, asked[r])
                    /\ KeepPage(r) => Recent(draft[r], asked[r])
  OBVIOUS
<1>1. /\ asked[r] \in Nat /\ draft[r] \in Pages /\ cache.page \in Pages /\ cache.built \in Nat
  BY TypeParts DEF HandlersOK, StoreOK, CachedPages
<1>2. ASSUME ServeCached(r) PROVE Recent(cache.page, asked[r])
  BY <1>1, <1>2, SoIsRecent DEF ServeCached, Usable, PageInv
<1>3. ASSUME KeepPage(r) PROVE Recent(draft[r], asked[r])
  <2>1. at[r] = "keep" /\ Reading(r) /\ Marking(r)
    BY <1>3 DEF KeepPage, PageInv
  <2>2. So(draft[r], asked[r])
    BY <2>1 DEF So, Reading, Marking, Keys
  <2>3. asked[r] - asked[r] < TTL
    BY <1>1
  <2> QED BY <1>1, <2>2, <2>3, SoIsRecent
<1> QED BY <1>2, <1>3

\* PageIsRecent is a property of every step: for any number of handlers, whatever
\* the times to live and however requests, changes, failures and restarts interleave,
\* nothing a page says was over for as long as TTL when the page was asked for.
THEOREM RecentCorrect == DashboardSpec => PageIsRecent
<1>1. DashboardTypeOK /\ PageInv /\ [DashboardNext]_dashboardVars =>
        [\A r \in Requests : /\ ServeCached(r) => Recent(cache.page, asked[r])
                             /\ KeepPage(r) => Recent(draft[r], asked[r])]_dashboardVars
  BY PageServed
<1> QED BY <1>1, DashboardTypeInit, DashboardTypeStep, ShownInit, ShownStep, PageInit, PageStep, PTL
        DEF DashboardSpec, PageIsRecent

HIDE DashboardAssumption DEF DashboardAssumption

-----------------------------------------------------------------------------
(* Live telemetry.                                                         *)

USE TelemetryAssumption DEF TelemetryAssumption

StreamStates == {"none", "waiting", "writing", "leaving"}
Rounds == [event : Events, ahead : SUBSET Streams, to : Streams \cup {Nobody}, try : 0 .. 3]

\* A publisher that is not resting has the mutex, and what it has to come to is
\* subscribed, the one it is at included.
Busy(p) ==
  /\ hubMu = p
  /\ round[p].event = published /\ published # 0
  /\ round[p].ahead \subseteq subscribed
  /\ \/ round[p].to = Nobody /\ round[p].try = 0
     \/ round[p].to \in subscribed \ round[p].ahead /\ round[p].try \in 1 .. 3

HubInv == \A p \in Publishers : round[p] = Resting \/ Busy(p)

LEMMA SmallFacts == Events \subseteq Nat /\ 0 \in Events /\ Resting \in Rounds
BY DEF Events, Resting, Round, Rounds

LEMMA TelemetryTypeInit == TelemetryInit => TelemetryTypeOK /\ HubInv
<1> SUFFICES ASSUME TelemetryInit PROVE TelemetryTypeOK /\ HubInv
  OBVIOUS
<1>1. HubInv
  BY DEF TelemetryInit, HubInv
<1>2. round \in [Publishers -> Rounds]
  BY SmallFacts DEF TelemetryInit
<1>3. opened \in 0 .. MaxStreams
  BY DEF TelemetryInit
<1>4. TelemetryTypeOK
  BY <1>2, <1>3, SmallFacts DEF TelemetryInit, TelemetryTypeOK, Rounds
<1> QED BY <1>1, <1>4

\* What each action of a publisher does to its round.
LEMMA PublishRound ==
  ASSUME TelemetryTypeOK, NEW p \in Publishers, Publish(p)
  PROVE  /\ published' = published + 1 /\ published' \in Events
         /\ round' \in [Publishers -> Rounds]
         /\ round'[p] = Round(published', subscribed, Nobody, 0)
         /\ \A q \in Publishers \ {p} : round'[q] = round[q]
<1>1. published' = published + 1 /\ published' \in Events
  BY DEF Publish, TelemetryTypeOK, Events
<1>2. Round(published', subscribed, Nobody, 0) \in Rounds
  BY <1>1 DEF TelemetryTypeOK, Round, Rounds
<1> QED BY <1>1, <1>2 DEF Publish, TelemetryTypeOK, Rounds

LEMMA VisitRound ==
  ASSUME TelemetryTypeOK, NEW p \in Publishers, NEW s \in Streams, Visit(p, s)
  PROVE  /\ round' \in [Publishers -> Rounds]
         /\ round'[p].event = round[p].event /\ round'[p].ahead = round[p].ahead \ {s}
         /\ round'[p].to = s /\ round'[p].try = 1
         /\ \A q \in Publishers \ {p} : round'[q] = round[q]
<1>1. round \in [Publishers -> Rounds]
  BY DEF TelemetryTypeOK, Rounds
<1>2. round' = [round EXCEPT ![p] = Round(round[p].event, round[p].ahead \ {s}, s, 1)]
  BY <1>1 DEF Visit, Round, Rounds
<1>3. Round(round[p].event, round[p].ahead \ {s}, s, 1) \in Rounds
  BY <1>1 DEF Round, Rounds
<1>4. /\ round' \in [Publishers -> Rounds]
      /\ round'[p] = Round(round[p].event, round[p].ahead \ {s}, s, 1)
      /\ \A q \in Publishers \ {p} : round'[q] = round[q]
  BY <1>1, <1>2, <1>3
<1> QED BY <1>4 DEF Round

LEMMA AttemptRound ==
  ASSUME TelemetryTypeOK, NEW p \in Publishers, NEW n \in 0 .. 3, Attempt(p, n)
  PROVE  /\ round' \in [Publishers -> Rounds]
         /\ round'[p].event = round[p].event /\ round'[p].ahead = round[p].ahead
         /\ round'[p].to = (IF n = 0 THEN Nobody ELSE round[p].to) /\ round'[p].try = n
         /\ \A q \in Publishers \ {p} : round'[q] = round[q]
<1> DEFINE next == Round(round[p].event, round[p].ahead, IF n = 0 THEN Nobody ELSE round[p].to, n)
<1>1. round \in [Publishers -> Rounds]
  BY DEF TelemetryTypeOK, Rounds
<1>2. round' = [round EXCEPT ![p] = next]
  <2> DEFINE to == IF n = 0 THEN Nobody ELSE round[p].to
             r == round[p]
  <2>1. [r EXCEPT !.try = n] = Round(r.event, r.ahead, r.to, n)
    BY <1>1 DEF Rounds, Round
  <2>2. [Round(r.event, r.ahead, r.to, n) EXCEPT !.to = to] = Round(r.event, r.ahead, to, n)
    BY DEF Round
  <2>3. round' = [round EXCEPT ![p] = [[r EXCEPT !.try = n] EXCEPT !.to = to]]
    BY <1>1 DEF Attempt, Rounds
  <2> QED BY <2>1, <2>2, <2>3
<1>3. next \in Rounds
  BY <1>1 DEF Round, Rounds
<1>4. /\ round' \in [Publishers -> Rounds] /\ round'[p] = next
      /\ \A q \in Publishers \ {p} : round'[q] = round[q]
  BY <1>1, <1>2, <1>3
<1> QED BY <1>4 DEF Round

\* The four outcomes of an attempt.
LEMMA OfferCases ==
  ASSUME TelemetryTypeOK, NEW p \in Publishers, Offer(p)
  PROVE  \/ round[p].try \in {1, 3} /\ Put(p)
         \/ round[p].try = 1 /\ channel' = channel /\ Attempt(p, 2)
         \/ round[p].try = 3 /\ channel[round[p].to] # 0 /\ channel' = channel /\ Attempt(p, 0)
         \/ round[p].try = 2 /\ channel' = [channel EXCEPT ![round[p].to] = 0] /\ Attempt(p, 3)
BY DEF Offer

LEMMA TelemetryTypeStep == TelemetryTypeOK /\ HubInv /\ [TelemetryNext]_telemetryVars => TelemetryTypeOK'
<1> SUFFICES ASSUME TelemetryTypeOK, HubInv, [TelemetryNext]_telemetryVars PROVE TelemetryTypeOK'
  OBVIOUS
<1> USE DEF streamVars, StreamStates
<1>1. ASSUME NEW p \in Publishers, Publish(p) PROVE TelemetryTypeOK'
  BY <1>1, PublishRound DEF Publish, TelemetryTypeOK, Rounds
<1>2. ASSUME NEW p \in Publishers, NEW s \in Streams, Visit(p, s) PROVE TelemetryTypeOK'
  BY <1>2, VisitRound DEF Visit, TelemetryTypeOK, Rounds
<1>3. ASSUME NEW p \in Publishers, Offer(p) PROVE TelemetryTypeOK'
  <2>1. round' \in [Publishers -> Rounds]
    <3>1. 0 \in 0 .. 3 /\ 2 \in 0 .. 3 /\ 3 \in 0 .. 3
      OBVIOUS
    <3> QED BY <1>3, <3>1, OfferCases, AttemptRound DEF Put
  <2>2. channel' \in [Streams -> Events]
    <3>1. round[p].event \in Events /\ 0 \in Events
      BY SmallFacts DEF TelemetryTypeOK
    <3> QED BY <1>3, <3>1, OfferCases DEF Put, TelemetryTypeOK
  <2> QED BY <1>3, <2>1, <2>2 DEF Offer, TelemetryTypeOK, Rounds
<1>4. ASSUME NEW p \in Publishers, EndRound(p) PROVE TelemetryTypeOK'
  BY <1>4, SmallFacts DEF EndRound, TelemetryTypeOK, Rounds
<1>5. ASSUME NEW s \in Streams, Subscribe(s) PROVE TelemetryTypeOK'
  <2>1. opened' \in 0 .. MaxStreams
    BY <1>5 DEF Subscribe, TelemetryTypeOK
  <2> QED BY <1>5, <2>1, SmallFacts DEF Subscribe, At, TelemetryTypeOK
<1>6. ASSUME NEW s \in Streams, Take(s) \/ Write(s) \/ Gone(s) PROVE TelemetryTypeOK'
  BY <1>6, SmallFacts DEF Take, Write, Gone, At, TelemetryTypeOK
<1>7. ASSUME NEW s \in Streams, Keepalive(s) \/ CheckSession(s) PROVE TelemetryTypeOK'
  BY <1>7 DEF Keepalive, CheckSession, At, TelemetryTypeOK
<1>8. ASSUME NEW s \in Streams, Unsubscribe(s) \/ SessionEnds(s) PROVE TelemetryTypeOK'
  BY <1>8 DEF Unsubscribe, SessionEnds, At, TelemetryTypeOK
<1>9. CASE UNCHANGED telemetryVars
  BY <1>9 DEF telemetryVars, TelemetryTypeOK
<1> QED
  BY <1>1, <1>2, <1>3, <1>4, <1>5, <1>6, <1>7, <1>8, <1>9 DEF TelemetryNext

\* While somebody has the mutex nobody subscribes, unsubscribes or publishes.
LEMMA HubStep == TelemetryTypeOK /\ HubInv /\ [TelemetryNext]_telemetryVars => HubInv'
<1> SUFFICES ASSUME TelemetryTypeOK, HubInv, [TelemetryNext]_telemetryVars PROVE HubInv'
  OBVIOUS
<1> USE DEF streamVars
<1>1. ASSUME hubMu = Nobody PROVE \A q \in Publishers : round[q] = Resting
  BY <1>1 DEF HubInv, Busy
<1>2. ASSUME NEW p \in Publishers, round[p] # Resting
      PROVE  hubMu = p /\ \A q \in Publishers \ {p} : round[q] = Resting
  BY <1>2 DEF HubInv, Busy
<1>2a. ASSUME NEW p \in Publishers, \A q \in Publishers \ {p} : round'[q] = Resting, Busy(p)' PROVE HubInv'
  BY <1>2a DEF HubInv
<1>3. ASSUME NEW p \in Publishers, Publish(p) PROVE HubInv'
  <2>1. /\ hubMu' = p /\ subscribed' = subscribed /\ published \in Nat
        /\ \A q \in Publishers : round[q] = Resting
    BY <1>1, <1>3, SmallFacts DEF Publish, TelemetryTypeOK
  <2> QED BY <1>3, <1>2a, <2>1, PublishRound DEF Busy, Round
<1>4. ASSUME NEW p \in Publishers, NEW s \in Streams, Visit(p, s) PROVE HubInv'
  <2>1. round[p] # Resting /\ UNCHANGED <<hubMu, published, subscribed>> /\ s \in round[p].ahead
    BY <1>4 DEF Visit, Resting, Round
  <2>2. Busy(p) /\ \A q \in Publishers \ {p} : round'[q] = Resting
    BY <1>2, <1>4, <2>1, VisitRound DEF HubInv
  <2>3. Busy(p)'
    <3>2. s \in subscribed \ (round[p].ahead \ {s})
      BY <2>1, <2>2 DEF Busy
    <3> QED BY <1>4, <2>1, <2>2, <3>2, VisitRound DEF Busy
  <2> QED BY <1>2a, <2>2, <2>3
<1>5. ASSUME NEW p \in Publishers, Offer(p) PROVE HubInv'
  <2>1. round[p].try # 0 /\ round[p] # Resting /\ UNCHANGED <<hubMu, published, subscribed>>
    BY <1>5 DEF Offer, Resting, Round
  <2>2. Busy(p) /\ round[p].to \in subscribed \ round[p].ahead
    BY <2>1 DEF HubInv, Busy
  <2>3. \E n \in {0, 2, 3} : Attempt(p, n)
    BY <1>5, OfferCases DEF Put
  <2>4. PICK n \in {0, 2, 3} : Attempt(p, n)
    BY <2>3
  <2>5. /\ round'[p].event = round[p].event /\ round'[p].ahead = round[p].ahead
        /\ round'[p].to = (IF n = 0 THEN Nobody ELSE round[p].to) /\ round'[p].try = n
        /\ \A q \in Publishers \ {p} : round'[q] = round[q]
    <3>1. n \in 0 .. 3
      BY <2>4
    <3> QED BY <2>4, <3>1, AttemptRound
  <2>6. Busy(p)'
    BY <2>1, <2>2, <2>5 DEF Busy
  <2> QED BY <1>2, <1>2a, <2>1, <2>5, <2>6
<1>6. ASSUME NEW p \in Publishers, EndRound(p) PROVE HubInv'
  <2>1. round[p] # Resting /\ round'[p] = Resting /\ \A q \in Publishers \ {p} : round'[q] = round[q]
    BY <1>6 DEF EndRound, TelemetryTypeOK, Resting, Round
  <2> QED BY <1>2, <2>1 DEF HubInv
<1>7. ASSUME NEW s \in Streams, Subscribe(s) \/ Unsubscribe(s) PROVE HubInv'
  <2>1. hubMu = Nobody /\ round' = round
    BY <1>7 DEF Subscribe, Unsubscribe
  <2> QED BY <1>1, <2>1 DEF HubInv
<1>8. ASSUME UNCHANGED <<hubMu, published, round, subscribed>> PROVE HubInv'
  BY <1>8 DEF HubInv, Busy
<1>9. ASSUME NEW s \in Streams,
             Take(s) \/ Keepalive(s) \/ Write(s) \/ Gone(s) \/ CheckSession(s) \/ SessionEnds(s)
      PROVE  HubInv'
  BY <1>8, <1>9 DEF Take, Keepalive, Write, Gone, CheckSession, SessionEnds
<1>10. CASE UNCHANGED telemetryVars
  BY <1>8, <1>10 DEF telemetryVars
<1> QED
  BY <1>3, <1>4, <1>5, <1>6, <1>7, <1>9, <1>10 DEF TelemetryNext

\* TelemetryTypeOK is an invariant, for any number of publishers and streams.
THEOREM TelemetryTypeCorrect == TelemetrySpec => []TelemetryTypeOK
<1>1. TelemetryTypeOK /\ HubInv /\ [TelemetryNext]_telemetryVars => TelemetryTypeOK' /\ HubInv'
  BY TelemetryTypeStep, HubStep
<1> QED
  BY <1>1, TelemetryTypeInit, PTL DEF TelemetrySpec

-----------------------------------------------------------------------------
(* No event goes to a channel that is closed.                              *)

OpenInv == subscribed \cap closed = {}

LEMMA OpenStep == TelemetryTypeOK /\ OpenInv /\ [TelemetryNext]_telemetryVars => OpenInv'
<1> SUFFICES ASSUME TelemetryTypeOK, OpenInv, [TelemetryNext]_telemetryVars PROVE OpenInv'
  OBVIOUS
<1> USE DEF OpenInv, streamVars
<1>1. ASSUME NEW s \in Streams, Subscribe(s) \/ Unsubscribe(s) PROVE OpenInv'
  BY <1>1 DEF Subscribe, Unsubscribe
<1>2. ASSUME NEW s \in Streams,
             Take(s) \/ Keepalive(s) \/ Write(s) \/ Gone(s) \/ CheckSession(s) \/ SessionEnds(s)
      PROVE  OpenInv'
  BY <1>2 DEF Take, Keepalive, Write, Gone, CheckSession, SessionEnds
<1>3. ASSUME NEW p \in Publishers, Publish(p) \/ Offer(p) \/ EndRound(p) \/ \E s \in Streams : Visit(p, s)
      PROVE  OpenInv'
  BY <1>3 DEF Publish, Offer, EndRound, Visit
<1>4. CASE UNCHANGED telemetryVars
  BY <1>4 DEF telemetryVars
<1> QED
  BY <1>1, <1>2, <1>3, <1>4 DEF TelemetryNext

LEMMA HubInvariant == TelemetrySpec => [](TelemetryTypeOK /\ HubInv)
<1>1. TelemetryTypeOK /\ HubInv /\ [TelemetryNext]_telemetryVars => TelemetryTypeOK' /\ HubInv'
  BY TelemetryTypeStep, HubStep
<1> QED
  BY <1>1, TelemetryTypeInit, PTL DEF TelemetrySpec

\* NoSendToClosed is an invariant: the mutex is held for a whole round, and
\* without it no channel is closed.
THEOREM OpenCorrect == TelemetrySpec => []NoSendToClosed
<1>1. TelemetryInit => OpenInv
  BY DEF TelemetryInit, OpenInv
<1>2. TelemetryTypeOK /\ HubInv /\ OpenInv => NoSendToClosed
  <2> SUFFICES ASSUME TelemetryTypeOK, HubInv, OpenInv, NEW p \in Publishers PROVE round[p].to \notin closed
    BY DEF NoSendToClosed
  <2>1. round[p].to = Nobody \/ round[p].to \in subscribed
    BY DEF HubInv, Busy, Resting, Round
  <2>2. Nobody \notin closed
    BY DEF TelemetryTypeOK
  <2> QED BY <2>1, <2>2 DEF OpenInv
<1> QED
  BY <1>1, <1>2, OpenStep, HubInvariant, PTL DEF TelemetrySpec

-----------------------------------------------------------------------------
(* Events keep their order, and the newest one is not lost.                *)

\* From the browser back to the publishers, what is on its way is never older.
InOrder(s) ==
  /\ written[s] <= published /\ joined[s] <= published
  /\ writing[s] # 0 => written[s] <= writing[s] /\ writing[s] <= published
  /\ channel[s] # 0 => /\ written[s] <= channel[s] /\ writing[s] <= channel[s]
                       /\ channel[s] <= published
  /\ stream[s] # "writing" => writing[s] = 0

\* An offer's last attempt finds the channel empty.
LastAttempt == \A p \in Publishers : round[p].try = 3 => channel[round[p].to] = 0

OrderInv == LastAttempt /\ \A s \in Streams : InOrder(s)

LEMMA OrderInit == TelemetryInit => OrderInv
<1> SUFFICES ASSUME TelemetryInit PROVE OrderInv
  OBVIOUS
<1>1. LastAttempt
  BY DEF TelemetryInit, LastAttempt, Resting, Round
<1>2. ASSUME NEW s \in Streams PROVE InOrder(s)
  BY DEF TelemetryInit, InOrder
<1> QED BY <1>1, <1>2 DEF OrderInv

LEMMA NumberTypes ==
  ASSUME TelemetryTypeOK, NEW s \in Streams
  PROVE  /\ published \in Nat /\ channel[s] \in Nat /\ writing[s] \in Nat
         /\ written[s] \in Nat /\ joined[s] \in Nat
BY SmallFacts DEF TelemetryTypeOK

LEMMA OrderStep ==
  TelemetryTypeOK /\ HubInv /\ OrderInv /\ [TelemetryNext]_telemetryVars => OrderInv'
<1> SUFFICES ASSUME TelemetryTypeOK, HubInv, OrderInv, [TelemetryNext]_telemetryVars PROVE OrderInv'
  OBVIOUS
<1> USE DEF streamVars
<1>1. LastAttempt /\ \A s \in Streams : InOrder(s)
  BY DEF OrderInv
<1>2. ASSUME UNCHANGED <<published, round, channel, stream, writing, written, joined>> PROVE OrderInv'
  BY <1>1, <1>2 DEF OrderInv, LastAttempt, InOrder
<1>3. ASSUME NEW p \in Publishers, Publish(p) PROVE OrderInv'
  <2>1. published' = published + 1 /\ UNCHANGED streamVars
    BY <1>3 DEF Publish
  <2>2. ASSUME NEW s \in Streams PROVE InOrder(s)'
    BY <1>1, <2>1, NumberTypes DEF InOrder
  <2>3. LastAttempt'
    BY <1>1, <1>3, <2>1, PublishRound DEF LastAttempt, Round
  <2> QED BY <2>2, <2>3 DEF OrderInv
<1>4. ASSUME NEW p \in Publishers, NEW s \in Streams, Visit(p, s) PROVE OrderInv'
  <2>1. UNCHANGED <<published, streamVars>>
    BY <1>4 DEF Visit
  <2>2. \A t \in Streams : InOrder(t)'
    BY <1>1, <2>1 DEF InOrder
  <2>3. LastAttempt'
    BY <1>1, <1>4, <2>1, VisitRound DEF LastAttempt
  <2> QED BY <2>2, <2>3 DEF OrderInv
<1>5. ASSUME NEW p \in Publishers, Offer(p) PROVE OrderInv'
  <2> DEFINE to == round[p].to
  <2>1. /\ round[p].event = published /\ published # 0 /\ to \in Streams
        /\ \A q \in Publishers \ {p} : round[q] = Resting
        /\ UNCHANGED <<published, stream, writing, written, joined>>
    BY <1>5 DEF Offer, HubInv, Busy, Resting, Round, TelemetryTypeOK
  <2>2. \/ channel' = channel
        \/ channel' = [channel EXCEPT ![to] = published]
        \/ channel' = [channel EXCEPT ![to] = 0]
    BY <1>5, <2>1, OfferCases DEF Put
  <2>3. ASSUME NEW s \in Streams PROVE InOrder(s)'
    <3>1. channel'[s] \in {channel[s], published, 0}
      BY <2>1, <2>2 DEF TelemetryTypeOK
    <3> QED BY <1>1, <2>1, <3>1, NumberTypes DEF InOrder
  <2>4. LastAttempt'
    <3>1. ASSUME NEW q \in Publishers \ {p} PROVE round'[q].try # 3
      <4>1. \E n \in {0, 2, 3} : Attempt(p, n)
        BY <1>5, OfferCases DEF Put
      <4>2. round'[q] = Resting
        BY <2>1, <4>1 DEF Attempt, TelemetryTypeOK
      <4> QED BY <4>2 DEF Resting, Round
    <3>2. ASSUME round'[p].try = 3 PROVE channel'[round'[p].to] = 0
      <4>1. channel' = [channel EXCEPT ![to] = 0] /\ Attempt(p, 3)
        <5>1. ASSUME NEW n \in {0, 2}, Attempt(p, n) PROVE FALSE
          <6>1. n \in 0 .. 3
            OBVIOUS
          <6> QED BY <3>2, <5>1, <6>1, AttemptRound
        <5> QED BY <1>5, <5>1, OfferCases DEF Put
      <4>2. round'[p].to = to
        BY <4>1, AttemptRound
      <4> QED BY <2>1, <4>1, <4>2 DEF TelemetryTypeOK
    <3> QED BY <3>1, <3>2 DEF LastAttempt
  <2> QED BY <2>3, <2>4 DEF OrderInv
<1>6. ASSUME NEW p \in Publishers, EndRound(p) PROVE OrderInv'
  <2>1. /\ UNCHANGED <<published, streamVars>> /\ round'[p] = Resting
        /\ \A q \in Publishers \ {p} : round'[q] = round[q]
    BY <1>6 DEF EndRound, TelemetryTypeOK
  <2>2. \A s \in Streams : InOrder(s)'
    BY <1>1, <2>1 DEF InOrder
  <2>3. LastAttempt'
    BY <1>1, <2>1 DEF LastAttempt, Resting, Round
  <2> QED BY <2>2, <2>3 DEF OrderInv
\* A stream changes what is its own, and may empty its channel.
<1>7. ASSUME NEW s \in Streams, UNCHANGED <<published, round>>, InOrder(s)',
             channel'[s] \in {channel[s], 0},
             \A t \in Streams \ {s} : /\ channel'[t] = channel[t] /\ writing'[t] = writing[t]
                                      /\ written'[t] = written[t] /\ joined'[t] = joined[t]
                                      /\ stream'[t] = stream[t]
      PROVE  OrderInv'
  <2>1. \A t \in Streams : InOrder(t)'
    BY <1>1, <1>7 DEF InOrder
  <2>2. ASSUME NEW p \in Publishers, round[p].try = 3 PROVE channel'[round[p].to] = 0
    <3>1. round[p].to \in Streams /\ channel[round[p].to] = 0
      BY <1>1, <2>2 DEF LastAttempt, HubInv, Busy, Resting, Round, TelemetryTypeOK
    <3> QED BY <1>7, <3>1
  <2> QED BY <1>7, <2>1, <2>2 DEF OrderInv, LastAttempt
<1>8. ASSUME NEW s \in Streams, Subscribe(s) PROVE OrderInv'
  <2>1. InOrder(s)'
    BY <1>1, <1>8, NumberTypes DEF Subscribe, At, InOrder, TelemetryTypeOK
  <2> QED BY <1>7, <1>8, <2>1 DEF Subscribe, At, TelemetryTypeOK
<1>9. ASSUME NEW s \in Streams, Take(s) PROVE OrderInv'
  <2>1. InOrder(s)'
    BY <1>1, <1>9, NumberTypes DEF Take, At, InOrder, TelemetryTypeOK
  <2> QED BY <1>7, <1>9, <2>1 DEF Take, At, TelemetryTypeOK
<1>10. ASSUME NEW s \in Streams, Write(s) PROVE OrderInv'
  <2>1. InOrder(s)'
    BY <1>1, <1>10, NumberTypes DEF Write, At, InOrder, TelemetryTypeOK
  <2> QED BY <1>7, <1>10, <2>1 DEF Write, At, TelemetryTypeOK
<1>11. ASSUME NEW s \in Streams, Gone(s) PROVE OrderInv'
  <2>1. InOrder(s)'
    BY <1>1, <1>11, NumberTypes DEF Gone, At, InOrder, TelemetryTypeOK
  <2> QED BY <1>7, <1>11, <2>1 DEF Gone, At, TelemetryTypeOK
<1>12. ASSUME NEW s \in Streams, Keepalive(s) \/ CheckSession(s) \/ Unsubscribe(s) PROVE OrderInv'
  <2>1. InOrder(s)'
    BY <1>1, <1>12 DEF Keepalive, CheckSession, Unsubscribe, At, InOrder, TelemetryTypeOK
  <2> QED BY <1>7, <1>12, <2>1 DEF Keepalive, CheckSession, Unsubscribe, At, TelemetryTypeOK
<1>13. ASSUME NEW s \in Streams, SessionEnds(s) PROVE OrderInv'
  BY <1>2, <1>13 DEF SessionEnds
<1>14. CASE UNCHANGED telemetryVars
  BY <1>2, <1>14 DEF telemetryVars
<1> QED
  BY <1>3, <1>4, <1>5, <1>6, <1>8, <1>9, <1>10, <1>11, <1>12, <1>13, <1>14 DEF TelemetryNext

LEMMA OrderInvariant == TelemetrySpec => [](TelemetryTypeOK /\ HubInv /\ OrderInv)
  BY HubInvariant, OrderInit, OrderStep, PTL DEF TelemetrySpec

\* NeverBackwards holds: no browser gets an event that is older than one it got
\* on the same stream.
THEOREM OrderCorrect == TelemetrySpec => NeverBackwards
<1>1. TelemetryTypeOK /\ OrderInv /\ [TelemetryNext]_telemetryVars
      => [\A s \in Streams : written'[s] # 0 => written'[s] >= written[s]]_telemetryVars
  <2> SUFFICES ASSUME TelemetryTypeOK, OrderInv, [TelemetryNext]_telemetryVars,
                      NEW s \in Streams, written'[s] # 0
               PROVE  written'[s] >= written[s]
    OBVIOUS
  <2> USE DEF streamVars
  <2>1. written[s] \in Nat
    BY NumberTypes
  <2>2. ASSUME UNCHANGED written PROVE written'[s] >= written[s]
    BY <2>1, <2>2
  <2>3. ASSUME NEW t \in Streams, Write(t) PROVE written'[s] >= written[s]
    <3>1. CASE s = t /\ writing[t] # 0
      BY <2>1, <2>3, <3>1, NumberTypes DEF Write, OrderInv, InOrder, TelemetryTypeOK
    <3>2. CASE s # t \/ writing[t] = 0
      <4>1. written'[s] = written[s]
        BY <2>3, <3>2 DEF Write, TelemetryTypeOK
      <4> QED BY <2>1, <4>1
    <3> QED BY <3>1, <3>2
  <2>4. ASSUME NEW t \in Streams, Subscribe(t) PROVE written'[s] >= written[s]
    <3>1. written'[s] = written[s]
      BY <2>4 DEF Subscribe, TelemetryTypeOK
    <3> QED BY <2>1, <3>1
  <2>5. ASSUME NEW t \in Streams,
               Take(t) \/ Keepalive(t) \/ Gone(t) \/ CheckSession(t) \/ Unsubscribe(t) \/ SessionEnds(t)
        PROVE  UNCHANGED written
    BY <2>5 DEF Take, Keepalive, Gone, CheckSession, Unsubscribe, SessionEnds
  <2>6. ASSUME NEW p \in Publishers, Publish(p) \/ Offer(p) \/ EndRound(p) \/ \E t \in Streams : Visit(p, t)
        PROVE  UNCHANGED written
    BY <2>6 DEF Publish, Offer, EndRound, Visit
  <2>7. CASE UNCHANGED telemetryVars
    BY <2>2, <2>7 DEF telemetryVars
  <2> QED
    BY <2>2, <2>3, <2>4, <2>5, <2>6, <2>7 DEF TelemetryNext
<1> QED
  BY <1>1, OrderInvariant, PTL DEF TelemetrySpec, NeverBackwards

\* Where the newest event is, seen from a stream that nobody has yet to come to.
Newest(s) == published \in {joined[s], channel[s], writing[s], written[s]}

NewestInv == \A s \in subscribed : stream[s] # "leaving" /\ Offered(s) => Newest(s)

LEMMA NewestStep ==
  TelemetryTypeOK /\ HubInv /\ OrderInv /\ NewestInv /\ [TelemetryNext]_telemetryVars => NewestInv'
<1> SUFFICES ASSUME TelemetryTypeOK, HubInv, OrderInv, NewestInv, [TelemetryNext]_telemetryVars,
                    NEW s \in subscribed', stream'[s] # "leaving", Offered(s)'
             PROVE  Newest(s)'
  BY DEF NewestInv
<1> USE DEF streamVars
<1>0. s \in Streams
  <2>1. subscribed' \subseteq Streams
    BY TelemetryTypeStep DEF TelemetryTypeOK
  <2> QED BY <2>1
\* A step that leaves the hub alone, and what the stream knows of the newest event.
<1>1. ASSUME UNCHANGED <<published, round>>, s \in subscribed, stream[s] # "leaving",
             Newest(s) => Newest(s)'
      PROVE  Newest(s)'
  <2>1. Offered(s)
    BY <1>1 DEF Offered
  <2> QED BY <1>1, <2>1 DEF NewestInv
<1>2. ASSUME UNCHANGED <<published, round>>, s \in subscribed,
             UNCHANGED <<stream[s], joined[s], channel[s], writing[s], written[s]>>
      PROVE  Newest(s)'
  BY <1>1, <1>2 DEF Newest
<1>3. ASSUME NEW p \in Publishers, Publish(p) PROVE FALSE
  <2>1. s \in round'[p].ahead
    BY <1>3, PublishRound DEF Publish, Round
  <2> QED BY <2>1 DEF Offered
<1>4. ASSUME NEW p \in Publishers, NEW t \in Streams, Visit(p, t) PROVE Newest(s)'
  <2>1. /\ round'[p].ahead = round[p].ahead \ {t} /\ round'[p].to = t
        /\ \A q \in Publishers \ {p} : round'[q] = round[q]
        /\ round[p].to = Nobody
    BY <1>4, VisitRound DEF Visit
  <2>2. s # Nobody
    BY <1>0
  <2>3. Offered(s)
    BY <2>1, <2>2 DEF Offered
  <2> QED BY <1>4, <2>3 DEF Visit, NewestInv, Newest
<1>5. ASSUME NEW p \in Publishers, Offer(p) PROVE Newest(s)'
  <2>1. UNCHANGED <<published, stream, writing, written, joined, subscribed>>
    BY <1>5 DEF Offer
  <2>2. /\ round[p].event = published /\ round[p].to \in Streams
        /\ \A q \in Publishers \ {p} : round[q] = Resting
    BY <1>5 DEF Offer, HubInv, Busy, Resting, Round, TelemetryTypeOK
  <2>3. CASE s = round[p].to
    <3>1. ASSUME NEW n \in {2, 3}, Attempt(p, n) PROVE FALSE
      <4>1. n \in 0 .. 3 /\ n # 0
        OBVIOUS
      <4>2. round'[p].to = s
        BY <2>3, <3>1, <4>1, AttemptRound
      <4> QED BY <4>2 DEF Offered
    <3>2. ~(round[p].try = 3 /\ channel[round[p].to] # 0)
      BY DEF OrderInv, LastAttempt
    <3>3. Put(p)
      BY <1>5, <3>1, <3>2, OfferCases
    <3>4. channel'[s] = published
      BY <1>0, <2>2, <2>3, <3>3 DEF Put, TelemetryTypeOK
    <3> QED BY <2>1, <3>4 DEF Newest
  <2>4. CASE s # round[p].to
    <3>1. PICK n \in {0, 2, 3} : Attempt(p, n)
      BY <1>5, OfferCases DEF Put
    <3>2. n \in 0 .. 3
      BY <3>1
    <3>3. round'[p].ahead = round[p].ahead /\ \A q \in Publishers \ {p} : round'[q] = round[q]
      BY <3>1, <3>2, AttemptRound
    <3>4. Offered(s)
      BY <2>4, <3>3 DEF Offered
    <3>5. channel'[s] = channel[s]
      BY <1>0, <1>5, <2>4, OfferCases DEF Put, TelemetryTypeOK
    <3> QED BY <2>1, <3>4, <3>5 DEF NewestInv, Newest
  <2> QED BY <2>3, <2>4
<1>6. ASSUME NEW p \in Publishers, EndRound(p) PROVE Newest(s)'
  <2>1. /\ round[p].to = Nobody /\ round[p].ahead = {}
        /\ \A q \in Publishers \ {p} : round'[q] = round[q]
    BY <1>6 DEF EndRound, TelemetryTypeOK
  <2>2. Offered(s)
    BY <1>0, <2>1 DEF Offered
  <2> QED BY <1>6, <2>2 DEF EndRound, NewestInv, Newest
<1>7. ASSUME NEW t \in Streams, Subscribe(t) PROVE Newest(s)'
  <2>1. CASE s = t
    BY <1>7, <2>1 DEF Subscribe, Newest, TelemetryTypeOK
  <2>2. CASE s # t
    BY <1>0, <1>2, <1>7, <2>2 DEF Subscribe, At, TelemetryTypeOK
  <2> QED BY <2>1, <2>2
<1>8. ASSUME NEW t \in Streams, Take(t) PROVE Newest(s)'
  <2>1. CASE s = t
    <3>1. /\ writing[s] = 0 /\ joined[s] <= published /\ published \in Nat /\ joined[s] \in Nat
          /\ writing'[s] = channel[s] /\ UNCHANGED <<published, round, joined, written, subscribed>>
          /\ stream[s] # "leaving"
      BY <1>0, <1>8, <2>1, NumberTypes DEF Take, OrderInv, InOrder, TelemetryTypeOK
    <3> QED BY <1>1, <3>1 DEF Newest
  <2>2. CASE s # t
    BY <1>0, <1>2, <1>8, <2>2 DEF Take, At, TelemetryTypeOK
  <2> QED BY <2>1, <2>2
<1>9. ASSUME NEW t \in Streams, Write(t) PROVE Newest(s)'
  <2>1. CASE s = t
    <3>1. /\ InOrder(s) /\ stream[s] # "leaving" /\ UNCHANGED <<published, round, joined, channel, subscribed>>
          /\ written'[s] = (IF writing[s] = 0 THEN written[s] ELSE writing[s])
          /\ writing'[s] = 0
      BY <1>0, <1>9, <2>1 DEF Write, OrderInv, TelemetryTypeOK
    <3>2. Newest(s) => Newest(s)'
      BY <1>0, <3>1, NumberTypes DEF Newest, InOrder
    <3> QED BY <1>1, <3>1, <3>2
  <2>2. CASE s # t
    BY <1>0, <1>2, <1>9, <2>2 DEF Write, At, TelemetryTypeOK
  <2> QED BY <2>1, <2>2
<1>10. ASSUME NEW t \in Streams, Gone(t) \/ CheckSession(t) PROVE Newest(s)'
  <2>1. CASE s = t
    BY <1>0, <1>10, <2>1 DEF Gone, CheckSession, At, TelemetryTypeOK
  <2>2. CASE s # t
    BY <1>0, <1>2, <1>10, <2>2 DEF Gone, CheckSession, At, TelemetryTypeOK
  <2> QED BY <2>1, <2>2
<1>11. ASSUME NEW t \in Streams, Keepalive(t) PROVE Newest(s)'
  <2>1. stream[s] # "leaving"
    BY <1>0, <1>11 DEF Keepalive, At, TelemetryTypeOK
  <2> QED BY <1>1, <1>11, <2>1 DEF Keepalive, Newest
<1>12. ASSUME NEW t \in Streams, Unsubscribe(t) PROVE Newest(s)'
  <2>1. s # t
    BY <1>12 DEF Unsubscribe
  <2> QED BY <1>0, <1>2, <1>12, <2>1 DEF Unsubscribe, At, TelemetryTypeOK
<1>13. ASSUME NEW t \in Streams, SessionEnds(t) PROVE Newest(s)'
  BY <1>2, <1>13 DEF SessionEnds
<1>14. CASE UNCHANGED telemetryVars
  BY <1>2, <1>14 DEF telemetryVars
<1> QED
  BY <1>3, <1>4, <1>5, <1>6, <1>7, <1>8, <1>9, <1>10, <1>11, <1>12, <1>13, <1>14 DEF TelemetryNext

\* NewestIsNotLost is an invariant: what a full channel gives up is older than
\* what it gets.
THEOREM NewestCorrect == TelemetrySpec => []NewestIsNotLost
<1>1. TelemetryInit => NewestInv
  BY DEF TelemetryInit, NewestInv
<1>2. NewestInv => NewestIsNotLost
  BY DEF NewestInv, Newest, NewestIsNotLost
<1> QED
  BY <1>1, <1>2, NewestStep, OrderInvariant, PTL DEF TelemetrySpec

HIDE TelemetryAssumption DEF TelemetryAssumption

-----------------------------------------------------------------------------
(* The composition.                                                        *)

\* A behaviour of the composition is a behaviour of each of the three.
LEMMA CompositionImplements == MCSpec => Spec /\ DashboardSpec /\ TelemetrySpec
<1>1. MCInit => Init /\ DashboardInit /\ TelemetryInit
  BY DEF MCInit
<1>2. [MCNext]_<<vars, dashboardVars, telemetryVars, part>>
        => [Next]_vars /\ [DashboardNext]_dashboardVars /\ [TelemetryNext]_telemetryVars
  BY DEF MCNext, Administration, Dashboard, Live, Next, DashboardNext, TelemetryNext
<1> QED BY <1>1, <1>2, PTL DEF MCSpec, Spec, DashboardSpec, TelemetrySpec

\* TypesOK is an invariant of the composition: every variable of the three holds a
\* value of its type, for all values of their constants.
THEOREM TypesCorrect == MCSpec => []TypesOK
BY CompositionImplements, TypeCorrect, DashboardTypeCorrect, TelemetryTypeCorrect, PTL DEF TypesOK
================================================================================
