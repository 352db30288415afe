---------------------------- MODULE PublicDashboard ----------------------------
(***************************************************************************)
(* The public dashboard and the settings of the site.                      *)
(*                                                                         *)
(* A request for the dashboard takes the time, reads the settings, looks   *)
(* into the cache, and otherwise marks silent nodes offline, lists the     *)
(* nodes, and leaves what it built in the cache.  A change of the settings *)
(* reads both, writes both, and empties the cache.  Only the cache has a   *)
(* mutex: steps of other requests come in between all of these.            *)
(*                                                                         *)
(* One node stands for all of them.  The settings' values are numbers.     *)
(***************************************************************************)
EXTENDS Integers

CONSTANTS
  Requests,     \* the controller's request handlers
  TTL,          \* how long a page is served from the cache (5 seconds)
  OfflineAfter, \* how long a node may be silent
  Modes,        \* the orders a page can be asked for in
  MaxPages,     \* bound on pages that are asked for
  MaxChanges,   \* bound on changes of the settings
  MaxErrors,    \* bound on failing statements
  MaxClock      \* bound on time

\* Of a handler that is asked for no page.
NoMode == "none"

ASSUME DashboardAssumption ==
  /\ TTL \in Nat \ {0} /\ OfflineAfter \in Nat /\ NoMode \notin Modes
  /\ MaxPages \in Nat /\ MaxChanges \in Nat /\ MaxErrors \in Nat /\ MaxClock \in Nat

VARIABLES
  clock,   \* the time
  db,      \* the settings, when the node was seen, and whether its row says online
  shown,   \* history: per key and value, when the database said so last
  cache,   \* the page in the cache, for whom and when it was built, or that it is empty
  at,      \* per handler: where it is
  asked,   \* per handler: when its request arrived
  mode,    \* per handler: the order it was asked for
  draft,   \* per handler: what it has read, or is about to write
  pages, changes, errors

dashboardVars == <<clock, db, shown, cache, at, asked, mode, draft, pages, changes, errors>>

Keys == {"name", "map", "seen"}
Values == 0 .. (MaxChanges + MaxClock)

\* A page has one more field: the silent nodes were marked before it was built.
Blank == [name |-> 0, map |-> 0, seen |-> 0, online |-> TRUE, marked |-> FALSE]
Cached(page, order, time) == [full |-> TRUE, page |-> page, mode |-> order, built |-> time]
Empty == [full |-> FALSE, page |-> Blank, mode |-> NoMode, built |-> 0]

DashboardInit ==
  /\ clock = 0
  /\ db = [name |-> 0, map |-> 0, seen |-> 0, online |-> TRUE]
  /\ shown = [k \in Keys |-> [v \in Values |-> IF v = 0 THEN 0 ELSE -1]]
  /\ cache = Empty
  /\ at = [r \in Requests |-> "idle"] /\ asked = [r \in Requests |-> 0]
  /\ mode = [r \in Requests |-> NoMode] /\ draft = [r \in Requests |-> Blank]
  /\ pages = 0 /\ changes = 0 /\ errors = 0

Proceed(r, label) == at' = [at EXCEPT ![r] = label]

Finish(r) ==
  /\ Proceed(r, "idle")
  /\ asked' = [asked EXCEPT ![r] = 0]
  /\ mode' = [mode EXCEPT ![r] = NoMode]
  /\ draft' = [draft EXCEPT ![r] = Blank]

\* The history of what the database says, after a step.
Show == shown' = [k \in Keys |-> [shown[k] EXCEPT ![db'[k]] = clock']]

-----------------------------------------------------------------------------
(* handlePublicDashboard.                                                  *)

AskPage(r, order) ==
  /\ at[r] = "idle" /\ Proceed(r, "name")
  /\ pages < MaxPages /\ pages' = pages + 1
  /\ asked' = [asked EXCEPT ![r] = clock]
  /\ mode' = [mode EXCEPT ![r] = order]
  /\ UNCHANGED <<clock, db, shown, cache, draft, changes, errors>>

\* getSiteSettings: two statements, for a page or for a change of the settings.
GetSetting(r) ==
  /\ \/ /\ at[r] \in {"name", "edit name"}
        /\ draft' = [draft EXCEPT ![r].name = db.name]
        /\ Proceed(r, IF at[r] = "name" THEN "map" ELSE "edit map")
     \/ /\ at[r] \in {"map", "edit map"}
        /\ draft' = [draft EXCEPT ![r].map = db.map]
        /\ Proceed(r, IF at[r] = "map" THEN "cache" ELSE "change")
  /\ UNCHANGED <<clock, db, shown, cache, asked, mode, pages, changes, errors>>

Usable(r) == cache.full /\ cache.mode = mode[r] /\ asked[r] - cache.built < TTL

\* The page in the cache is served ...
ServeCached(r) ==
  /\ at[r] = "cache" /\ Usable(r)
  /\ Finish(r)
  /\ UNCHANGED <<clock, db, shown, cache, pages, changes, errors>>

\* ... or a new one is built, after nodes that are silent are marked.
Silent(time) == db.online /\ db.seen < time - OfflineAfter

MarkSilent(r) ==
  /\ at[r] = "cache" /\ ~Usable(r)
  /\ db' = [db EXCEPT !.online = @ /\ ~Silent(asked[r])]
  /\ draft' = [draft EXCEPT ![r].marked = TRUE]
  /\ Proceed(r, "list")
  /\ UNCHANGED <<clock, shown, cache, asked, mode, pages, changes, errors>>

\* That this fails is ignored.
MarkSilentFails(r) ==
  /\ errors < MaxErrors /\ errors' = errors + 1
  /\ at[r] = "cache" /\ ~Usable(r)
  /\ Proceed(r, "list")
  /\ UNCHANGED <<clock, db, shown, cache, asked, mode, draft, pages, changes>>

ListNodes(r) ==
  /\ at[r] = "list" /\ Proceed(r, "keep")
  /\ draft' = [draft EXCEPT ![r].seen = db.seen, ![r].online = db.online]
  /\ UNCHANGED <<clock, db, shown, cache, asked, mode, pages, changes, errors>>

\* Mutant of KeepPage: the page is taken to be as old as its completion.
KeepPageMutant(r) ==
  /\ at[r] = "keep"
  /\ cache' = Cached(draft[r], mode[r], clock)
  /\ Finish(r)
  /\ UNCHANGED <<clock, db, shown, pages, changes, errors>>

\* It replaces what is in the cache, which may have been emptied or be newer.
KeepPage(r) ==
  /\ at[r] = "keep"
  /\ cache' = Cached(draft[r], mode[r], asked[r])
  /\ Finish(r)
  /\ UNCHANGED <<clock, db, shown, pages, changes, errors>>

-----------------------------------------------------------------------------
(* handleSiteSettings.                                                     *)

EditSettings(r) ==
  /\ at[r] = "idle" /\ changes < MaxChanges
  /\ Proceed(r, "edit name")
  /\ changes' = changes + 1
  /\ UNCHANGED <<clock, db, shown, cache, asked, mode, draft, pages, errors>>

\* A request gives one of the settings or both; the other stays as it was read.
ChangeSettings(r, keys) ==
  /\ at[r] = "change" /\ Proceed(r, "set name")
  /\ draft' = [draft EXCEPT ![r].name = IF "name" \in keys THEN changes ELSE @,
                            ![r].map = IF "map" \in keys THEN changes ELSE @]
  /\ UNCHANGED <<clock, db, shown, cache, asked, mode, pages, changes, errors>>

SetSetting(r) ==
  /\ \/ /\ at[r] = "set name" /\ Proceed(r, "set map")
        /\ db' = [db EXCEPT !.name = draft[r].name]
     \/ /\ at[r] = "set map" /\ Proceed(r, "invalidate")
        /\ db' = [db EXCEPT !.map = draft[r].map]
  /\ UNCHANGED clock /\ Show
  /\ UNCHANGED <<cache, asked, mode, draft, pages, changes, errors>>

Invalidate(r) ==
  /\ at[r] = "invalidate"
  /\ cache' = Empty
  /\ Finish(r)
  /\ UNCHANGED <<clock, db, shown, pages, changes, errors>>

\* A statement fails, or the request is not valid: what is written stays, the
\* cache too.
RequestFails(r) ==
  /\ errors < MaxErrors /\ errors' = errors + 1
  /\ at[r] \notin {"idle", "cache", "keep", "invalidate"}
  /\ Finish(r)
  /\ UNCHANGED <<clock, db, shown, cache, pages, changes>>

-----------------------------------------------------------------------------
(* The nodes, the maintenance loop, time, and a restart.                   *)

NodeReports ==
  /\ db' = [db EXCEPT !.seen = clock, !.online = TRUE]
  /\ UNCHANGED clock /\ Show
  /\ UNCHANGED <<cache, at, asked, mode, draft, pages, changes, errors>>

MarkOffline ==
  /\ Silent(clock)
  /\ db' = [db EXCEPT !.online = FALSE]
  /\ UNCHANGED <<clock, shown, cache, at, asked, mode, draft, pages, changes, errors>>

ClockTicks ==
  /\ clock < MaxClock /\ clock' = clock + 1
  /\ UNCHANGED db /\ Show
  /\ UNCHANGED <<cache, at, asked, mode, draft, pages, changes, errors>>

\* The cache and the requests are gone.
ControllerRestarts ==
  /\ errors < MaxErrors /\ errors' = errors + 1
  /\ cache' = Empty
  /\ at' = [r \in Requests |-> "idle"] /\ asked' = [r \in Requests |-> 0]
  /\ mode' = [r \in Requests |-> NoMode] /\ draft' = [r \in Requests |-> Blank]
  /\ UNCHANGED <<clock, db, shown, pages, changes>>

DashboardNext ==
  \/ \E r \in Requests :
       \/ \E order \in Modes : AskPage(r, order)
       \/ GetSetting(r) \/ ServeCached(r) \/ MarkSilent(r) \/ MarkSilentFails(r)
       \/ ListNodes(r) \/ KeepPage(r)
       \/ EditSettings(r)
       \/ \E keys \in {{"name"}, {"map"}, {"name", "map"}} : ChangeSettings(r, keys)
       \/ SetSetting(r) \/ Invalidate(r) \/ RequestFails(r)
  \/ NodeReports \/ MarkOffline \/ ClockTicks \/ ControllerRestarts

DashboardSpec == DashboardInit /\ [][DashboardNext]_dashboardVars
-----------------------------------------------------------------------------
(* Properties.                                                             *)

Pages == [name : Values, map : Values, seen : Values, online : BOOLEAN, marked : BOOLEAN]

\* Every variable of the dashboard holds a value of its type.
DashboardTypeOK ==
  /\ clock \in 0 .. MaxClock
  /\ db \in [name : Values, map : Values, seen : Values, online : BOOLEAN]
  /\ shown \in [Keys -> [Values -> Int]]
  /\ cache \in [full : BOOLEAN, page : Pages, mode : Modes \cup {NoMode}, built : Nat]
  /\ at \in [Requests -> {"idle", "name", "map", "cache", "list", "keep", "edit name",
                          "edit map", "change", "set name", "set map", "invalidate"}]
  /\ asked \in [Requests -> Nat] /\ mode \in [Requests -> Modes \cup {NoMode}]
  /\ draft \in [Requests -> Pages]
  /\ pages \in 0 .. MaxPages /\ changes \in 0 .. MaxChanges /\ errors \in 0 .. MaxErrors

Recent(page, time) ==
  /\ \A k \in Keys : shown[k][page[k]] > time - TTL
  /\ page.marked /\ page.online => page.seen > time - TTL - OfflineAfter

\* Whatever page is served, everything it says was so less than TTL before it was
\* asked for, or later, and a node it says is online was silent no longer than
\* allowed then (server.go:591-630): neither a slow request that fills the cache
\* after the settings changed, nor one that fills it after a newer one did, nor a
\* change that failed half-way lets an old page live on.
PageIsRecent ==
  [][\A r \in Requests : /\ ServeCached(r) => Recent(cache.page, asked[r])
                         /\ KeepPage(r) => Recent(draft[r], asked[r])]_dashboardVars
================================================================================
