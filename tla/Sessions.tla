------------------------------- MODULE Sessions -------------------------------
(***************************************************************************)
(* Administrators: setting up, logging in and out, sessions, and           *)
(* two-factor authentication.                                              *)
(*                                                                         *)
(* A session is kept twice, in the controller's memory and in the          *)
(* database, so that it survives a restart.  Whoever creates, looks up or  *)
(* deletes one holds sessionMu; the maintenance loop, which prunes expired *)
(* rows, does not.  Logging in reads the limiter and later writes it, with *)
(* the check of the password in between, and requests about the second     *)
(* factor read the account's row and later write it.                       *)
(*                                                                         *)
(* One account, and one address logins come from, which is the limiter's   *)
(* key.  Time is in seconds.                                               *)
(***************************************************************************)
EXTENDS Integers, FiniteSets

CONSTANTS
  Handlers,    \* the controller's request handlers
  NoOne,       \* no handler
  Lifetime,    \* how long a session lasts
  Quiet,       \* the limiter forgets failures after this time (15 minutes)
  Free,        \* how many failures have no consequence (4)
  MaxRequests, \* bound on requests
  MaxTime,     \* bound on time
  MaxFaults    \* bound on store errors and restarts

ASSUME ConstantsAssumption ==
  /\ NoOne \notin Handlers /\ IsFiniteSet(Handlers) /\ Handlers # {}
  /\ Lifetime \in Nat \ {0} /\ Quiet \in Nat /\ Free \in Nat
  /\ MaxRequests \in Nat /\ MaxTime \in Nat /\ MaxFaults \in Nat

VARIABLES
  now,       \* the clock
  users,     \* how many accounts there are
  setupMu,   \* who holds the mutex of the setup
  sessionMu, \* who holds the mutex of the sessions
  created,   \* how many sessions were created; they are numbered
  expiry,    \* per session: when it expires
  memory,    \* the sessions in memory
  stored,    \* the sessions in the database
  given,     \* the sessions whose cookie was sent to the browser
  leaving,   \* history: the sessions a log-out was begun for
  ended,     \* history: those for which it was answered that they ended
  limiter,   \* the limiter's entry
  over,      \* history: failures since the limiter began to refuse
  totp,      \* the account's secret for codes, 0 if none, and whether it is enabled
  secrets,   \* how many secrets were generated; they are numbered
  proven,    \* history: the secrets for which a code was verified
  pc,        \* per handler: where it is
  session,   \* per handler: the session of its request
  read,      \* per handler: the secret it read
  requests, faults

sessionVars == <<sessionMu, created, expiry, memory, stored, given, leaving, ended>>
limiterVars == <<limiter, over>>
totpVars == <<totp, secrets, proven>>
vars == <<now, users, setupMu, sessionVars, limiterVars, totpVars,
          pc, session, read, requests, faults>>

Tokens == 1 .. MaxRequests
Entry(count, updated, blocked) == [count |-> count, updated |-> updated, blocked |-> blocked]
NoEntry == Entry(0, 0, 0)

Init ==
  /\ now = 1
  /\ users = 0 /\ setupMu = NoOne
  /\ sessionMu = NoOne /\ created = 0 /\ expiry = [t \in Tokens |-> 0]
  /\ memory = {} /\ stored = {} /\ given = {} /\ leaving = {} /\ ended = {}
  /\ limiter = NoEntry /\ over = 0
  /\ totp = [secret |-> 0, enabled |-> FALSE] /\ secrets = 0 /\ proven = {}
  /\ pc = [h \in Handlers |-> "idle"]
  /\ session = [h \in Handlers |-> 0] /\ read = [h \in Handlers |-> 0]
  /\ requests = 0 /\ faults = 0

Fault == faults < MaxFaults /\ faults' = faults + 1

GoTo(h, label) == pc' = [pc EXCEPT ![h] = label]

\* The handler has answered.
Done(h) ==
  /\ GoTo(h, "idle")
  /\ session' = [session EXCEPT ![h] = 0]
  /\ read' = [read EXCEPT ![h] = 0]

\* A request arrives, and its handler goes on at label.
Arrive(h, label) ==
  /\ pc[h] = "idle" /\ GoTo(h, label)
  /\ requests < MaxRequests /\ requests' = requests + 1

\* Mutant of Lock: the sessions have no mutex of their own.
LockMutant(h) == sessionMu' = h

Lock(h) == sessionMu = NoOne /\ sessionMu' = h
Unlock == sessionMu' = NoOne

-----------------------------------------------------------------------------
(* Setting up.                                                             *)

\* Mutant of Setup: requests to set up are not serialised.
SetupMutant(h) ==
  /\ setupMu' = h
  /\ users = 0
  /\ Arrive(h, "setup")
  /\ UNCHANGED <<now, users, sessionVars, limiterVars, totpVars, session, read, faults>>

\* handleSetup: with the mutex, there is no account yet.
Setup(h) ==
  /\ setupMu = NoOne /\ setupMu' = h
  /\ users = 0
  /\ Arrive(h, "setup")
  /\ UNCHANGED <<now, users, sessionVars, limiterVars, totpVars, session, read, faults>>

CreateUser(h) ==
  /\ pc[h] = "setup"
  /\ users' = users + 1
  /\ GoTo(h, "create")
  /\ UNCHANGED <<now, setupMu, sessionVars, limiterVars, totpVars, session, read, requests, faults>>

\* The deferred unlock, when a handler that may have it is done.
UnlockSetup(h) == setupMu' = IF setupMu = h THEN NoOne ELSE setupMu

\* The request to set up is not valid, or the account cannot be written.
SetupFails(h) ==
  /\ pc[h] = "setup"
  /\ Done(h) /\ UnlockSetup(h)
  /\ UNCHANGED <<now, users, sessionVars, limiterVars, totpVars, requests, faults>>

-----------------------------------------------------------------------------
(* Logging in.                                                             *)

\* Mutant of Allowed: the time the limiter refuses until is not looked at.
AllowedMutant == TRUE

Allowed == now >= limiter.blocked

\* LoginLimiter.Allow lets the request through, and forgets old failures.
Login(h) ==
  /\ Allowed
  /\ Arrive(h, "verify")
  /\ limiter' = IF now - limiter.updated > Quiet THEN NoEntry ELSE limiter
  /\ over' = IF now >= limiter.blocked THEN 0 ELSE over
  /\ UNCHANGED <<now, users, setupMu, sessionVars, totpVars, session, read, faults>>

\* LoginLimiter.Fail: the request, the password or the code is wrong.
LoginFails(h) ==
  /\ pc[h] = "verify"
  /\ LET count == (IF now - limiter.updated > Quiet THEN 0 ELSE limiter.count) + 1 IN
     limiter' = Entry(count, now, IF count > Free THEN now + count - Free ELSE limiter.blocked)
  /\ over' = IF now < limiter.blocked THEN over + 1 ELSE over
  /\ Done(h)
  /\ UNCHANGED <<now, users, setupMu, sessionVars, totpVars, requests, faults>>

\* LoginLimiter.Success; a code proves that the administrator has the secret.
LoginSucceeds(h) ==
  /\ pc[h] = "verify" /\ users > 0
  /\ limiter' = NoEntry /\ over' = 0
  /\ proven' = IF totp.enabled THEN proven \cup {totp.secret} ELSE proven
  /\ GoTo(h, "create")
  /\ UNCHANGED <<now, users, setupMu, sessionVars, totp, secrets, session, read, requests, faults>>

\* Mutant of CreateSession: the session is not handed on.
CreateSessionMutant(h) ==
  /\ pc[h] = "create" /\ Lock(h)
  /\ created' = created + 1
  /\ expiry' = [expiry EXCEPT ![created'] = now + Lifetime]
  /\ memory' = memory \cup {created'}
  /\ GoTo(h, "save")
  /\ UNCHANGED <<now, users, setupMu, stored, given, leaving, ended, limiterVars, totpVars,
                 session, read, requests, faults>>

\* createSession: first in memory ...
CreateSession(h) ==
  /\ pc[h] = "create" /\ Lock(h)
  /\ created' = created + 1
  /\ expiry' = [expiry EXCEPT ![created'] = now + Lifetime]
  /\ memory' = memory \cup {created'}
  /\ session' = [session EXCEPT ![h] = created']
  /\ GoTo(h, "save")
  /\ UNCHANGED <<now, users, setupMu, stored, given, leaving, ended, limiterVars, totpVars,
                 read, requests, faults>>

\* ... then in the database, and the cookie is sent.
SaveAdminSession(h) ==
  /\ pc[h] = "save" /\ Unlock
  /\ stored' = stored \cup {session[h]}
  /\ given' = given \cup {session[h]}
  /\ Done(h) /\ UnlockSetup(h)
  /\ UNCHANGED <<now, users, created, expiry, memory, leaving, ended, limiterVars, totpVars,
                 requests, faults>>

\* Mutant of SaveFails: the session is there, if only in memory.
SaveFailsMutant(h) ==
  /\ Fault
  /\ pc[h] = "save" /\ Unlock
  /\ given' = given \cup {session[h]}
  /\ Done(h) /\ UnlockSetup(h)
  /\ UNCHANGED <<now, users, created, expiry, memory, stored, leaving, ended, limiterVars, totpVars,
                 requests>>

\* The row cannot be written: the session is taken back.
SaveFails(h) ==
  /\ Fault
  /\ pc[h] = "save" /\ Unlock
  /\ memory' = memory \ {session[h]}
  /\ Done(h) /\ UnlockSetup(h)
  /\ UNCHANGED <<now, users, created, expiry, stored, given, leaving, ended, limiterVars, totpVars,
                 requests>>

-----------------------------------------------------------------------------
(* withAuth: a request with the cookie of session t, ended or not.         *)

LoadSession(h, t) ==
  /\ t \in given /\ Lock(h)
  /\ session' = [session EXCEPT ![h] = t]
  /\ Arrive(h, "get")
  /\ UNCHANGED <<now, users, setupMu, created, expiry, memory, stored, given, leaving, ended,
                 limiterVars, totpVars, read, faults>>

\* Sessions.Get: one that expired is forgotten, and looked for in the database.
Get(h) ==
  /\ pc[h] = "get"
  /\ IF session[h] \in memory /\ now <= expiry[session[h]]
     THEN Unlock /\ GoTo(h, "next") /\ UNCHANGED memory
     ELSE /\ memory' = memory \ {session[h]}
          /\ GoTo(h, "load")
          /\ UNCHANGED sessionMu
  /\ UNCHANGED <<now, users, setupMu, created, expiry, stored, given, leaving, ended, limiterVars,
                 totpVars, session, read, requests, faults>>

\* LoadAdminSession: there is no such row, or it expired and is deleted, or it is good.
LoadAdminSession(h) ==
  /\ pc[h] = "load"
  /\ \/ /\ session[h] \notin stored
        /\ Done(h) /\ Unlock
     \/ /\ session[h] \in stored
        /\ GoTo(h, IF now < expiry[session[h]] THEN "restore" ELSE "drop")
        /\ UNCHANGED <<session, read, sessionMu>>
  /\ UNCHANGED <<now, users, setupMu, created, expiry, memory, stored, given, leaving, ended,
                 limiterVars, totpVars, requests, faults>>

DropAdminSession(h) ==
  /\ pc[h] = "drop" /\ Unlock
  /\ stored' = stored \ {session[h]}
  /\ Done(h)
  /\ UNCHANGED <<now, users, setupMu, created, expiry, memory, given, leaving, ended, limiterVars,
                 totpVars, requests, faults>>

\* Sessions.Restore, unless it has expired by now.
Restore(h) ==
  /\ pc[h] = "restore" /\ Unlock
  /\ IF now < expiry[session[h]]
     THEN /\ memory' = memory \cup {session[h]}
          /\ GoTo(h, "next") /\ UNCHANGED <<session, read>>
     ELSE Done(h) /\ UNCHANGED memory
  /\ UNCHANGED <<now, users, setupMu, created, expiry, stored, given, leaving, ended, limiterVars,
                 totpVars, requests, faults>>

\* A statement fails.
LoadFails(h) ==
  /\ Fault
  /\ pc[h] \in {"load", "drop"} /\ Unlock
  /\ Done(h)
  /\ UNCHANGED <<now, users, setupMu, created, expiry, memory, stored, given, leaving, ended,
                 limiterVars, totpVars, requests>>

\* The request is about something else.
Serve(h) ==
  /\ pc[h] = "next" /\ Done(h)
  /\ UNCHANGED <<now, users, setupMu, sessionVars, limiterVars, totpVars, requests, faults>>

-----------------------------------------------------------------------------
(* Logging out: deleteSession.                                             *)

Logout(h) ==
  /\ pc[h] = "next" /\ Lock(h)
  /\ leaving' = leaving \cup {session[h]}
  /\ GoTo(h, "delete")
  /\ UNCHANGED <<now, users, setupMu, created, expiry, memory, stored, given, ended, limiterVars,
                 totpVars, session, read, requests, faults>>

DeleteAdminSession(h) ==
  /\ pc[h] = "delete"
  /\ stored' = stored \ {session[h]}
  /\ GoTo(h, "forget")
  /\ UNCHANGED <<now, users, setupMu, sessionMu, created, expiry, memory, given, leaving, ended,
                 limiterVars, totpVars, session, read, requests, faults>>

Forget(h) ==
  /\ pc[h] = "forget" /\ Unlock
  /\ memory' = memory \ {session[h]}
  /\ ended' = ended \cup {session[h]}
  /\ Done(h)
  /\ UNCHANGED <<now, users, setupMu, created, expiry, stored, given, leaving, limiterVars,
                 totpVars, requests, faults>>

\* The row cannot be deleted: the session goes on, and the browser is told so.
LogoutFails(h) ==
  /\ Fault
  /\ pc[h] = "delete" /\ Unlock
  /\ Done(h)
  /\ UNCHANGED <<now, users, setupMu, created, expiry, memory, stored, given, leaving, ended,
                 limiterVars, totpVars, requests>>

-----------------------------------------------------------------------------
(* The second factor.                                                      *)

Totp(secret, enabled) == [secret |-> secret, enabled |-> enabled]

\* handleTOTPSetup: another secret, which is not used yet.
SetupTOTP(h) ==
  /\ pc[h] = "next"
  /\ secrets' = secrets + 1
  /\ totp' = Totp(secrets', FALSE)
  /\ Done(h)
  /\ UNCHANGED <<now, users, setupMu, sessionVars, limiterVars, proven, requests, faults>>

\* handleTOTPEnable and handleTOTPDisable verify a code for the secret they read ...
VerifyTOTP(h, label) ==
  /\ pc[h] = "next" /\ totp.secret # 0
  /\ label = "disable" => totp.enabled
  /\ read' = [read EXCEPT ![h] = totp.secret]
  /\ proven' = proven \cup {totp.secret}
  /\ GoTo(h, label)
  /\ UNCHANGED <<now, users, setupMu, sessionVars, limiterVars, totp, secrets, session, requests, faults>>

\* Mutant of EnableTOTP: whatever secret the row has by now is enabled.
EnableTOTPMutant(h) ==
  /\ pc[h] = "enable"
  /\ totp' = Totp(totp.secret, TRUE)
  /\ Done(h)
  /\ UNCHANGED <<now, users, setupMu, sessionVars, limiterVars, secrets, proven, requests, faults>>

\* ... and write the secret they read, or none.
EnableTOTP(h) ==
  /\ pc[h] = "enable"
  /\ totp' = Totp(read[h], TRUE)
  /\ Done(h)
  /\ UNCHANGED <<now, users, setupMu, sessionVars, limiterVars, secrets, proven, requests, faults>>

DisableTOTP(h) ==
  /\ pc[h] = "disable"
  /\ totp' = Totp(0, FALSE)
  /\ Done(h)
  /\ UNCHANGED <<now, users, setupMu, sessionVars, limiterVars, secrets, proven, requests, faults>>

-----------------------------------------------------------------------------
(* Time, the maintenance loop, and restarts.                               *)

Tick ==
  /\ now < MaxTime /\ now' = now + 1
  /\ UNCHANGED <<users, setupMu, sessionVars, limiterVars, totpVars, pc, session, read, requests, faults>>

PruneAdminSessions ==
  /\ stored' = {t \in stored : expiry[t] > now}
  /\ UNCHANGED <<now, users, setupMu, sessionMu, created, expiry, memory, given, leaving, ended,
                 limiterVars, totpVars, pc, session, read, requests, faults>>

\* What is in memory is lost.
Restart ==
  /\ Fault
  /\ setupMu' = NoOne /\ sessionMu' = NoOne
  /\ memory' = {} /\ limiter' = NoEntry /\ over' = 0
  /\ pc' = [h \in Handlers |-> "idle"]
  /\ session' = [h \in Handlers |-> 0] /\ read' = [h \in Handlers |-> 0]
  /\ UNCHANGED <<now, users, created, expiry, stored, given, leaving, ended, totpVars, requests>>

-----------------------------------------------------------------------------
Handle(h) ==
  \/ Setup(h) \/ CreateUser(h) \/ SetupFails(h)
  \/ Login(h) \/ LoginFails(h) \/ LoginSucceeds(h)
  \/ CreateSession(h) \/ SaveAdminSession(h) \/ SaveFails(h)
  \/ \E t \in Tokens : LoadSession(h, t)
  \/ Get(h) \/ LoadAdminSession(h) \/ DropAdminSession(h) \/ Restore(h) \/ LoadFails(h)
  \/ Serve(h)
  \/ Logout(h) \/ DeleteAdminSession(h) \/ Forget(h) \/ LogoutFails(h)
  \/ SetupTOTP(h) \/ VerifyTOTP(h, "enable") \/ VerifyTOTP(h, "disable")
  \/ EnableTOTP(h) \/ DisableTOTP(h)

Next ==
  \/ \E h \in Handlers : Handle(h)
  \/ Tick \/ PruneAdminSessions \/ Restart

Spec == Init /\ [][Next]_vars
-----------------------------------------------------------------------------
(* Properties.                                                             *)

\* Every variable holds a value of its type.
TypeOK ==
  /\ now \in Nat /\ users \in Nat
  /\ setupMu \in Handlers \cup {NoOne} /\ sessionMu \in Handlers \cup {NoOne}
  /\ created \in 0 .. MaxRequests /\ expiry \in [Tokens -> Nat]
  /\ memory \subseteq Tokens /\ stored \subseteq Tokens /\ given \subseteq Tokens
  /\ leaving \subseteq Tokens /\ ended \subseteq Tokens
  /\ limiter \in [count : Nat, updated : Nat, blocked : Nat] /\ over \in Nat
  /\ totp \in [secret : Nat, enabled : BOOLEAN] /\ secrets \in Nat /\ proven \subseteq Nat
  /\ pc \in [Handlers -> {"idle", "setup", "verify", "create", "save", "get", "load", "drop",
                          "restore", "next", "delete", "forget", "enable", "disable"}]
  /\ session \in [Handlers -> 0 .. MaxRequests] /\ read \in [Handlers -> Nat]
  /\ requests \in 0 .. MaxRequests /\ faults \in Nat

\* Two requests to set up never both create an account (server.go:272-282).
OneAdministrator == users <= 1

\* A session that was ended stays ended: no request that was looking it up while it
\* was deleted brings it back, in memory or in the database (server.go:1704-1727).
EndedStaysEnded == ended \cap (memory \cup stored) = {}

\* A session whose cookie was sent is in the database until it expires or its
\* log-out is asked for: no restart, error or pruning ends it (server.go:1682-1701).
SessionsSurvive ==
  \A t \in given \ leaving : now < expiry[t] => t \in stored

\* The secret that is asked for at the next login is one the administrator has shown
\* a code of, whatever requests about it overlap (server.go:377-426).
EnabledIsProven == totp.enabled => totp.secret \in proven

\* Once logging in is refused, only requests that were let in before can still fail
\* (ratelimit.go:23-54): guesses in parallel gain no more than one per handler.
FewGuessesWhileBlocked == over < Cardinality(Handlers)
==============================================================================
