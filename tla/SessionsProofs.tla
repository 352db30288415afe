---------------------------- MODULE SessionsProofs ----------------------------
(***************************************************************************)
(* What TLAPS proves about Sessions: types, and its safety properties, for *)
(* any number of handlers and requests and any lifetimes.                  *)
(***************************************************************************)
EXTENDS Sessions, FiniteSetTheorems, TLAPS

USE ConstantsAssumption DEF ConstantsAssumption

Labels == {"idle", "setup", "verify", "create", "save", "get", "load", "drop",
           "restore", "next", "delete", "forget", "enable", "disable"}

\* The handlers whose requests may still create a session.
Creating == {h \in Handlers : pc[h] \in {"setup", "verify", "create"}}

\* Every session was asked for by a request of its own.
RequestsSuffice == created + Cardinality(Creating) <= requests

\* Where a handler works on a session.
WithSession == {"save", "get", "load", "drop", "restore", "next", "delete", "forget", "enable", "disable"}

\* The sessions that are known anywhere were created.
SessionsCreated ==
  /\ given \subseteq 1 .. created /\ ended \subseteq 1 .. created
  /\ \A h \in Handlers : pc[h] \in WithSession => session[h] \in 1 .. created

LEMMA DoneType ==
  ASSUME TypeOK, NEW h \in Handlers, Done(h)
  PROVE  /\ pc' \in [Handlers -> Labels] /\ session' \in [Handlers -> 0 .. MaxRequests]
         /\ read' \in [Handlers -> Nat]
BY DEF Done, GoTo, TypeOK, Labels

LEMMA GoToType ==
  ASSUME TypeOK, NEW h \in Handlers, NEW label \in Labels, GoTo(h, label)
  PROVE  pc' \in [Handlers -> Labels] /\ pc'[h] = label
BY DEF GoTo, TypeOK, Labels

\* A handler's action leaves the other handlers alone.
LEMMA OthersStay ==
  ASSUME TypeOK, NEW h \in Handlers, Handle(h), NEW g \in Handlers \ {h}
  PROVE  pc'[g] = pc[g] /\ session'[g] = session[g] /\ read'[g] = read[g]
<1> USE DEF Done, GoTo, Arrive
<1>1. CASE Setup(h) \/ CreateUser(h) \/ SetupFails(h) \/ Login(h) \/ LoginFails(h) \/ LoginSucceeds(h)
  BY <1>1 DEF TypeOK, Setup, CreateUser, SetupFails, Login, LoginFails, LoginSucceeds
<1>2. CASE CreateSession(h) \/ SaveAdminSession(h) \/ SaveFails(h) \/ \E t \in Tokens : LoadSession(h, t)
  BY <1>2 DEF TypeOK, CreateSession, SaveAdminSession, SaveFails, LoadSession
<1>3. CASE Get(h) \/ LoadAdminSession(h) \/ DropAdminSession(h) \/ Restore(h) \/ LoadFails(h)
  BY <1>3 DEF TypeOK, Get, LoadAdminSession, DropAdminSession, Restore, LoadFails
<1>4. CASE Serve(h) \/ Logout(h) \/ DeleteAdminSession(h) \/ Forget(h) \/ LogoutFails(h)
  BY <1>4 DEF TypeOK, Serve, Logout, DeleteAdminSession, Forget, LogoutFails
<1>5. CASE SetupTOTP(h) \/ EnableTOTP(h) \/ DisableTOTP(h)
  <2>1. Done(h)
    BY <1>5 DEF SetupTOTP, EnableTOTP, DisableTOTP
  <2> QED BY <2>1 DEF TypeOK
<1>6. ASSUME NEW label, VerifyTOTP(h, label)
      PROVE  pc'[g] = pc[g] /\ session'[g] = session[g] /\ read'[g] = read[g]
  <2>1. GoTo(h, label) /\ read' = [read EXCEPT ![h] = totp.secret] /\ session' = session
    BY <1>6 DEF VerifyTOTP
  <2> QED BY <2>1 DEF TypeOK
<1> QED
  BY <1>1, <1>2, <1>3, <1>4, <1>5, <1>6 DEF Handle

LEMMA TypeInit == Init => TypeOK /\ RequestsSuffice /\ SessionsCreated
<1> SUFFICES ASSUME Init PROVE TypeOK /\ RequestsSuffice /\ SessionsCreated
  OBVIOUS
<1>1. RequestsSuffice
  <2>1. Creating = {}
    BY DEF Init, Creating
  <2> QED BY <2>1, FS_EmptySet DEF Init, RequestsSuffice
<1>2. /\ expiry \in [Tokens -> Nat] /\ pc \in [Handlers -> Labels]
      /\ session \in [Handlers -> 0 .. MaxRequests] /\ read \in [Handlers -> Nat]
  BY DEF Init, Labels
<1>3. limiter \in [count : Nat, updated : Nat, blocked : Nat] /\ totp \in [secret : Nat, enabled : BOOLEAN]
  BY DEF Init, NoEntry, Entry
<1>4. /\ now \in Nat /\ users \in Nat /\ created \in 0 .. MaxRequests /\ over \in Nat
      /\ secrets \in Nat /\ requests \in 0 .. MaxRequests /\ faults \in Nat
  BY DEF Init
<1>5. /\ setupMu \in Handlers \cup {NoOne} /\ sessionMu \in Handlers \cup {NoOne}
      /\ memory \subseteq Tokens /\ stored \subseteq Tokens /\ given \subseteq Tokens
      /\ leaving \subseteq Tokens /\ ended \subseteq Tokens /\ proven \subseteq Nat
  BY DEF Init
<1>6. SessionsCreated
  BY DEF Init, SessionsCreated, WithSession
<1> QED BY <1>1, <1>2, <1>3, <1>4, <1>5, <1>6 DEF TypeOK, Labels

LEMMA CreatingFinite == IsFiniteSet(Creating) /\ Cardinality(Creating) \in Nat
<1>1. Creating \in SUBSET Handlers
  BY DEF Creating
<1>2. IsFiniteSet(Creating)
  BY <1>1, FS_Subset
<1> QED BY <1>2, FS_CardinalityType

LEMMA CreatedType ==
  ASSUME TypeOK, RequestsSuffice, NEW h \in Handlers, CreateSession(h)
  PROVE  created + 1 \in Tokens
<1>1. h \in Creating
  BY DEF CreateSession, Creating
<1>2. Cardinality(Creating) # 0
  BY <1>1, CreatingFinite, FS_EmptySet
<1> QED
  BY <1>2, CreatingFinite DEF RequestsSuffice, TypeOK, Tokens

LEMMA SessionType ==
  ASSUME TypeOK, SessionsCreated, NEW h \in Handlers, pc[h] \in WithSession
  PROVE  session[h] \in Tokens
BY DEF TypeOK, SessionsCreated, Tokens

LEMMA TypeStep == TypeOK /\ RequestsSuffice /\ SessionsCreated /\ [Next]_vars => TypeOK'
<1> SUFFICES ASSUME TypeOK, RequestsSuffice, SessionsCreated, [Next]_vars PROVE TypeOK'
  OBVIOUS
<1> USE DEF sessionVars, limiterVars, totpVars
<1>1. ASSUME NEW h \in Handlers, Setup(h) PROVE TypeOK'
  BY <1>1, GoToType DEF Setup, Arrive, TypeOK, Labels
<1>2. ASSUME NEW h \in Handlers, CreateUser(h) PROVE TypeOK'
  BY <1>2, GoToType DEF CreateUser, TypeOK, Labels
<1>3. ASSUME NEW h \in Handlers, SetupFails(h) PROVE TypeOK'
  BY <1>3, DoneType DEF SetupFails, UnlockSetup, TypeOK, Labels
<1>4. ASSUME NEW h \in Handlers, Login(h) PROVE TypeOK'
  BY <1>4, GoToType DEF Login, Arrive, NoEntry, Entry, TypeOK, Labels
<1>5. ASSUME NEW h \in Handlers, LoginFails(h) PROVE TypeOK'
  BY <1>5, DoneType DEF LoginFails, NoEntry, Entry, TypeOK, Labels
<1>6. ASSUME NEW h \in Handlers, LoginSucceeds(h) PROVE TypeOK'
  BY <1>6, GoToType DEF LoginSucceeds, NoEntry, Entry, TypeOK, Labels
<1>7. ASSUME NEW h \in Handlers, CreateSession(h) PROVE TypeOK'
  <2>1a. created' \in Tokens
    BY <1>7, CreatedType DEF CreateSession
  <2>1. created' \in 0 .. MaxRequests /\ created' \in Tokens /\ now + Lifetime \in Nat
    BY <2>1a DEF TypeOK, Tokens
  <2>2. /\ expiry' \in [Tokens -> Nat] /\ memory' \subseteq Tokens
        /\ session' \in [Handlers -> 0 .. MaxRequests] /\ pc' \in [Handlers -> Labels]
    BY <1>7, <2>1, GoToType DEF CreateSession, TypeOK, Labels
  <2> QED BY <1>7, <2>1, <2>2 DEF CreateSession, Lock, TypeOK, Labels
<1>8. ASSUME NEW h \in Handlers, SaveAdminSession(h) PROVE TypeOK'
  <2>1. session[h] \in Tokens
    BY <1>8, SessionType DEF SaveAdminSession, WithSession
  <2> QED BY <1>8, <2>1, DoneType DEF SaveAdminSession, Unlock, UnlockSetup, TypeOK, Labels
<1>9. ASSUME NEW h \in Handlers, SaveFails(h) PROVE TypeOK'
  BY <1>9, DoneType DEF SaveFails, Fault, Unlock, UnlockSetup, TypeOK, Labels
<1>10. ASSUME NEW h \in Handlers, NEW t \in Tokens, LoadSession(h, t) PROVE TypeOK'
  <2>1. t \in 0 .. MaxRequests
    BY DEF Tokens
  <2>2. session' \in [Handlers -> 0 .. MaxRequests] /\ pc' \in [Handlers -> Labels]
    BY <1>10, <2>1, GoToType DEF LoadSession, Arrive, TypeOK, Labels
  <2>3. requests' \in 0 .. MaxRequests
    BY <1>10 DEF LoadSession, Arrive, TypeOK
  <2> QED BY <1>10, <2>2, <2>3 DEF LoadSession, Lock, TypeOK, Labels
<1>11. ASSUME NEW h \in Handlers, Get(h) PROVE TypeOK'
  BY <1>11, GoToType DEF Get, Unlock, TypeOK, Labels
<1>12. ASSUME NEW h \in Handlers, LoadAdminSession(h) PROVE TypeOK'
  BY <1>12, DoneType, GoToType DEF LoadAdminSession, Unlock, TypeOK, Labels
<1>13. ASSUME NEW h \in Handlers, DropAdminSession(h) \/ Serve(h) PROVE TypeOK'
  BY <1>13, DoneType DEF DropAdminSession, Serve, Unlock, TypeOK, Labels
<1>14. ASSUME NEW h \in Handlers, Restore(h) PROVE TypeOK'
  <2>1. session[h] \in Tokens
    BY <1>14, SessionType DEF Restore, WithSession
  <2> QED BY <1>14, <2>1, DoneType, GoToType DEF Restore, Unlock, TypeOK, Labels
<1>15. ASSUME NEW h \in Handlers, LoadFails(h) \/ LogoutFails(h) PROVE TypeOK'
  <2>1. faults' \in Nat
    BY <1>15 DEF LoadFails, LogoutFails, Fault, TypeOK
  <2>2. Done(h)
    BY <1>15 DEF LoadFails, LogoutFails
  <2> QED BY <1>15, <2>1, <2>2, DoneType DEF LoadFails, LogoutFails, Unlock, TypeOK, Labels
<1>16. ASSUME NEW h \in Handlers, Logout(h) PROVE TypeOK'
  <2>1. session[h] \in Tokens
    BY <1>16, SessionType DEF Logout, WithSession
  <2> QED BY <1>16, <2>1, GoToType DEF Logout, Lock, TypeOK, Labels
<1>17. ASSUME NEW h \in Handlers, DeleteAdminSession(h) PROVE TypeOK'
  BY <1>17, GoToType DEF DeleteAdminSession, TypeOK, Labels
<1>18. ASSUME NEW h \in Handlers, Forget(h) PROVE TypeOK'
  <2>1. session[h] \in Tokens
    BY <1>18, SessionType DEF Forget, WithSession
  <2> QED BY <1>18, <2>1, DoneType DEF Forget, Unlock, TypeOK, Labels
<1>19. ASSUME NEW h \in Handlers, SetupTOTP(h) \/ EnableTOTP(h) \/ DisableTOTP(h) PROVE TypeOK'
  <2>1. Done(h) /\ proven' = proven /\ (secrets' = secrets \/ secrets' = secrets + 1)
    BY <1>19 DEF SetupTOTP, EnableTOTP, DisableTOTP
  <2>1a. secrets' \in Nat
    BY <2>1 DEF TypeOK
  <2>2. read[h] \in Nat
    BY DEF TypeOK
  <2>3. totp' \in [secret : Nat, enabled : BOOLEAN]
    <3>1. TRUE \in BOOLEAN /\ FALSE \in BOOLEAN /\ 0 \in Nat
      OBVIOUS
    <3>2. \E s \in Nat, b \in BOOLEAN : totp' = Totp(s, b)
      BY <1>19, <2>1a, <2>2, <3>1, Zenon DEF SetupTOTP, EnableTOTP, DisableTOTP
    <3> QED BY <3>2 DEF Totp
  <2> QED BY <1>19, <2>1, <2>1a, <2>3, DoneType DEF SetupTOTP, EnableTOTP, DisableTOTP, TypeOK, Labels
<1>20. ASSUME NEW h \in Handlers, VerifyTOTP(h, "enable") \/ VerifyTOTP(h, "disable") PROVE TypeOK'
  BY <1>20, GoToType DEF VerifyTOTP, TypeOK, Labels
<1>21. CASE Tick
  BY <1>21 DEF Tick, TypeOK
<1>22. CASE PruneAdminSessions
  BY <1>22 DEF PruneAdminSessions, TypeOK
<1>23. CASE Restart
  BY <1>23 DEF Restart, Fault, NoEntry, Entry, TypeOK
<1>24. CASE UNCHANGED vars
  BY <1>24 DEF vars, TypeOK
<1> QED
  BY <1>1, <1>2, <1>3, <1>4, <1>5, <1>6, <1>7, <1>8, <1>9, <1>10, <1>11, <1>12, <1>13, <1>14, <1>15,
     <1>16, <1>17, <1>18, <1>19, <1>20, <1>21, <1>22, <1>23, <1>24 DEF Next, Handle

LEMMA RequestsSufficeStep ==
  TypeOK /\ RequestsSuffice /\ [Next]_vars => RequestsSuffice'
<1> SUFFICES ASSUME TypeOK, RequestsSuffice, [Next]_vars PROVE RequestsSuffice'
  OBVIOUS
<1> DEFINE Creates(label) == label \in {"setup", "verify", "create"}
<1>1. created \in Nat /\ requests \in Nat /\ created + Cardinality(Creating) <= requests
  BY DEF TypeOK, RequestsSuffice
<1>2. ASSUME UNCHANGED <<created, requests, pc>> PROVE RequestsSuffice'
  BY <1>2 DEF RequestsSuffice, Creating
<1>3. CASE Tick \/ PruneAdminSessions \/ UNCHANGED vars
  BY <1>2, <1>3 DEF Tick, PruneAdminSessions, vars, sessionVars
<1>4. CASE Restart
  <2>1. Creating' = {} /\ created' = created /\ requests' = requests
    BY <1>4 DEF Restart, Creating
  <2> QED BY <1>1, <2>1, FS_EmptySet, CreatingFinite DEF RequestsSuffice
<1>5. ASSUME NEW h \in Handlers, Handle(h) PROVE RequestsSuffice'
  <2>1. /\ Creates(pc[h]) <=> h \in Creating
        /\ Creates(pc'[h]) <=> h \in Creating'
        /\ Creating' \ {h} = Creating \ {h}
    BY <1>5, OthersStay DEF Creating
  <2>2. IF Creates(pc'[h]) THEN Creating' = Creating \cup {h} ELSE Creating' = Creating \ {h}
    BY <2>1
  <2>3. Cardinality(Creating)' =
          Cardinality(Creating) + (IF Creates(pc'[h]) THEN 1 ELSE 0) - (IF Creates(pc[h]) THEN 1 ELSE 0)
    <3>1. Cardinality(Creating') = IF Creates(pc'[h])
            THEN IF Creates(pc[h]) THEN Cardinality(Creating) ELSE Cardinality(Creating) + 1
            ELSE IF Creates(pc[h]) THEN Cardinality(Creating) - 1 ELSE Cardinality(Creating)
      BY <2>1, <2>2, CreatingFinite, FS_AddElement, FS_RemoveElement
    <3> QED BY <3>1, CreatingFinite
  <2> HIDE DEF Creates
  <2>4. CASE Setup(h) \/ Login(h)
    <3>1. ~Creates(pc[h]) /\ requests' = requests + 1 /\ created' = created
      BY <2>4 DEF Setup, Login, Arrive, sessionVars, Creates
    <3> QED BY <1>1, <2>3, <3>1, CreatingFinite DEF RequestsSuffice
  <2>5. CASE CreateSession(h)
    <3>1. Creates(pc[h]) /\ ~Creates(pc'[h]) /\ requests' = requests /\ created' = created + 1
      BY <2>5 DEF CreateSession, GoTo, TypeOK, Creates
    <3> QED BY <1>1, <2>3, <3>1, CreatingFinite DEF RequestsSuffice
  <2>6. CASE CreateUser(h) \/ LoginSucceeds(h)
    <3>1. Creates(pc[h]) /\ requests' = requests /\ created' = created
      BY <2>6 DEF CreateUser, LoginSucceeds, sessionVars, Creates
    <3> QED BY <1>1, <2>3, <3>1, CreatingFinite DEF RequestsSuffice
  <2>7. ASSUME created' = created, requests' = requests \/ requests' = requests + 1, ~Creates(pc'[h])
        PROVE  RequestsSuffice'
    BY <1>1, <2>3, <2>7, CreatingFinite DEF RequestsSuffice
  <2>8. ASSUME Done(h) PROVE ~Creates(pc'[h])
    BY <2>8 DEF Done, GoTo, TypeOK, Creates
  <2>9. CASE SetupFails(h) \/ LoginFails(h) \/ SaveAdminSession(h) \/ SaveFails(h) \/ DropAdminSession(h)
    BY <2>7, <2>8, <2>9 DEF SetupFails, LoginFails, SaveAdminSession, SaveFails, DropAdminSession, sessionVars
  <2>10. CASE LoadFails(h) \/ Serve(h) \/ Forget(h) \/ LogoutFails(h) \/ SetupTOTP(h) \/ EnableTOTP(h) \/ DisableTOTP(h)
    BY <2>7, <2>8, <2>10 DEF LoadFails, Serve, Forget, LogoutFails, SetupTOTP, EnableTOTP, DisableTOTP, sessionVars
  <2>11. CASE (\E t \in Tokens : LoadSession(h, t)) \/ Get(h) \/ Logout(h) \/ DeleteAdminSession(h)
    <3>1. pc'[h] \in {"get", "next", "load", "delete", "forget"}
      BY <2>11 DEF LoadSession, Arrive, Get, Logout, DeleteAdminSession, GoTo, TypeOK
    <3>2. created' = created /\ (requests' = requests \/ requests' = requests + 1)
      BY <2>11 DEF LoadSession, Arrive, Get, Logout, DeleteAdminSession
    <3> QED BY <2>7, <3>1, <3>2 DEF Creates
  <2>12. CASE LoadAdminSession(h) \/ Restore(h)
    <3>1. pc'[h] \in {"idle", "restore", "drop", "next"}
      BY <2>12 DEF LoadAdminSession, Restore, Done, GoTo, TypeOK
    <3>2. created' = created /\ requests' = requests
      BY <2>12 DEF LoadAdminSession, Restore
    <3> QED BY <2>7, <3>1, <3>2 DEF Creates
  <2>13. ASSUME NEW label \in {"enable", "disable"}, VerifyTOTP(h, label) PROVE RequestsSuffice'
    <3>1. pc'[h] = label /\ created' = created /\ requests' = requests
      BY <2>13 DEF VerifyTOTP, GoTo, TypeOK, sessionVars
    <3> QED BY <2>7, <3>1 DEF Creates
  <2> QED
    BY <1>5, <2>4, <2>5, <2>6, <2>9, <2>10, <2>11, <2>12, <2>13 DEF Handle
<1> QED
  BY <1>3, <1>4, <1>5 DEF Next

LEMMA SessionsCreatedStep ==
  TypeOK /\ TypeOK' /\ SessionsCreated /\ [Next]_vars => SessionsCreated'
<1> SUFFICES ASSUME TypeOK, TypeOK', SessionsCreated, [Next]_vars PROVE SessionsCreated'
  OBVIOUS
<1>1. created \in Nat /\ created' \in Nat
  BY DEF TypeOK
<1>2. CASE Tick \/ PruneAdminSessions \/ UNCHANGED vars
  BY <1>2 DEF Tick, PruneAdminSessions, vars, sessionVars, SessionsCreated
<1>3. CASE Restart
  BY <1>3 DEF Restart, SessionsCreated, WithSession
<1>4. ASSUME NEW h \in Handlers, Handle(h) PROVE SessionsCreated'
  \* It is enough to look at the handler and at what it adds.
  <2>1. ASSUME created' = created \/ created' = created + 1,
               pc'[h] \in WithSession => session'[h] \in 1 .. created',
               given' \subseteq given \cup (1 .. created), ended' \subseteq ended \cup (1 .. created)
        PROVE  SessionsCreated'
    BY <1>1, <1>4, <2>1, OthersStay DEF SessionsCreated
  <2>2. pc[h] \in WithSession => session[h] \in 1 .. created
    BY DEF SessionsCreated
  <2>3. CASE Setup(h) \/ CreateUser(h) \/ Login(h) \/ LoginSucceeds(h)
    <3>1. pc'[h] \in {"setup", "create", "verify"} /\ UNCHANGED <<created, given, ended>>
      BY <2>3 DEF Setup, CreateUser, Login, LoginSucceeds, Arrive, GoTo, TypeOK, sessionVars
    <3> QED BY <2>1, <3>1 DEF WithSession
  <2>4. ASSUME Done(h) PROVE pc'[h] \notin WithSession
    BY <2>4 DEF Done, GoTo, TypeOK, WithSession
  <2>5. CASE SetupFails(h) \/ LoginFails(h) \/ SaveFails(h) \/ DropAdminSession(h)
    BY <2>1, <2>4, <2>5 DEF SetupFails, LoginFails, SaveFails, DropAdminSession, sessionVars
  <2>6. CASE SaveAdminSession(h) \/ Forget(h)
    BY <2>1, <2>2, <2>4, <2>6 DEF SaveAdminSession, Forget, WithSession
  <2>7. CASE LoadFails(h) \/ Serve(h) \/ LogoutFails(h) \/ SetupTOTP(h) \/ EnableTOTP(h) \/ DisableTOTP(h)
    BY <2>1, <2>4, <2>7 DEF LoadFails, Serve, LogoutFails, SetupTOTP, EnableTOTP, DisableTOTP, sessionVars
  <2>8. CASE CreateSession(h)
    <3>1. session'[h] = created + 1 /\ created' = created + 1 /\ UNCHANGED <<given, ended>>
      BY <2>8 DEF CreateSession, TypeOK
    <3> QED BY <1>1, <2>1, <3>1
  <2>9. ASSUME NEW t \in Tokens, LoadSession(h, t) PROVE SessionsCreated'
    <3>1. session'[h] = t /\ t \in given /\ UNCHANGED <<created, given, ended>>
      BY <2>9 DEF LoadSession, TypeOK
    <3> QED BY <2>1, <3>1 DEF SessionsCreated
  <2>10. CASE Get(h) \/ Logout(h) \/ DeleteAdminSession(h) \/ VerifyTOTP(h, "enable") \/ VerifyTOTP(h, "disable")
    <3>1. pc[h] \in WithSession /\ UNCHANGED <<created, given, ended, session>>
      BY <2>10 DEF Get, Logout, DeleteAdminSession, VerifyTOTP, WithSession, sessionVars
    <3> QED BY <2>1, <2>2, <3>1
  <2>11. CASE LoadAdminSession(h) \/ Restore(h)
    <3>1. pc[h] \in WithSession /\ UNCHANGED <<created, given, ended>> /\ (Done(h) \/ session' = session)
      BY <2>11 DEF LoadAdminSession, Restore, WithSession
    <3> QED BY <2>1, <2>2, <2>4, <3>1
  <2> QED
    BY <1>4, <2>3, <2>5, <2>6, <2>7, <2>8, <2>9, <2>10, <2>11 DEF Handle
<1> QED
  BY <1>2, <1>3, <1>4 DEF Next

\* TypeOK is an invariant, for any number of handlers and requests.
THEOREM TypeCorrect == Spec => []TypeOK
<1>1. TypeOK /\ RequestsSuffice /\ SessionsCreated /\ [Next]_vars
      => TypeOK' /\ RequestsSuffice' /\ SessionsCreated'
  BY TypeStep, RequestsSufficeStep, SessionsCreatedStep
<1> QED
  BY <1>1, TypeInit, PTL DEF Spec

-----------------------------------------------------------------------------
(* One administrator: from the check that there is no account until one is *)
(* written, a request to set up holds its mutex.                           *)

SetupHeld == \A h \in Handlers : pc[h] = "setup" => setupMu = h /\ users = 0

LEMMA AdministratorStep ==
  TypeOK /\ SetupHeld /\ OneAdministrator /\ [Next]_vars => SetupHeld' /\ OneAdministrator'
<1> SUFFICES ASSUME TypeOK, SetupHeld, OneAdministrator, [Next]_vars
             PROVE  SetupHeld' /\ OneAdministrator'
  OBVIOUS
<1> USE DEF OneAdministrator
<1>1. CASE Tick \/ PruneAdminSessions \/ UNCHANGED vars
  BY <1>1 DEF Tick, PruneAdminSessions, vars, SetupHeld
<1>2. CASE Restart
  BY <1>2 DEF Restart, SetupHeld
<1>3. ASSUME NEW h \in Handlers, Handle(h) PROVE SetupHeld' /\ OneAdministrator'
  <2>1. CASE Setup(h)
    <3>1. setupMu = NoOne /\ setupMu' = h /\ users = 0 /\ users' = 0
      BY <2>1 DEF Setup
    <3>2. \A g \in Handlers \ {h} : pc[g] # "setup" /\ pc'[g] = pc[g]
      BY <1>3, <3>1, OthersStay DEF SetupHeld
    <3> QED BY <3>1, <3>2 DEF SetupHeld
  <2>2. CASE CreateUser(h)
    <3>1. pc[h] = "setup" /\ pc'[h] # "setup" /\ users' = users + 1
      BY <2>2 DEF CreateUser, GoTo, TypeOK
    <3>2. users = 0 /\ \A g \in Handlers \ {h} : pc[g] # "setup" /\ pc'[g] = pc[g]
      BY <1>3, <3>1, OthersStay DEF SetupHeld
    <3> QED BY <3>1, <3>2 DEF SetupHeld
  \* The others keep the mutex if they have it.
  <2>3. ASSUME users' = users, pc'[h] # "setup", setupMu' = setupMu \/ UnlockSetup(h)
        PROVE  SetupHeld' /\ OneAdministrator'
    <3>1. \A g \in Handlers \ {h} : pc'[g] = "setup" => pc[g] = "setup" /\ setupMu = g /\ setupMu' = g
      BY <1>3, <2>3, OthersStay DEF SetupHeld, UnlockSetup
    <3> QED BY <2>3, <3>1 DEF SetupHeld
  <2>4. ASSUME Done(h) PROVE pc'[h] # "setup"
    BY <2>4 DEF Done, GoTo, TypeOK
  <2>5. CASE SetupFails(h) \/ SaveAdminSession(h) \/ SaveFails(h)
    BY <2>3, <2>4, <2>5 DEF SetupFails, SaveAdminSession, SaveFails
  <2>6. CASE LoginFails(h) \/ DropAdminSession(h) \/ LoadFails(h) \/ Serve(h) \/ Forget(h) \/ LogoutFails(h)
    BY <2>3, <2>4, <2>6 DEF LoginFails, DropAdminSession, LoadFails, Serve, Forget, LogoutFails
  <2>7. CASE SetupTOTP(h) \/ EnableTOTP(h) \/ DisableTOTP(h)
    BY <2>3, <2>4, <2>7 DEF SetupTOTP, EnableTOTP, DisableTOTP
  <2>8. CASE Login(h) \/ LoginSucceeds(h) \/ CreateSession(h) \/ \E t \in Tokens : LoadSession(h, t)
    <3>1. pc'[h] \in {"verify", "create", "save", "get"} /\ UNCHANGED <<users, setupMu>>
      BY <2>8 DEF Login, LoginSucceeds, CreateSession, LoadSession, Arrive, GoTo, TypeOK
    <3> QED BY <2>3, <3>1
  <2>9. CASE Get(h) \/ Logout(h) \/ DeleteAdminSession(h) \/ VerifyTOTP(h, "enable") \/ VerifyTOTP(h, "disable")
    <3>1. pc'[h] \in {"next", "load", "delete", "forget", "enable", "disable"} /\ UNCHANGED <<users, setupMu>>
      BY <2>9 DEF Get, Logout, DeleteAdminSession, VerifyTOTP, GoTo, TypeOK
    <3> QED BY <2>3, <3>1
  <2>10. CASE LoadAdminSession(h) \/ Restore(h)
    <3>1. pc'[h] \in {"idle", "restore", "drop", "next"} /\ UNCHANGED <<users, setupMu>>
      BY <2>10 DEF LoadAdminSession, Restore, Done, GoTo, TypeOK
    <3> QED BY <2>3, <3>1
  <2> QED
    BY <1>3, <2>1, <2>2, <2>5, <2>6, <2>7, <2>8, <2>9, <2>10 DEF Handle
<1> QED
  BY <1>1, <1>2, <1>3 DEF Next

\* OneAdministrator is an invariant, for any number of requests to set up.
THEOREM AdministratorCorrect == Spec => []OneAdministrator
<1>1. Init => SetupHeld /\ OneAdministrator
  BY DEF Init, SetupHeld, OneAdministrator
<1> QED
  BY <1>1, AdministratorStep, TypeCorrect, PTL DEF Spec

-----------------------------------------------------------------------------
(* The mutex of the sessions.                                              *)

Critical == {"save", "get", "load", "drop", "restore", "delete", "forget"}

LockHeld == \A h \in Handlers : pc[h] \in Critical => sessionMu = h

LEMMA LockStep == TypeOK /\ LockHeld /\ [Next]_vars => LockHeld'
<1> SUFFICES ASSUME TypeOK, LockHeld, [Next]_vars PROVE LockHeld'
  OBVIOUS
<1>1. CASE Tick \/ PruneAdminSessions \/ UNCHANGED vars
  BY <1>1 DEF Tick, PruneAdminSessions, vars, sessionVars, LockHeld
<1>2. CASE Restart
  BY <1>2 DEF Restart, LockHeld, Critical
<1>3. ASSUME NEW h \in Handlers, Handle(h) PROVE LockHeld'
  \* It takes the mutex, gives it back, has it or does not.
  <2>1. ASSUME \/ Lock(h)
               \/ Unlock /\ pc[h] \in Critical /\ pc'[h] \notin Critical
               \/ sessionMu' = sessionMu /\ (pc'[h] \in Critical => pc[h] \in Critical)
        PROVE  LockHeld'
    <3>1. ASSUME NEW g \in Handlers, pc'[g] \in Critical PROVE sessionMu' = g
      <4>1. CASE g = h
        BY <2>1, <3>1, <4>1 DEF Lock, LockHeld
      <4>2. CASE g # h
        BY <1>3, <2>1, <3>1, <4>2, OthersStay DEF Lock, Unlock, LockHeld
      <4> QED BY <4>1, <4>2
    <3> QED BY <3>1 DEF LockHeld
  <2>2. ASSUME Done(h) PROVE pc'[h] \notin Critical
    BY <2>2 DEF Done, GoTo, TypeOK, Critical
  <2>3. CASE Setup(h) \/ CreateUser(h) \/ Login(h) \/ LoginSucceeds(h)
    <3>1. pc'[h] \in {"setup", "create", "verify"} /\ sessionMu' = sessionMu
      BY <2>3 DEF Setup, CreateUser, Login, LoginSucceeds, Arrive, GoTo, TypeOK, sessionVars
    <3> QED BY <2>1, <3>1 DEF Critical
  <2>4. CASE SetupFails(h) \/ LoginFails(h) \/ Serve(h) \/ SetupTOTP(h) \/ EnableTOTP(h) \/ DisableTOTP(h)
    BY <2>1, <2>2, <2>4 DEF SetupFails, LoginFails, Serve, SetupTOTP, EnableTOTP, DisableTOTP, sessionVars
  <2>5. CASE CreateSession(h) \/ Logout(h) \/ \E t \in Tokens : LoadSession(h, t)
    BY <2>1, <2>5 DEF CreateSession, Logout, LoadSession
  <2>6. CASE SaveAdminSession(h) \/ SaveFails(h) \/ DropAdminSession(h) \/ LoadFails(h) \/ Forget(h) \/ LogoutFails(h)
    BY <2>1, <2>2, <2>6 DEF SaveAdminSession, SaveFails, DropAdminSession, LoadFails, Forget, LogoutFails, Critical
  <2>7. CASE Get(h)
    <3>1. pc[h] \in Critical /\ pc'[h] \in {"next", "load"} /\ ((Unlock /\ pc'[h] = "next") \/ sessionMu' = sessionMu)
      BY <2>7 DEF Get, GoTo, TypeOK, Critical
    <3> QED BY <2>1, <3>1 DEF Critical
  <2>8. CASE LoadAdminSession(h)
    <3>1. pc[h] \in Critical /\ ((Done(h) /\ Unlock) \/ sessionMu' = sessionMu)
      BY <2>8 DEF LoadAdminSession, Critical
    <3> QED BY <2>1, <2>2, <3>1
  <2>9. CASE Restore(h)
    <3>1. pc[h] \in Critical /\ Unlock /\ pc'[h] \in {"next", "idle"}
      BY <2>9 DEF Restore, Done, GoTo, TypeOK, Critical
    <3> QED BY <2>1, <3>1 DEF Critical
  <2>10. CASE DeleteAdminSession(h) \/ VerifyTOTP(h, "enable") \/ VerifyTOTP(h, "disable")
    <3>1. sessionMu' = sessionMu /\ pc'[h] \in {"enable", "disable", "forget"} /\ (pc'[h] = "forget" => pc[h] = "delete")
      BY <2>10 DEF DeleteAdminSession, VerifyTOTP, GoTo, TypeOK, sessionVars
    <3> QED BY <2>1, <3>1 DEF Critical
  <2> QED
    BY <1>3, <2>3, <2>4, <2>5, <2>6, <2>7, <2>8, <2>9, <2>10 DEF Handle
<1> QED
  BY <1>1, <1>2, <1>3 DEF Next

\* Whoever has the mutex has it alone.
LEMMA Alone ==
  ASSUME TypeOK, LockHeld, NEW h \in Handlers, pc[h] \in Critical, Handle(h)
  PROVE  \A g \in Handlers \ {h} : pc'[g] \notin Critical
BY OthersStay DEF LockHeld

-----------------------------------------------------------------------------
(* Sessions that ended.                                                    *)

\* What is about to be written, or brought back to memory, has not ended; and
\* what is about to be forgotten is not in the database any more.
EndedKept ==
  /\ EndedStaysEnded
  /\ \A h \in Handlers : /\ pc[h] \in {"save", "restore"} => session[h] \notin ended
                         /\ pc[h] = "forget" => session[h] \notin stored

LEMMA EndedStep ==
  TypeOK /\ SessionsCreated /\ LockHeld /\ EndedKept /\ [Next]_vars => EndedKept'
<1> SUFFICES ASSUME TypeOK, SessionsCreated, LockHeld, EndedKept, [Next]_vars PROVE EndedKept'
  OBVIOUS
<1> USE DEF EndedStaysEnded, sessionVars
<1>1. CASE Tick \/ PruneAdminSessions \/ UNCHANGED vars
  BY <1>1 DEF Tick, PruneAdminSessions, vars, EndedKept
<1>2. CASE Restart
  BY <1>2 DEF Restart, EndedKept
<1>3. ASSUME NEW h \in Handlers, Handle(h) PROVE EndedKept'
  <2>1. created + 1 \notin ended
    BY DEF SessionsCreated, TypeOK
  <2>2. ASSUME ended' = ended, stored' \subseteq stored, memory' \subseteq memory \cup {created + 1},
               pc'[h] \in {"save", "restore"} => session'[h] \notin ended,
               pc'[h] = "forget" => session'[h] \notin stored'
        PROVE  EndedKept'
    BY <1>3, <2>1, <2>2, OthersStay DEF EndedKept
  <2>3. ASSUME pc[h] \in Critical, pc'[h] \in {"idle", "next"}, EndedStaysEnded' PROVE EndedKept'
    BY <1>3, <2>3, Alone DEF EndedKept, Critical
  <2>4. ASSUME Done(h) PROVE pc'[h] = "idle"
    BY <2>4 DEF Done, GoTo, TypeOK
  <2>5. CASE Setup(h) \/ CreateUser(h) \/ Login(h) \/ LoginSucceeds(h)
    <3>1. pc'[h] \in {"setup", "create", "verify"} /\ UNCHANGED <<ended, stored, memory>>
      BY <2>5 DEF Setup, CreateUser, Login, LoginSucceeds, Arrive, GoTo, TypeOK
    <3> QED BY <2>2, <3>1
  <2>6. CASE SetupFails(h) \/ LoginFails(h) \/ Serve(h) \/ SetupTOTP(h) \/ EnableTOTP(h) \/ DisableTOTP(h)
    BY <2>2, <2>4, <2>6 DEF SetupFails, LoginFails, Serve, SetupTOTP, EnableTOTP, DisableTOTP
  <2>7. CASE SaveFails(h) \/ DropAdminSession(h) \/ LoadFails(h) \/ LogoutFails(h)
    BY <2>2, <2>4, <2>7 DEF SaveFails, DropAdminSession, LoadFails, LogoutFails
  <2>8. CASE CreateSession(h)
    <3>1. session'[h] = created + 1 /\ pc'[h] = "save"
      BY <2>8 DEF CreateSession, GoTo, TypeOK
    <3> QED BY <2>1, <2>2, <2>8, <3>1 DEF CreateSession
  <2>9. CASE SaveAdminSession(h)
    <3>1. session[h] \notin ended /\ pc[h] = "save"
      BY <2>9 DEF SaveAdminSession, EndedKept
    <3> QED BY <2>3, <2>4, <2>9, <3>1 DEF SaveAdminSession, EndedKept, Critical
  <2>10. CASE (\E t \in Tokens : LoadSession(h, t)) \/ Get(h) \/ Logout(h) \/ VerifyTOTP(h, "enable") \/ VerifyTOTP(h, "disable")
    <3>1. pc'[h] \in {"get", "next", "load", "delete", "enable", "disable"}
      BY <2>10 DEF LoadSession, Arrive, Get, Logout, VerifyTOTP, GoTo, TypeOK
    <3>2. ended' = ended /\ stored' = stored /\ memory' \subseteq memory
      BY <2>10 DEF LoadSession, Get, Logout, VerifyTOTP
    <3> QED BY <2>2, <3>1, <3>2
  <2>11. CASE LoadAdminSession(h)
    <3>1. CASE Done(h)
      BY <2>2, <2>4, <2>11, <3>1 DEF LoadAdminSession
    <3>2. CASE ~Done(h)
      <4>1. session[h] \in stored /\ session' = session /\ pc'[h] \in {"restore", "drop"}
        BY <2>11, <3>2 DEF LoadAdminSession, GoTo, TypeOK
      <4>2. session[h] \notin ended
        BY <4>1 DEF EndedKept
      <4> QED BY <2>2, <2>11, <4>1, <4>2 DEF LoadAdminSession
    <3> QED BY <3>1, <3>2
  <2>12. CASE Restore(h)
    <3>1. session[h] \notin ended /\ pc[h] = "restore"
      BY <2>12 DEF Restore, EndedKept
    <3>2. pc'[h] \in {"idle", "next"}
      BY <2>12 DEF Restore, Done, GoTo, TypeOK
    <3> QED BY <2>3, <2>12, <3>1, <3>2 DEF Restore, EndedKept, Critical
  <2>13. CASE DeleteAdminSession(h)
    <3>1. pc'[h] = "forget" /\ session' = session
      BY <2>13 DEF DeleteAdminSession, GoTo, TypeOK
    <3> QED BY <2>2, <2>13, <3>1 DEF DeleteAdminSession
  <2>14. CASE Forget(h)
    <3>1. session[h] \notin stored /\ pc[h] = "forget"
      BY <2>14 DEF Forget, EndedKept
    <3> QED BY <2>3, <2>4, <2>14, <3>1 DEF Forget, EndedKept, Critical
  <2> QED
    BY <1>3, <2>5, <2>6, <2>7, <2>8, <2>9, <2>10, <2>11, <2>12, <2>13, <2>14 DEF Handle
<1> QED
  BY <1>1, <1>2, <1>3 DEF Next

LEMMA SessionsInvariant == Spec => [](TypeOK /\ SessionsCreated /\ LockHeld)
<1>1. Init => LockHeld
  BY DEF Init, LockHeld, Critical
<1>2. TypeOK /\ RequestsSuffice /\ SessionsCreated /\ LockHeld /\ [Next]_vars
      => TypeOK' /\ RequestsSuffice' /\ SessionsCreated' /\ LockHeld'
  BY TypeStep, RequestsSufficeStep, SessionsCreatedStep, LockStep
<1> QED
  BY <1>1, <1>2, TypeInit, PTL DEF Spec

\* EndedStaysEnded is an invariant: no interleaving of lookups, log-outs, errors,
\* pruning and restarts brings a session back.
THEOREM EndedCorrect == Spec => []EndedStaysEnded
<1>1. Init => EndedKept
  BY DEF Init, EndedKept, EndedStaysEnded
<1>2. EndedKept => EndedStaysEnded
  BY DEF EndedKept
<1> QED
  BY <1>1, <1>2, EndedStep, SessionsInvariant, PTL DEF Spec

-----------------------------------------------------------------------------
(* Sessions whose cookie was sent.                                         *)

\* Rows are deleted of sessions that expired, or whose log-out was asked for.
SurvivalKept ==
  /\ SessionsSurvive
  /\ \A h \in Handlers : /\ pc[h] = "drop" => expiry[session[h]] <= now
                         /\ pc[h] \in {"delete", "forget"} => session[h] \in leaving

\* Expiry times are written once, and time does not go back.
LEMMA ExpiryStays ==
  ASSUME TypeOK, TypeOK', [Next]_vars
  PROVE  now <= now' /\ \A t \in 1 .. created : expiry'[t] = expiry[t] /\ expiry[t] \in Nat
<1> DEFINE Kept == now <= now' /\ \A t \in 1 .. created : expiry'[t] = expiry[t] /\ expiry[t] \in Nat
<1> SUFFICES Kept
  OBVIOUS
<1>0. now \in Nat /\ expiry \in [Tokens -> Nat] /\ created \in Nat /\ 1 .. created \subseteq Tokens
  <2>1. now \in Nat /\ expiry \in [Tokens -> Nat] /\ created \in 0 .. MaxRequests
    BY DEF TypeOK
  <2> QED BY <2>1 DEF Tokens
<1>1. ASSUME NEW h \in Handlers, CreateSession(h) PROVE Kept
  BY <1>0, <1>1 DEF CreateSession
<1>2. CASE Tick
  BY <1>0, <1>2 DEF Tick, sessionVars
<1>3. CASE ~Tick /\ ~\E h \in Handlers : CreateSession(h)
  <2>1. UNCHANGED <<now, expiry>>
    BY <1>3 DEF Next, vars, sessionVars, PruneAdminSessions, Restart, Handle, Setup, CreateUser, SetupFails,
       Login, LoginFails, LoginSucceeds, SaveAdminSession, SaveFails, LoadSession, Get, LoadAdminSession,
       DropAdminSession, Restore, LoadFails, Serve, Logout, DeleteAdminSession, Forget, LogoutFails,
       SetupTOTP, VerifyTOTP, EnableTOTP, DisableTOTP
  <2> QED BY <1>0, <2>1
<1> HIDE DEF Kept
<1> QED BY <1>1, <1>2, <1>3

LEMMA SurvivalStep ==
  TypeOK /\ TypeOK' /\ SessionsCreated /\ LockHeld /\ SurvivalKept /\ [Next]_vars => SurvivalKept'
<1> SUFFICES ASSUME TypeOK, TypeOK', SessionsCreated, LockHeld, SurvivalKept, [Next]_vars
             PROVE  SurvivalKept'
  OBVIOUS
<1>1. /\ now \in Nat /\ now' \in Nat /\ now <= now'
      /\ \A t \in 1 .. created : expiry'[t] = expiry[t] /\ expiry[t] \in Nat
  BY ExpiryStays DEF TypeOK
\* A session that was given and is not leaving stays in the database.
<1>2. ASSUME given' \subseteq given \cup stored', leaving \subseteq leaving', given \subseteq 1 .. created,
             \A t \in stored \ leaving' : now < expiry[t] => t \in stored',
             given' \subseteq given \/ expiry' = expiry
      PROVE  SessionsSurvive'
  <2>1. ASSUME NEW t \in given' \ leaving', now' < expiry'[t], t \notin stored' PROVE FALSE
    <3>1. t \in given \ leaving /\ t \in 1 .. created
      BY <1>2, <2>1
    <3>2. now < expiry[t]
      BY <1>1, <2>1, <3>1
    <3>3. t \in stored
      BY <3>1, <3>2 DEF SurvivalKept, SessionsSurvive
    <3> QED BY <1>2, <2>1, <3>2, <3>3
  <2> QED BY <2>1 DEF SessionsSurvive
<1>3. given \subseteq 1 .. created
  BY DEF SessionsCreated
<1>4. ASSUME UNCHANGED <<pc, session, leaving>>, SessionsSurvive' PROVE SurvivalKept'
  <2>1. ASSUME NEW h \in Handlers, pc[h] = "drop" PROVE expiry'[session[h]] <= now'
    <3>1. session[h] \in 1 .. created /\ expiry[session[h]] <= now
      BY <2>1 DEF SessionsCreated, WithSession, SurvivalKept
    <3> QED BY <1>1, <3>1
  <2> QED BY <1>4, <2>1 DEF SurvivalKept
<1>5. CASE Tick \/ UNCHANGED vars
  <2>1. UNCHANGED <<pc, session, given, leaving, stored, expiry>>
    BY <1>5 DEF Tick, vars, sessionVars
  <2> QED BY <1>2, <1>3, <1>4, <2>1
<1>6. CASE PruneAdminSessions
  <2>1. \A t \in stored : now < expiry[t] => t \in stored'
    BY <1>3, <1>6 DEF PruneAdminSessions, TypeOK
  <2>2. UNCHANGED <<pc, session, given, leaving, expiry>>
    BY <1>6 DEF PruneAdminSessions
  <2> QED BY <1>2, <1>3, <1>4, <2>1, <2>2
<1>7. CASE Restart
  <2>1. SessionsSurvive'
    BY <1>2, <1>3, <1>7 DEF Restart
  <2> QED BY <1>7, <2>1 DEF Restart, SurvivalKept
<1>8. ASSUME NEW h \in Handlers, Handle(h) PROVE SurvivalKept'
  \* It is enough to look at the handler, and at what becomes of sessions.
  <2>1. ASSUME SessionsSurvive', leaving \subseteq leaving',
               pc'[h] = "drop" => expiry'[session'[h]] <= now',
               pc'[h] \in {"delete", "forget"} => session'[h] \in leaving'
        PROVE  SurvivalKept'
    <3>1. ASSUME NEW g \in Handlers \ {h}
          PROVE  /\ pc'[g] = "drop" => expiry'[session'[g]] <= now'
                 /\ pc'[g] \in {"delete", "forget"} => session'[g] \in leaving'
      <4>1. pc'[g] = pc[g] /\ session'[g] = session[g]
        BY <1>8, OthersStay
      <4>2. pc[g] = "drop" => session[g] \in 1 .. created /\ expiry[session[g]] <= now
        BY DEF SessionsCreated, WithSession, SurvivalKept
      <4>3. pc[g] = "drop" => expiry[session[g]] \in Nat /\ expiry'[session[g]] = expiry[session[g]]
        BY <1>1, <4>2
      <4>4. pc[g] = "drop" => expiry'[session[g]] <= now'
        BY <1>1, <4>2, <4>3
      <4> QED BY <2>1, <4>1, <4>4 DEF SurvivalKept
    <3> QED BY <2>1, <3>1 DEF SurvivalKept
  <2>2. ASSUME UNCHANGED <<given, leaving, stored>>, pc'[h] \notin {"drop", "delete", "forget"} PROVE SurvivalKept'
    BY <1>2, <1>3, <2>1, <2>2
  <2>3. ASSUME Done(h) PROVE pc'[h] = "idle"
    BY <2>3 DEF Done, GoTo, TypeOK
  <2>4. CASE Setup(h) \/ CreateUser(h) \/ Login(h) \/ LoginSucceeds(h) \/ CreateSession(h)
    <3>1. pc'[h] \in {"setup", "create", "verify", "save"} /\ UNCHANGED <<given, leaving, stored>>
      BY <2>4 DEF Setup, CreateUser, Login, LoginSucceeds, CreateSession, Arrive, GoTo, TypeOK, sessionVars
    <3> QED BY <2>2, <3>1
  <2>5. CASE SetupFails(h) \/ LoginFails(h) \/ SaveFails(h) \/ LoadFails(h) \/ Serve(h)
    BY <2>2, <2>3, <2>5 DEF SetupFails, LoginFails, SaveFails, LoadFails, Serve, sessionVars
  <2>6. CASE Forget(h) \/ LogoutFails(h) \/ SetupTOTP(h) \/ EnableTOTP(h) \/ DisableTOTP(h)
    BY <2>2, <2>3, <2>6 DEF Forget, LogoutFails, SetupTOTP, EnableTOTP, DisableTOTP, sessionVars
  <2>7. CASE (\E t \in Tokens : LoadSession(h, t)) \/ Get(h) \/ Restore(h) \/ VerifyTOTP(h, "enable") \/ VerifyTOTP(h, "disable")
    <3>1. pc'[h] \in {"get", "next", "load", "idle", "enable", "disable"}
      BY <2>7 DEF LoadSession, Arrive, Get, Restore, VerifyTOTP, Done, GoTo, TypeOK
    <3>2. UNCHANGED <<given, leaving, stored>>
      BY <2>7 DEF LoadSession, Get, Restore, VerifyTOTP, sessionVars
    <3> QED BY <2>2, <3>1, <3>2
  <2>8. CASE SaveAdminSession(h)
    <3>1. SessionsSurvive'
      BY <1>2, <1>3, <2>8 DEF SaveAdminSession
    <3> QED BY <2>1, <2>3, <2>8, <3>1 DEF SaveAdminSession
  <2>9. CASE LoadAdminSession(h)
    <3>1. CASE Done(h)
      BY <2>2, <2>3, <2>9, <3>1 DEF LoadAdminSession
    <3>2. CASE ~Done(h)
      <4>1. /\ pc[h] = "load" /\ pc'[h] = (IF now < expiry[session[h]] THEN "restore" ELSE "drop")
            /\ UNCHANGED <<session, now, expiry, given, leaving, stored>>
        BY <2>9, <3>2 DEF LoadAdminSession, GoTo, TypeOK
      <4>2. session[h] \in 1 .. created
        BY <4>1 DEF SessionsCreated, WithSession
      <4>3. SessionsSurvive'
        BY <1>2, <1>3, <4>1
      <4>4. pc'[h] = "drop" => expiry'[session'[h]] <= now'
        BY <1>1, <4>1, <4>2
      <4> QED BY <2>1, <4>1, <4>3, <4>4
    <3> QED BY <3>1, <3>2
  <2>10. CASE DropAdminSession(h)
    <3>1. session[h] \in 1 .. created /\ expiry[session[h]] <= now
      BY <2>10 DEF DropAdminSession, SessionsCreated, WithSession, SurvivalKept
    <3>2. expiry[session[h]] \in Nat
      BY <1>1, <3>1
    <3>3. \A t \in stored : now < expiry[t] => t \in stored'
      BY <1>1, <2>10, <3>1, <3>2 DEF DropAdminSession
    <3>4. SessionsSurvive'
      BY <1>2, <1>3, <2>10, <3>3 DEF DropAdminSession
    <3> QED BY <2>1, <2>3, <2>10, <3>4 DEF DropAdminSession
  <2>11. CASE Logout(h)
    <3>1. SessionsSurvive'
      BY <1>2, <1>3, <2>11 DEF Logout
    <3>2. pc'[h] = "delete"
      BY <2>11 DEF Logout, GoTo, TypeOK
    <3> QED BY <2>1, <2>11, <3>1, <3>2 DEF Logout
  <2>12. CASE DeleteAdminSession(h)
    <3>1. session[h] \in leaving
      BY <2>12 DEF DeleteAdminSession, SurvivalKept
    <3>2. SessionsSurvive'
      BY <1>2, <1>3, <2>12, <3>1 DEF DeleteAdminSession
    <3>3. pc'[h] = "forget"
      BY <2>12 DEF DeleteAdminSession, GoTo, TypeOK
    <3> QED BY <2>1, <2>12, <3>1, <3>2, <3>3 DEF DeleteAdminSession
  <2> QED
    BY <1>8, <2>4, <2>5, <2>6, <2>7, <2>8, <2>9, <2>10, <2>11, <2>12 DEF Handle
<1> QED
  BY <1>5, <1>6, <1>7, <1>8 DEF Next

\* SessionsSurvive is an invariant: only time and log-outs end a session.
THEOREM SurvivalCorrect == Spec => []SessionsSurvive
<1>1. Init => SurvivalKept
  BY DEF Init, SurvivalKept, SessionsSurvive
<1>2. SurvivalKept => SessionsSurvive
  BY DEF SurvivalKept
<1> QED
  BY <1>1, <1>2, SurvivalStep, SessionsInvariant, PTL DEF Spec

-----------------------------------------------------------------------------
(* The second factor.                                                      *)

\* A code was verified for what is about to be enabled.
ProvenKept ==
  /\ EnabledIsProven
  /\ \A h \in Handlers : pc[h] = "enable" => read[h] \in proven

LEMMA ProvenStep == TypeOK /\ ProvenKept /\ [Next]_vars => ProvenKept'
<1> SUFFICES ASSUME TypeOK, ProvenKept, [Next]_vars PROVE ProvenKept'
  OBVIOUS
<1> USE DEF totpVars, EnabledIsProven
<1>1. CASE Tick \/ PruneAdminSessions \/ UNCHANGED vars
  BY <1>1 DEF Tick, PruneAdminSessions, vars, ProvenKept
<1>2. CASE Restart
  BY <1>2 DEF Restart, ProvenKept
<1>3. ASSUME NEW h \in Handlers, Handle(h) PROVE ProvenKept'
  <2>1. ASSUME proven \subseteq proven', EnabledIsProven', pc'[h] = "enable" => read'[h] \in proven'
        PROVE  ProvenKept'
    BY <1>3, <2>1, OthersStay DEF ProvenKept
  <2>2. ASSUME Done(h) PROVE pc'[h] = "idle"
    BY <2>2 DEF Done, GoTo, TypeOK
  <2>3. ASSUME UNCHANGED totp, proven \subseteq proven', pc'[h] # "enable" PROVE ProvenKept'
    BY <2>1, <2>3 DEF ProvenKept
  <2>4. CASE Setup(h) \/ CreateUser(h) \/ Login(h) \/ CreateSession(h) \/ LoginSucceeds(h)
    <3>1. pc'[h] \in {"setup", "create", "verify", "save"} /\ totp' = totp
      BY <2>4 DEF Setup, CreateUser, Login, CreateSession, LoginSucceeds, Arrive, GoTo, TypeOK
    <3>2. proven \subseteq proven'
      BY <2>4 DEF Setup, CreateUser, Login, CreateSession, LoginSucceeds
    <3> QED BY <2>3, <3>1, <3>2
  <2>5. CASE SetupFails(h) \/ LoginFails(h) \/ SaveAdminSession(h) \/ SaveFails(h) \/ DropAdminSession(h)
    BY <2>2, <2>3, <2>5 DEF SetupFails, LoginFails, SaveAdminSession, SaveFails, DropAdminSession
  <2>6. CASE LoadFails(h) \/ Serve(h) \/ Forget(h) \/ LogoutFails(h)
    BY <2>2, <2>3, <2>6 DEF LoadFails, Serve, Forget, LogoutFails
  <2>7. CASE (\E t \in Tokens : LoadSession(h, t)) \/ Get(h) \/ Logout(h) \/ DeleteAdminSession(h)
    <3>1. pc'[h] \in {"get", "next", "load", "delete", "forget"} /\ UNCHANGED totpVars
      BY <2>7 DEF LoadSession, Arrive, Get, Logout, DeleteAdminSession, GoTo, TypeOK
    <3> QED BY <2>3, <3>1
  <2>8. CASE LoadAdminSession(h) \/ Restore(h)
    <3>1. pc'[h] \in {"idle", "restore", "drop", "next"} /\ UNCHANGED totpVars
      BY <2>8 DEF LoadAdminSession, Restore, Done, GoTo, TypeOK
    <3> QED BY <2>3, <3>1
  <2>9. CASE SetupTOTP(h) \/ DisableTOTP(h)
    <3>1. ~totp'.enabled /\ proven' = proven
      BY <2>9 DEF SetupTOTP, DisableTOTP, Totp
    <3>2. pc'[h] = "idle"
      BY <2>2, <2>9 DEF SetupTOTP, DisableTOTP
    <3> QED BY <2>1, <3>1, <3>2
  <2>10. ASSUME NEW label, VerifyTOTP(h, label) PROVE ProvenKept'
    <3>1. read'[h] = totp.secret /\ proven' = proven \cup {totp.secret} /\ totp' = totp
      BY <2>10 DEF VerifyTOTP, TypeOK
    <3> QED BY <2>1, <3>1 DEF ProvenKept
  <2>11. CASE EnableTOTP(h)
    <3>1. read[h] \in proven /\ totp'.secret = read[h] /\ proven' = proven
      BY <2>11 DEF EnableTOTP, Totp, ProvenKept
    <3> QED BY <2>1, <2>2, <2>11, <3>1 DEF EnableTOTP
  <2> QED
    BY <1>3, <2>4, <2>5, <2>6, <2>7, <2>8, <2>9, <2>10, <2>11 DEF Handle
<1> QED
  BY <1>1, <1>2, <1>3 DEF Next

\* EnabledIsProven is an invariant, whatever requests about the secret overlap.
THEOREM ProvenCorrect == Spec => []EnabledIsProven
<1>1. Init => ProvenKept
  BY DEF Init, ProvenKept, EnabledIsProven
<1>2. ProvenKept => EnabledIsProven
  BY DEF ProvenKept
<1> QED
  BY <1>1, <1>2, ProvenStep, TypeCorrect, PTL DEF Spec

-----------------------------------------------------------------------------
(* Guesses.                                                                *)

\* The requests that were let in and may still fail.
Guessing == {h \in Handlers : pc[h] = "verify"}

\* Failures while logging in is refused have used up requests that were let in.
GuessesBounded ==
  \/ over = 0 /\ now >= limiter.blocked
  \/ over + Cardinality(Guessing) < Cardinality(Handlers)

LEMMA GuessingFinite ==
  /\ IsFiniteSet(Guessing) /\ Cardinality(Guessing) \in Nat /\ Cardinality(Handlers) \in Nat
  /\ Cardinality(Guessing) <= Cardinality(Handlers)
<1>1. Guessing \in SUBSET Handlers
  BY DEF Guessing
<1> QED BY <1>1, FS_Subset, FS_CardinalityType

LEMMA GuessesStep == TypeOK /\ TypeOK' /\ GuessesBounded /\ [Next]_vars => GuessesBounded'
<1> SUFFICES ASSUME TypeOK, TypeOK', GuessesBounded, [Next]_vars PROVE GuessesBounded'
  OBVIOUS
<1>1. /\ over \in Nat /\ over' \in Nat /\ now \in Nat /\ now' \in Nat
      /\ limiter.blocked \in Nat /\ limiter'.blocked \in Nat
  BY DEF TypeOK
<1>2. ASSUME UNCHANGED <<over, limiter>>, now <= now', Guessing' = Guessing PROVE GuessesBounded'
  BY <1>1, <1>2 DEF GuessesBounded
<1>3. CASE Tick \/ PruneAdminSessions \/ UNCHANGED vars
  BY <1>1, <1>2, <1>3 DEF Tick, PruneAdminSessions, vars, limiterVars, Guessing
<1>4. CASE Restart
  BY <1>1, <1>4 DEF Restart, GuessesBounded, NoEntry, Entry
<1>5. ASSUME NEW h \in Handlers, Handle(h) PROVE GuessesBounded'
  <2>1. /\ pc[h] = "verify" <=> h \in Guessing
        /\ pc'[h] = "verify" <=> h \in Guessing'
        /\ Guessing' \ {h} = Guessing \ {h}
    BY <1>5, OthersStay DEF Guessing
  <2>2. CASE Login(h)
    <3>1. over' = 0 /\ now >= limiter'.blocked /\ now' = now
      BY <1>1, <2>2 DEF Login, Allowed, NoEntry, Entry
    <3> QED BY <3>1 DEF GuessesBounded
  <2>3. ASSUME pc[h] = "verify", pc'[h] # "verify"
        PROVE  /\ Cardinality(Guessing') + 1 = Cardinality(Guessing)
               /\ Cardinality(Guessing') \in Nat
    <3>1. h \in Guessing /\ Guessing' = Guessing \ {h}
      BY <2>1, <2>3
    <3>2. /\ IsFiniteSet(Guessing \ {h})
          /\ Cardinality(Guessing \ {h}) = Cardinality(Guessing) - 1
      BY <3>1, GuessingFinite, FS_RemoveElement
    <3>3. Cardinality(Guessing \ {h}) \in Nat
      BY <3>2, FS_CardinalityType
    <3> QED BY <3>1, <3>2, <3>3, GuessingFinite
  <2>4. ASSUME Done(h) PROVE pc'[h] # "verify"
    BY <2>4 DEF Done, GoTo, TypeOK
  <2>5. CASE LoginFails(h)
    <3>1. over' = (IF now < limiter.blocked THEN over + 1 ELSE over)
      BY <2>5 DEF LoginFails
    <3>2. Cardinality(Guessing') + 1 = Cardinality(Guessing) /\ Cardinality(Guessing') \in Nat
      BY <2>3, <2>4, <2>5 DEF LoginFails
    <3> QED BY <1>1, <3>1, <3>2, GuessingFinite DEF GuessesBounded
  <2>6. CASE LoginSucceeds(h)
    <3>1. over' = 0 /\ pc[h] = "verify" /\ pc'[h] # "verify"
      BY <2>6 DEF LoginSucceeds, GoTo, TypeOK
    <3>2. Cardinality(Guessing') + 1 = Cardinality(Guessing) /\ Cardinality(Guessing') \in Nat
      BY <2>3, <3>1
    <3> QED BY <3>1, <3>2, GuessingFinite DEF GuessesBounded
  <2>7. ASSUME UNCHANGED limiterVars, UNCHANGED now, pc[h] # "verify", pc'[h] # "verify" PROVE GuessesBounded'
    BY <1>1, <1>2, <2>1, <2>7 DEF limiterVars
  <2>8. CASE Setup(h) \/ CreateUser(h) \/ CreateSession(h) \/ \E t \in Tokens : LoadSession(h, t)
    <3>1. pc[h] # "verify" /\ pc'[h] \in {"setup", "create", "save", "get"}
      BY <2>8 DEF Setup, CreateUser, CreateSession, LoadSession, Arrive, GoTo, TypeOK
    <3> QED BY <2>7, <2>8, <3>1 DEF Setup, CreateUser, CreateSession, LoadSession
  <2>9. CASE SetupFails(h) \/ SaveAdminSession(h) \/ SaveFails(h) \/ DropAdminSession(h) \/ LoadFails(h)
    BY <2>4, <2>7, <2>9 DEF SetupFails, SaveAdminSession, SaveFails, DropAdminSession, LoadFails
  <2>10. CASE Serve(h) \/ Forget(h) \/ LogoutFails(h) \/ SetupTOTP(h) \/ EnableTOTP(h) \/ DisableTOTP(h)
    BY <2>4, <2>7, <2>10 DEF Serve, Forget, LogoutFails, SetupTOTP, EnableTOTP, DisableTOTP
  <2>11. CASE Get(h) \/ Logout(h) \/ DeleteAdminSession(h) \/ VerifyTOTP(h, "enable") \/ VerifyTOTP(h, "disable")
    <3>1. pc[h] # "verify" /\ pc'[h] \in {"next", "load", "delete", "forget", "enable", "disable"}
      BY <2>11 DEF Get, Logout, DeleteAdminSession, VerifyTOTP, GoTo, TypeOK
    <3> QED BY <2>7, <2>11, <3>1 DEF Get, Logout, DeleteAdminSession, VerifyTOTP
  <2>12. CASE LoadAdminSession(h) \/ Restore(h)
    <3>1. pc[h] # "verify" /\ pc'[h] \in {"idle", "restore", "drop", "next"}
      BY <2>12 DEF LoadAdminSession, Restore, Done, GoTo, TypeOK
    <3> QED BY <2>7, <2>12, <3>1 DEF LoadAdminSession, Restore
  <2> QED
    BY <1>5, <2>2, <2>5, <2>6, <2>8, <2>9, <2>10, <2>11, <2>12 DEF Handle
<1> QED
  BY <1>3, <1>4, <1>5 DEF Next

\* FewGuessesWhileBlocked is an invariant, for any number of parallel guesses.
THEOREM GuessesCorrect == Spec => []FewGuessesWhileBlocked
<1>1. Init => GuessesBounded
  BY DEF Init, GuessesBounded, NoEntry, Entry
<1>2. TypeOK /\ GuessesBounded => FewGuessesWhileBlocked
  <2> SUFFICES ASSUME TypeOK, GuessesBounded PROVE FewGuessesWhileBlocked
    OBVIOUS
  <2>1. Cardinality(Handlers) \in Nat /\ Cardinality(Handlers) # 0
    BY FS_EmptySet, FS_CardinalityType
  <2>2. over \in Nat
    BY DEF TypeOK
  <2> QED BY <2>1, <2>2, GuessingFinite DEF GuessesBounded, FewGuessesWhileBlocked
<1> QED
  BY <1>1, <1>2, GuessesStep, TypeCorrect, PTL DEF Spec
==============================================================================
