-------------------------------- MODULE Auth --------------------------------
(***************************************************************************)
(* Logging in and out of the web interface: the sessions in memory and in  *)
(* their database, and the limit on failed attempts                        *)
(* (internal/home/auth.go, authhttp.go, authratelimiter.go).               *)
(*                                                                         *)
(* Every critical section of a handler is a step of its own: the limiter,  *)
(* the users and the sessions have their locks, and the database is        *)
(* written outside of them except in checkSession.  A login is a POST and  *)
(* holds controlLock throughout (control.go:225), so logins never overlap; *)
(* logouts and pages are GETs and overlap with everything.  Times are      *)
(* clock ticks.                                                            *)
(***************************************************************************)
EXTENDS Naturals, Integers, Sequences, SequencesExt, FiniteSets, TLC

CONSTANTS
  Handlers,        \* requests that may be handled at once
  Addrs,           \* addresses they come from
  Users,           \* the users of the configuration file
  NoUser,          \* a login whose name or password is wrong
  Tokens,          \* session tokens, drawn at random and never twice
  NoToken,
  maxAttempts,     \* auth_attempts
  blockDur,        \* block_auth_min
  failedAuthTTL,   \* a minute
  sessionTTL,      \* http.session_ttl
  Day              \* the unit in which expirations are compared

ASSUME AuthAssumption ==
  /\ {maxAttempts, blockDur, failedAuthTTL, sessionTTL, Day} \subseteq Nat \ {0}
  /\ NoUser \notin Users /\ NoToken \notin Tokens

VARIABLES
  sessions,    \* sessions in memory: token -> [user, expire]
  sessionsDB,  \* the bucket "sessions-2"
  failedAuths, \* address -> [num, until]
  hreq,        \* what every handler is doing
  drawn,       \* tokens that have been drawn
  cookies,     \* tokens the browsers hold
  clock,
  loggedOut,   \* tokens whose logout has been answered
  wrong        \* per address, the times of its failed comparisons since a login succeeded

authVars == <<sessions, sessionsDB, failedAuths, hreq, drawn, cookies, clock, loggedOut, wrong>>

Free == [pc |-> "free", addr |-> NoToken, user |-> NoUser, tok |-> NoToken]

None == [t \in {} |-> 0]
Without(f, k) == [x \in DOMAIN f \ {k} |-> f[x]]
With(f, k, e) == [x \in DOMAIN f \cup {k} |-> IF x = k THEN e ELSE f[x]]

\* A session ends with the second of its expiration.
Expired(s) == s.expire <= clock

AuthInit ==
  /\ sessions = None /\ sessionsDB = None /\ failedAuths = None
  /\ hreq = [h \in Handlers |-> Free]
  /\ drawn = {} /\ cookies = {} /\ clock = 1 /\ loggedOut = {}
  /\ wrong = [a \in Addrs |-> <<>>]

----------------------------------------------------------------------------
(* The limiter. *)

cleanupLocked(f) == [a \in {b \in DOMAIN f : f[b].until >= clock} |-> f[a]]

\* The time an address still has to wait.
checkLocked(f, a) ==
  IF a \notin DOMAIN f THEN 0
  ELSE IF f[a].num < maxAttempts THEN 0
  ELSE f[a].until - clock

\* Mutant: reaching the limit doesn't put the end of the record off.
IncKeepsUntil(f, a) ==
  With(f, a, [num   |-> IF a \in DOMAIN f THEN f[a].num + 1 ELSE 1,
              until |-> IF a \in DOMAIN f THEN f[a].until ELSE clock + failedAuthTTL])

\* The first failure sets the time at which the record expires, the one that
\* reaches the limit puts it off.
incLocked(f, a) ==
  LET num   == IF a \in DOMAIN f THEN f[a].num + 1 ELSE 1
      until == IF num >= maxAttempts THEN clock + blockDur
               ELSE IF a \in DOMAIN f THEN f[a].until
               ELSE clock + failedAuthTTL
  IN With(f, a, [num |-> num, until |-> until])

----------------------------------------------------------------------------
(* handleLogin and newCookie. *)

\* A login in progress, which has controlLock.
LoggingIn == \E h \in Handlers : hreq[h].pc \in {"find", "inc", "remove", "add", "store"}

\* rateLimiter.check; a blocked address gets 429.
LoginCheck(h, a, u) ==
  /\ hreq[h].pc = "free"
  /\ failedAuths' = cleanupLocked(failedAuths)
  /\ hreq' = IF checkLocked(failedAuths', a) > 0 THEN hreq
             ELSE [hreq EXCEPT ![h] = [Free EXCEPT !.pc = "find", !.addr = a, !.user = u]]
  /\ UNCHANGED <<sessions, sessionsDB, drawn, cookies, clock, loggedOut, wrong>>

\* findUser compares the password under the lock of the users.
LoginFind(h) ==
  /\ hreq[h].pc = "find"
  /\ LET a == hreq[h].addr IN
       /\ hreq'  = [hreq EXCEPT ![h].pc = IF hreq[h].user = NoUser THEN "inc" ELSE "remove"]
       /\ wrong' = [wrong EXCEPT ![a] = IF hreq[h].user = NoUser THEN Append(@, clock) ELSE <<>>]
  /\ UNCHANGED <<sessions, sessionsDB, failedAuths, drawn, cookies, clock, loggedOut>>

\* rateLimiter.inc, answered with 403.
LoginInc(h) ==
  /\ hreq[h].pc = "inc"
  /\ failedAuths' = incLocked(failedAuths, hreq[h].addr)
  /\ hreq' = [hreq EXCEPT ![h] = Free]
  /\ UNCHANGED <<sessions, sessionsDB, drawn, cookies, clock, loggedOut, wrong>>

LoginRemove(h) ==
  /\ hreq[h].pc = "remove"
  /\ failedAuths' = Without(failedAuths, hreq[h].addr)
  /\ hreq' = [hreq EXCEPT ![h].pc = "add"]
  /\ UNCHANGED <<sessions, sessionsDB, drawn, cookies, clock, loggedOut, wrong>>

\* newSessionToken, and addSession up to the unlock.
LoginAdd(h) ==
  /\ hreq[h].pc = "add"
  /\ \E t \in Tokens \ drawn :
       /\ drawn' = drawn \cup {t}
       /\ sessions' = With(sessions, t, [user |-> hreq[h].user, expire |-> clock + sessionTTL])
       /\ hreq' = [hreq EXCEPT ![h].pc = "store", ![h].tok = t]
  /\ UNCHANGED <<sessionsDB, failedAuths, cookies, clock, loggedOut, wrong>>

\* storeSession writes what the session is by now, and the answer carries
\* the cookie.
LoginStore(h) ==
  /\ hreq[h].pc = "store"
  /\ LET t == hreq[h].tok IN
       /\ sessionsDB' = With(sessionsDB, t, sessions[t])
       /\ cookies' = cookies \cup {t}
  /\ hreq' = [hreq EXCEPT ![h] = Free]
  /\ UNCHANGED <<sessions, failedAuths, drawn, clock, loggedOut, wrong>>

----------------------------------------------------------------------------
(* Requests with a cookie. *)

\* checkSession, all of it under the lock.  Once a day the session gets a new
\* expiration.
checkSession(t) ==
  LET s   == sessions[t]
      new == clock + sessionTTL
  IN IF t \notin DOMAIN sessions THEN
       /\ UNCHANGED <<sessions, sessionsDB>>
     ELSE IF Expired(s) THEN
       /\ sessions' = Without(sessions, t)
       /\ sessionsDB' = Without(sessionsDB, t)
     ELSE IF s.expire \div Day # new \div Day THEN
       /\ sessions' = [sessions EXCEPT ![t].expire = new]
       /\ sessionsDB' = With(sessionsDB, t, sessions'[t])
     ELSE UNCHANGED <<sessions, sessionsDB>>

checkSessionOK(t) == t \in DOMAIN sessions /\ ~Expired(sessions[t])

\* optionalAuth for any page; a page of the interface is then served.
AuthRequest(t) ==
  /\ checkSession(t)
  /\ UNCHANGED <<failedAuths, hreq, drawn, cookies, clock, loggedOut, wrong>>

\* A logout is itself a request that needs a session.
LogoutBegin(h, t) ==
  /\ hreq[h].pc = "free"
  /\ checkSession(t)
  /\ hreq' = IF checkSessionOK(t)
             THEN [hreq EXCEPT ![h] = [Free EXCEPT !.pc = "logout", !.tok = t]] ELSE hreq
  /\ UNCHANGED <<failedAuths, drawn, cookies, clock, loggedOut, wrong>>

\* handleLogout: removeSession up to the unlock.
LogoutRemove(h) ==
  /\ hreq[h].pc = "logout"
  /\ sessions' = Without(sessions, hreq[h].tok)
  /\ hreq' = [hreq EXCEPT ![h].pc = "logoutDB"]
  /\ UNCHANGED <<sessionsDB, failedAuths, drawn, cookies, clock, loggedOut, wrong>>

\* Mutant: the session stays in the database.
RemoveFromMemoryOnly(db, t) == db

removeSessionFromFile(db, t) == Without(db, t)

\* The cookie may have been copied: it stays among those that can be sent.
LogoutRemoveDB(h) ==
  /\ hreq[h].pc = "logoutDB"
  /\ sessionsDB' = removeSessionFromFile(sessionsDB, hreq[h].tok)
  /\ loggedOut' = loggedOut \cup {hreq[h].tok}
  /\ hreq' = [hreq EXCEPT ![h] = Free]
  /\ UNCHANGED <<sessions, failedAuths, drawn, cookies, clock, wrong>>

----------------------------------------------------------------------------
(* Start and end of the program. *)

\* InitAuth and loadSessions: expired sessions are deleted, the limiter is
\* empty.
InitAuth ==
  LET valid == {t \in DOMAIN sessionsDB : ~Expired(sessionsDB[t])}
      kept  == [t \in valid |-> sessionsDB[t]]
  IN /\ sessions' = kept
     /\ sessionsDB' = kept
     /\ failedAuths' = None
     /\ UNCHANGED <<hreq, drawn, cookies, clock, loggedOut, wrong>>

\* The process ends: what its handlers were doing is lost with its memory.
AuthDown ==
  /\ sessions' = None /\ failedAuths' = None
  /\ hreq' = [h \in Handlers |-> Free]
  /\ wrong' = [a \in Addrs |-> <<>>]
  /\ UNCHANGED <<sessionsDB, drawn, cookies, clock, loggedOut>>

AuthTick ==
  /\ clock' = clock + 1
  /\ UNCHANGED <<sessions, sessionsDB, failedAuths, hreq, drawn, cookies, loggedOut, wrong>>

LoginStep(h) ==
  LoginFind(h) \/ LoginInc(h) \/ LoginRemove(h) \/ LoginAdd(h) \/ LoginStore(h)

LogoutStep(h) == LogoutRemove(h) \/ LogoutRemoveDB(h)

----------------------------------------------------------------------------
(* Properties. *)

\* A session whose logout has been answered is gone from memory and from the
\* database, whatever other requests with its cookie, restarts and crashes
\* came in between; and a session in memory that somebody has a cookie for
\* is in the database with the same expiration (auth.go:305, auth.go:267).
SessionsOnDisk ==
  /\ loggedOut \cap (DOMAIN sessions \cup DOMAIN sessionsDB) = {}
  /\ \A t \in DOMAIN sessions \cap cookies :
       t \in DOMAIN sessionsDB /\ sessionsDB[t] = sessions[t]

\* An address that keeps failing to log in gets at most 2 * maxAttempts - 1
\* passwords compared by handleLogin before the shorter of the two times has
\* passed: a record that expires takes fewer than maxAttempts failures with
\* it, and a full one blocks (authratelimiter.go:75).  The passwords of Basic
\* authentication do not go through the limiter (authhttp.go:257).
AttemptsBounded ==
  \A a \in Addrs : \A i \in DOMAIN wrong[a] :
    LET j == i + 2 * maxAttempts - 1 IN
    j \in DOMAIN wrong[a] =>
      \/ wrong[a][j] - wrong[a][i] >= blockDur
      \/ wrong[a][j] - wrong[a][i] > failedAuthTTL
=============================================================================
