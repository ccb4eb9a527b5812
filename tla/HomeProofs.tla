----------------------------- MODULE HomeProofs -----------------------------
(***************************************************************************)
(* What the process keeps, whatever the versions, the sessions and the     *)
(* scenarios: an executable to go back to, sessions that agree with their  *)
(* database, a bound on the passwords an address may try, and what it has  *)
(* read from the configuration file.                                       *)
(***************************************************************************)
EXTENDS Home, TLAPS

----------------------------------------------------------------------------
(* The self-update. *)

FileSet == [v : Versions \cup {NoVersion}, whole : BOOLEAN]

UpdPcs == {"idle", "prepare", "download", "unpack", "check", "backup", "replaceHelp", "rename1",
           "rename2", "clean", "done"}

UpdType ==
  /\ exe \in FileSet /\ backupExe \in FileSet /\ updateExe \in FileSet
  /\ packageURL \in Versions \cup {NoVersion}
  /\ upd \in [pc : UpdPcs, first : BOOLEAN, from : {"none", "cli", "http"}]
  /\ unchecked \in BOOLEAN /\ firstRun \in BOOLEAN

\* Which process an update may belong to.
UpdOwner ==
  /\ upd.pc # "idle" => proc \in {"updating", "up", "stopping"}
  /\ upd.first => proc = "updating"

\* What Update has established by the time it is where it is: an executable
\* in its place from prepare on, until it is moved away; a new one that has
\* been checked, unless this is the first run.
UpdAt ==
  /\ upd.pc \in {"download", "unpack", "check", "backup", "replaceHelp", "rename1"} => exe.whole
  /\ upd.pc = "rename2" => backupExe.whole
  /\ upd.pc = "check" => updateExe.v = packageURL
  /\ upd.pc \in {"check", "backup", "replaceHelp", "rename1", "rename2"} /\ ~upd.first =>
       upd.pc = "check" \/ (updateExe.whole /\ updateExe.v \notin Rejecting)

\* A damaged executable is in its place only when the update of a first run
\* has put it there, and then no other update begins before it is replaced.
UpdKept ==
  /\ exe.whole \/ backupExe.whole
  /\ ~exe.whole /\ exe # NoFile =>
       unchecked /\ proc \in {"updating", "down"} /\ upd.pc \in {"idle", "done"}
  /\ ~unchecked /\ exe.whole => exe.v \notin Rejecting
  /\ ~unchecked /\ backupExe.whole => backupExe.v \notin Rejecting

UpdInv == UpdType /\ UpdOwner /\ UpdAt /\ UpdKept

\* What the executables are: a file that is not there is not a whole one.
LEMMA FileFacts ==
  /\ NoFile \in FileSet /\ ~NoFile.whole
  /\ \A w \in Versions \cup {NoVersion} :
       /\ File(w) \in FileSet /\ File(w).whole /\ File(w).v = w
       /\ Part(w) \in FileSet /\ ~Part(w).whole /\ Part(w).v = w
BY DEF NoFile, File, Part, FileSet

\* Where an update is: Idle, and how UpdGo moves upd.
LEMMA PlaceFacts ==
  ASSUME UpdType
  PROVE  /\ Idle.pc = "idle" /\ ~Idle.first
         /\ Idle \in [pc : UpdPcs, first : BOOLEAN, from : {"none", "cli", "http"}]
         /\ \A p \in UpdPcs :
              UpdGo(p) => /\ upd' \in [pc : UpdPcs, first : BOOLEAN, from : {"none", "cli", "http"}]
                          /\ upd'.pc = p /\ upd'.first = upd.first
BY DEF Idle, UpdType, UpdPcs, UpdGo

\* A step that leaves the files and the update alone.
LEMMA UpdQuiet ==
  ASSUME UpdInv, UNCHANGED updVars, firstRun' \in BOOLEAN,
         \/ proc' = proc
         \/ proc = "parsed" /\ proc' \in {"cli", "up"}
         \/ proc = "up" /\ proc' = "stopping"
  PROVE  UpdInv'
BY DEF UpdInv, UpdType, UpdOwner, UpdAt, UpdKept, updVars

\* Every step of Update (updater.go:190) keeps the invariant of the update.
LEMMA UpdStepKeeps ==
  ASSUME UpdInv, UpdStep(confFile), proc \in {"updating", "up", "stopping"}, UNCHANGED <<proc, firstRun>>
  PROVE  UpdInv'
<1> USE FileFacts, PlaceFacts
<1> USE DEF UpdPcs
<1>1. CASE prepare
  <2>1. exe # NoFile => exe.whole
    BY <1>1 DEF prepare, UpdInv, UpdType, UpdKept
  <2> QED BY <1>1, <2>1 DEF prepare, Process, Files, UpdInv, UpdType, UpdOwner, UpdAt, UpdKept
<1>2. CASE downloadPackageFile
  BY <1>2 DEF downloadPackageFile, UpdFail, Process, Files, UpdInv, UpdType, UpdOwner, UpdAt, UpdKept
<1>3. CASE unpack
  <2>1. upd'.pc \in {"backup", "check", "clean"} /\ upd'.first = upd.first
        /\ upd' \in [pc : UpdPcs, first : BOOLEAN, from : {"none", "cli", "http"}]
        /\ (upd'.pc = "backup" => upd.first)
    BY <1>3 DEF unpack, AfterUnpack, UpdInv, UpdType
  <2>2. updateExe' \in FileSet /\ updateExe'.v = packageURL
    BY <1>3 DEF unpack, UpdInv, UpdType
  <2>3. UNCHANGED <<exe, backupExe, packageURL, unchecked>> /\ upd.pc = "unpack"
    BY <1>3 DEF unpack, Process
  <2> QED BY <2>1, <2>2, <2>3 DEF UpdInv, UpdType, UpdOwner, UpdAt, UpdKept
<1>4. CASE check
  <2>1. UNCHANGED <<exe, backupExe, updateExe, packageURL, unchecked>> /\ upd.pc = "check"
    BY <1>4 DEF check, Process, Files
  <2>2. upd'.pc \in {"backup", "clean"} /\ upd'.first = upd.first
        /\ upd' \in [pc : UpdPcs, first : BOOLEAN, from : {"none", "cli", "http"}]
        /\ (upd'.pc = "backup" => updateExe.whole /\ packageURL \notin Rejecting)
    BY <1>4 DEF check, UpdFail, UpdInv, UpdType
  <2> QED BY <2>1, <2>2 DEF UpdInv, UpdType, UpdOwner, UpdAt, UpdKept
<1>5. CASE backup(confFile)
  BY <1>5 DEF backup, UpdFail, Process, UpdInv, UpdType, UpdOwner, UpdAt, UpdKept
<1>6. CASE ReplaceHelp
  BY <1>6 DEF ReplaceHelp, UpdFail, Process, UpdInv, UpdType, UpdOwner, UpdAt, UpdKept
<1>7. CASE RenameToBackup
  <2>1. UNCHANGED <<updateExe, packageURL, unchecked>> /\ upd.pc = "rename1"
    BY <1>7 DEF RenameToBackup, Process
  <2>2. CASE backupExe' = exe /\ exe' = NoFile /\ UpdGo("rename2")
    BY <2>1, <2>2 DEF UpdInv, UpdType, UpdOwner, UpdAt, UpdKept
  <2>3. CASE UpdFail /\ UNCHANGED <<exe, backupExe>>
    BY <2>1, <2>3 DEF UpdFail, UpdInv, UpdType, UpdOwner, UpdAt, UpdKept
  <2> QED BY <1>7, <2>2, <2>3 DEF RenameToBackup
<1>8. CASE RenameNew
  <2>1. UNCHANGED <<backupExe, packageURL>> /\ upd.pc = "rename2"
    BY <1>8 DEF RenameNew, Process
  <2>2. CASE exe' = updateExe /\ updateExe' = NoFile /\ UpdGo("done")
             /\ unchecked' = (unchecked \/ upd.first)
    BY <2>1, <2>2 DEF UpdInv, UpdType, UpdOwner, UpdAt, UpdKept
  <2>3. CASE UpdFail /\ UNCHANGED <<exe, updateExe, unchecked>>
    BY <2>1, <2>3 DEF UpdFail, UpdInv, UpdType, UpdOwner, UpdAt, UpdKept
  <2> QED BY <1>8, <2>2, <2>3 DEF RenameNew
<1>9. CASE clean
  BY <1>9 DEF clean, UpdInv, UpdType, UpdOwner, UpdAt, UpdKept
<1> QED BY <1>1, <1>2, <1>3, <1>4, <1>5, <1>6, <1>7, <1>8, <1>9 DEF UpdStep

\* The installed version accepts its configuration, and nothing is being
\* updated.
LEMMA UpdInvInit ==
  ASSUME Init
  PROVE  UpdInv
<1>1. PICK s \in Scenarios : UpdInit(s.version) /\ firstRun = FALSE
  BY DEF Init
<1>2. s.version \in Versions /\ s.version \notin Rejecting
  BY HomeAssumption
<1>3. upd = Idle /\ Idle.pc = "idle" /\ ~Idle.first
      /\ Idle \in [pc : UpdPcs, first : BOOLEAN, from : {"none", "cli", "http"}]
  BY <1>1 DEF UpdInit, Idle, UpdPcs
<1> QED BY <1>1, <1>2, <1>3, FileFacts DEF UpdInit, UpdInv, UpdType, UpdOwner, UpdAt, UpdKept

\* The other steps of the process that touch the update: a start, a request
\* for it, the end of the process and the return to the backup.
LEMMA UpdOthersKeep ==
  ASSUME UpdInv,
         \/ Start \/ handleUpdate \/ Gone \/ Restore
         \/ \E v \in Versions : handleVersionJSON(v)
  PROVE  UpdInv'
<1> USE FileFacts, PlaceFacts
<1>1. CASE Start
  <2>1. /\ UNCHANGED <<exe, backupExe, updateExe, unchecked>> /\ upd' = Idle
        /\ packageURL' = NoVersion /\ exe.whole /\ firstRun' \in BOOLEAN
    BY <1>1 DEF Start, UpdStart, Files
  <2> QED BY <2>1 DEF UpdInv, UpdType, UpdOwner, UpdAt, UpdKept
<1>2. CASE handleUpdate
  <2>1. /\ UNCHANGED <<exe, backupExe, updateExe, unchecked, packageURL, firstRun>>
        /\ upd.pc = "idle"
        /\ \/ upd' = [pc |-> "prepare", first |-> FALSE, from |-> "http"] /\ proc = "up" /\ proc' = proc
           \/ upd' = [pc |-> "prepare", first |-> firstRun, from |-> "cli"] /\ proc' = "updating"
              /\ proc = "cli"
    BY <1>2 DEF handleUpdate, UpdateBegin, Process, Files
  <2>2. /\ upd' \in [pc : UpdPcs, first : BOOLEAN, from : {"none", "cli", "http"}]
        /\ upd'.pc = "prepare" /\ (upd'.first => proc' = "updating")
    <3>1. firstRun \in BOOLEAN
      BY DEF UpdInv, UpdType
    <3>2. CASE upd' = [pc |-> "prepare", first |-> FALSE, from |-> "http"]
      BY <3>2 DEF UpdPcs
    <3>3. CASE upd' = [pc |-> "prepare", first |-> firstRun, from |-> "cli"] /\ proc' = "updating"
      BY <3>1, <3>3 DEF UpdPcs
    <3> QED BY <2>1, <3>2, <3>3
  <2>3. proc \in {"up", "cli"} /\ proc' \in {"up", "updating"}
    BY <2>1
  <2> QED BY <2>1, <2>2, <2>3 DEF UpdInv, UpdType, UpdOwner, UpdAt, UpdKept
<1>3. CASE Gone
  <2>1. /\ UNCHANGED <<exe, backupExe, updateExe, unchecked, packageURL, firstRun>> /\ upd' = Idle
        /\ proc' = "down"
    BY <1>3 DEF Gone, UpdDown, Files
  <2> QED BY <2>1 DEF UpdInv, UpdType, UpdOwner, UpdAt, UpdKept
<1>4. CASE Restore
  <2>1. /\ UNCHANGED <<backupExe, updateExe, unchecked, packageURL, firstRun, upd, proc>>
        /\ exe' = backupExe /\ backupExe.whole
    BY <1>4 DEF Restore
  <2> QED BY <2>1 DEF UpdInv, UpdType, UpdOwner, UpdAt, UpdKept
<1>5. ASSUME NEW v \in Versions, handleVersionJSON(v) PROVE UpdInv'
  <2>1. /\ UNCHANGED <<exe, backupExe, updateExe, unchecked, firstRun, upd, proc>>
        /\ packageURL' = v /\ upd.pc = "idle"
    BY <1>5 DEF handleVersionJSON, VersionInfo, Files, HomeSame
  <2> QED BY <2>1 DEF UpdInv, UpdType, UpdOwner, UpdAt, UpdKept
<1> QED BY <1>1, <1>2, <1>3, <1>4, <1>5

\* Every step of the process keeps the invariant of the update.
LEMMA UpdInvStep ==
  ASSUME UpdInv, [Next]_vars
  PROVE  UpdInv'
<1> USE DEF HomeSame
<1>0. firstRun \in BOOLEAN
  BY DEF UpdInv, UpdType
<1>1. CASE UNCHANGED vars
  BY <1>0, <1>1, UpdQuiet DEF vars, homeVars
<1>2. CASE Start \/ handleUpdate \/ Exit \/ Crash \/ Restore
  BY <1>2, UpdOthersKeep DEF Exit, Crash
<1>3. CASE \E v \in Versions : handleVersionJSON(v)
  BY <1>3, UpdOthersKeep
<1>4. CASE cmdlineUpdate \/ initUsers \/ onConfigModified \/ LateWrite \/ preInstall
  BY <1>0, <1>4, UpdQuiet DEF cmdlineUpdate, initUsers, onConfigModified, LateWrite, preInstall
<1>5. CASE handleInstallConfigure
  BY <1>5, UpdQuiet DEF handleInstallConfigure
<1>6. CASE \/ \E h \in Handlers, a \in Addrs, u \in Users \cup {NoUser} : handleLogin(h, a, u)
           \/ \E t \in cookies : optionalAuth(t)
           \/ \E h \in Handlers, t \in cookies : handleLogout(h, t)
           \/ \E h \in Handlers : AuthStep(h)
           \/ Tick
  <2>1. UNCHANGED <<updVars, proc, firstRun>>
    BY <1>6 DEF handleLogin, optionalAuth, handleLogout, AuthStep, Tick
  <2> QED BY <1>0, <2>1, UpdQuiet
<1>7. CASE HandleSignal \/ finishUpdate
  BY <1>0, <1>7, UpdQuiet DEF HandleSignal, finishUpdate, cleanup
<1>8. CASE Update
  BY <1>8, UpdStepKeeps DEF Update
<1> QED BY <1>1, <1>2, <1>3, <1>4, <1>5, <1>6, <1>7, <1>8 DEF Next

\* Whatever file operation of Update fails, however often and wherever the
\* program is killed, and whoever asks for another update meanwhile: there is
\* a whole executable in its place or in agh-backup, and the one in its place
\* accepts the configuration unless the update of a first run has put it
\* there without check (updater.go:328, updater.go:503).
THEOREM ExecutableKept == Spec => []UpdateRecoverable
<1>1. UpdInv => UpdateRecoverable
  BY DEF UpdInv, UpdType, UpdKept, UpdateRecoverable
<1>2. Init => UpdInv
  BY UpdInvInit
<1>3. UpdInv /\ [Next]_vars => UpdInv'
  BY UpdInvStep
<1> QED BY <1>1, <1>2, <1>3, PTL DEF Spec

----------------------------------------------------------------------------
(* The sessions. *)

LoginPcs == {"find", "inc", "remove", "add", "store"}

HandlerSet == [pc : LoginPcs \cup {"free", "logout", "logoutDB"}, addr : Addrs \cup {NoToken},
               user : Users \cup {NoUser}, tok : Tokens \cup {NoToken}]

\* The handlers: one login at a time, and none without a running process.
HandlersInv ==
  /\ hreq \in [Handlers -> HandlerSet]
  /\ \A h \in Handlers : hreq[h].pc \in LoginPcs => hreq[h].addr \in Addrs
  /\ \A g, h \in Handlers : hreq[g].pc \in LoginPcs /\ hreq[h].pc \in LoginPcs => g = h
  /\ proc # "up" => \A h \in Handlers : hreq[h].pc = "free"

\* Where a token can be: nobody has the cookie of a session that is being
\* stored, and a session somebody has logged out of is never in memory again.
TokensInv ==
  /\ drawn \subseteq Tokens /\ cookies \subseteq drawn /\ loggedOut \subseteq cookies
  /\ DOMAIN sessions \subseteq drawn /\ DOMAIN sessionsDB \subseteq cookies
  /\ \A h \in Handlers :
       /\ hreq[h].pc = "store" => hreq[h].tok \in DOMAIN sessions /\ hreq[h].tok \notin cookies
       /\ hreq[h].pc \in {"logout", "logoutDB"} => hreq[h].tok \in cookies
       /\ hreq[h].pc = "logoutDB" => hreq[h].tok \notin DOMAIN sessions
  /\ proc # "up" => DOMAIN sessions = {}

SessInv == HandlersInv /\ TokensInv /\ SessionsOnDisk

\* What a step of the process may be for the authentication module.
AuthQuiet == UNCHANGED authVars /\ (proc = "up" <=> proc' = "up")
AuthBegin == InitAuth /\ proc # "up" /\ proc' = "up"
AuthEnd   == AuthDown /\ proc' # "up"
AuthLogin ==
  \E h \in Handlers, a \in Addrs, u \in Users \cup {NoUser} :
    LoginCheck(h, a, u) /\ ~LoggingIn /\ proc = "up" /\ proc' = "up"
AuthVisit ==
  /\ proc = "up" /\ proc' = "up"
  /\ \/ \E t \in cookies : AuthRequest(t)
     \/ \E h \in Handlers, t \in cookies : LogoutBegin(h, t)
AuthGo == proc = "up" /\ proc' = "up" /\ \E h \in Handlers : LoginStep(h) \/ LogoutStep(h)
AuthTime == AuthTick /\ proc' = proc

\* Every step of the process is one of these.
LEMMA AuthMoves ==
  ASSUME [Next]_vars
  PROVE  AuthQuiet \/ AuthBegin \/ AuthEnd \/ AuthLogin \/ AuthVisit \/ AuthGo \/ AuthTime
<1> USE DEF HomeSame
<1>1. CASE UNCHANGED vars
  BY <1>1 DEF vars, homeVars, AuthQuiet
<1>2. CASE Start
  <2>1. proc = "down" /\ proc' \in {"down", "parsed"} /\ UNCHANGED authVars
    BY <1>2 DEF Start, parseConfig
  <2> QED BY <2>1 DEF AuthQuiet
<1>3. CASE cmdlineUpdate \/ onConfigModified \/ LateWrite \/ preInstall \/ handleInstallConfigure
           \/ handleUpdate \/ Update \/ Restore
  BY <1>3 DEF cmdlineUpdate, onConfigModified, LateWrite, preInstall, handleInstallConfigure,
     handleUpdate, Update, Restore, AuthQuiet
<1>4. CASE \E v \in Versions : handleVersionJSON(v)
  BY <1>4 DEF handleVersionJSON, AuthQuiet
<1>5. CASE initUsers
  BY <1>5 DEF initUsers, AuthBegin
<1>6. CASE HandleSignal \/ finishUpdate \/ Exit \/ Crash
  BY <1>6 DEF HandleSignal, finishUpdate, Exit, Crash, cleanup, Gone, AuthEnd
<1>7. CASE \E h \in Handlers, a \in Addrs, u \in Users \cup {NoUser} : handleLogin(h, a, u)
  BY <1>7 DEF handleLogin, controlLockFree, AuthLogin
<1>8. CASE \E t \in cookies : optionalAuth(t)
  BY <1>8 DEF optionalAuth, AuthVisit
<1>9. CASE \E h \in Handlers, t \in cookies : handleLogout(h, t)
  BY <1>9 DEF handleLogout, AuthVisit
<1>10. CASE \E h \in Handlers : AuthStep(h)
  BY <1>10 DEF AuthStep, AuthGo
<1>11. CASE Tick
  BY <1>11 DEF Tick, AuthTime
<1> QED BY <1>1, <1>2, <1>3, <1>4, <1>5, <1>6, <1>7, <1>8, <1>9, <1>10, <1>11 DEF Next

\* The records of handlers: free, a login that begins, a logout that begins.
LEMMA FreeFacts ==
  /\ Free \in HandlerSet /\ Free.pc = "free" /\ Free.tok = NoToken
  /\ \A a \in Addrs, u \in Users \cup {NoUser} :
       LET f == [Free EXCEPT !.pc = "find", !.addr = a, !.user = u] IN
       f \in HandlerSet /\ f.pc = "find" /\ f.addr = a /\ f.user = u
  /\ \A t \in Tokens :
       LET f == [Free EXCEPT !.pc = "logout", !.tok = t] IN
       f \in HandlerSet /\ f.pc = "logout" /\ f.tok = t
BY DEF Free, HandlerSet, LoginPcs

\* Before the first start there are no sessions and no requests.
LEMMA SessInvInit ==
  ASSUME Init
  PROVE  SessInv
<1>1. AuthInit /\ proc = "down"
  BY DEF Init
<1> QED BY <1>1, FreeFacts DEF AuthInit, None, SessInv, HandlersInv, TokensInv, SessionsOnDisk, LoginPcs

\* One handler goes on to r: a login only where one was, or when there is
\* none.
LEMMA HandlerMoves ==
  ASSUME HandlersInv, proc' = "up", NEW h \in Handlers, NEW r \in HandlerSet,
         hreq' = [hreq EXCEPT ![h] = r],
         r.pc \in LoginPcs => r.addr \in Addrs /\ (hreq[h].pc \in LoginPcs \/ ~LoggingIn)
  PROVE  HandlersInv'
<1>1. \A g \in Handlers : hreq'[g] = IF g = h THEN r ELSE hreq[g]
  BY DEF HandlersInv
<1>2. hreq' \in [Handlers -> HandlerSet]
  BY DEF HandlersInv
<1>3. LoggingIn <=> \E g \in Handlers : hreq[g].pc \in LoginPcs
  BY DEF LoggingIn, LoginPcs
<1> QED BY <1>1, <1>2, <1>3 DEF HandlersInv

\* The handler goes from one place of its code to the next.
LEMMA HandlerGoes ==
  ASSUME HandlersInv, NEW h \in Handlers, NEW p \in LoginPcs \cup {"free", "logout", "logoutDB"},
         hreq' = [hreq EXCEPT ![h].pc = p]
  PROVE  \E r \in HandlerSet :
           /\ hreq' = [hreq EXCEPT ![h] = r]
           /\ r.pc = p /\ r.addr = hreq[h].addr /\ r.tok = hreq[h].tok
<1>1. hreq \in [Handlers -> HandlerSet] /\ hreq[h] \in HandlerSet
  BY DEF HandlersInv
<1> DEFINE r == [hreq[h] EXCEPT !.pc = p]
<1>2. hreq' = [hreq EXCEPT ![h] = r]
  BY <1>1 DEF HandlerSet
<1>3. r \in HandlerSet /\ r.pc = p /\ r.addr = hreq[h].addr /\ r.tok = hreq[h].tok
  BY <1>1 DEF HandlerSet
<1> HIDE DEF r
<1> QED BY <1>2, <1>3

\* What each step of handler h makes of it: it keeps its token, except that
\* LoginAdd gives it a new one.
LEMMA HandlerSteps ==
  ASSUME SessInv, NEW h \in Handlers, LoginStep(h) \/ LogoutStep(h)
  PROVE  \E r \in HandlerSet :
           /\ hreq' = [hreq EXCEPT ![h] = r]
           /\ r.pc \in LoginPcs => r.addr = hreq[h].addr /\ hreq[h].pc \in LoginPcs
           /\ LoginFind(h) => r.pc \in {"inc", "remove"}
           /\ LoginInc(h) \/ LoginStore(h) \/ LogoutRemoveDB(h) => r.pc = "free"
           /\ LoginRemove(h) => r.pc = "add"
           /\ LogoutRemove(h) => r.pc = "logoutDB" /\ r.tok = hreq[h].tok
           /\ LoginAdd(h) => r.pc = "store" /\ r.tok \in Tokens \ drawn /\ drawn' = drawn \cup {r.tok}
                /\ \E e : sessions' = With(sessions, r.tok, e)
<1> USE DEF LoginPcs
<1>0. HandlersInv /\ hreq[h] \in HandlerSet
  BY DEF SessInv, HandlersInv
<1>1. CASE LoginFind(h)
  <2>1. PICK p \in {"inc", "remove"} : hreq' = [hreq EXCEPT ![h].pc = p]
    BY <1>1 DEF LoginFind
  <2>2. PICK r \in HandlerSet :
          hreq' = [hreq EXCEPT ![h] = r] /\ r.pc = p /\ r.addr = hreq[h].addr
    BY <1>0, <2>1, HandlerGoes
  <2>3. hreq[h].pc = "find"
    BY <1>1 DEF LoginFind
  <2> QED BY <2>2, <2>3 DEF LoginFind, LoginInc, LoginStore, LogoutRemoveDB, LoginRemove, LogoutRemove, LoginAdd
<1>2. CASE LoginInc(h) \/ LoginStore(h) \/ LogoutRemoveDB(h)
  <2>1. hreq' = [hreq EXCEPT ![h] = Free] /\ hreq[h].pc \in {"inc", "store", "logoutDB"}
    BY <1>2 DEF LoginInc, LoginStore, LogoutRemoveDB
  <2> QED BY <2>1, FreeFacts DEF LoginFind, LoginInc, LoginStore, LogoutRemoveDB, LoginRemove, LogoutRemove, LoginAdd
<1>3. CASE LoginRemove(h)
  <2>1. PICK p \in {"add"} : hreq' = [hreq EXCEPT ![h].pc = p] /\ hreq[h].pc = "remove"
    BY <1>3 DEF LoginRemove
  <2>2. PICK r \in HandlerSet :
          hreq' = [hreq EXCEPT ![h] = r] /\ r.pc = p /\ r.addr = hreq[h].addr
    BY <1>0, <2>1, HandlerGoes
  <2> QED BY <2>1, <2>2 DEF LoginFind, LoginInc, LoginStore, LogoutRemoveDB, LoginRemove, LogoutRemove, LoginAdd
<1>4. CASE LogoutRemove(h)
  <2>1. PICK p \in {"logoutDB"} : hreq' = [hreq EXCEPT ![h].pc = p] /\ hreq[h].pc = "logout"
    BY <1>4 DEF LogoutRemove
  <2>2. PICK r \in HandlerSet :
          hreq' = [hreq EXCEPT ![h] = r] /\ r.pc = p /\ r.tok = hreq[h].tok
    BY <1>0, <2>1, HandlerGoes
  <2> QED BY <2>1, <2>2 DEF LoginFind, LoginInc, LoginStore, LogoutRemoveDB, LoginRemove, LogoutRemove, LoginAdd
<1>5. CASE LoginAdd(h)
  <2>1. PICK t \in Tokens, p \in {"store"} :
          /\ t \notin drawn /\ drawn' = drawn \cup {t}
          /\ sessions' = With(sessions, t, [user |-> hreq[h].user, expire |-> clock + sessionTTL])
          /\ hreq' = [hreq EXCEPT ![h].pc = p, ![h].tok = t]
    BY <1>5 DEF LoginAdd
  <2>2. PICK r \in HandlerSet :
          hreq' = [hreq EXCEPT ![h] = r] /\ r.pc = p /\ r.addr = hreq[h].addr /\ r.tok = t
    <3> DEFINE r == [hreq[h] EXCEPT !.pc = p, !.tok = t]
    <3>1. hreq \in [Handlers -> HandlerSet]
      BY <1>0 DEF HandlersInv
    <3>2. hreq' = [hreq EXCEPT ![h] = r]
      BY <1>0, <2>1, <3>1 DEF HandlerSet
    <3>3. r \in HandlerSet /\ r.pc = p /\ r.addr = hreq[h].addr /\ r.tok = t
      BY <1>0 DEF HandlerSet
    <3> HIDE DEF r
    <3> QED BY <3>2, <3>3
  <2>3. hreq[h].pc = "add" /\ \E e : sessions' = With(sessions, t, e)
    BY <1>5, <2>1 DEF LoginAdd
  <2> QED BY <2>1, <2>2, <2>3 DEF LoginFind, LoginInc, LoginStore, LogoutRemoveDB, LoginRemove, LogoutRemove
<1> QED BY <1>1, <1>2, <1>3, <1>4, <1>5 DEF LoginStep, LogoutStep

\* Handlers stay one login at a time: handleLogin begins only when no other
\* does, for it needs controlLock (control.go:225).
LEMMA HandlersKept ==
  ASSUME SessInv, [Next]_vars
  PROVE  HandlersInv'
<1>0. HandlersInv
  BY DEF SessInv
<1>1. CASE AuthQuiet \/ AuthTime \/ AuthBegin
  BY <1>0, <1>1 DEF AuthQuiet, AuthTime, AuthTick, AuthBegin, InitAuth, authVars, HandlersInv
<1>2. CASE AuthEnd
  BY <1>2, FreeFacts DEF AuthEnd, AuthDown, HandlersInv, LoginPcs
<1>3. CASE AuthLogin
  <2> PICK h \in Handlers, a \in Addrs, u \in Users \cup {NoUser} :
        LoginCheck(h, a, u) /\ ~LoggingIn /\ proc = "up" /\ proc' = "up"
    BY <1>3 DEF AuthLogin
  <2> DEFINE find == [Free EXCEPT !.pc = "find", !.addr = a, !.user = u]
  <2>1. find \in HandlerSet /\ find.addr = a
    BY FreeFacts
  <2>2. hreq' = hreq \/ hreq' = [hreq EXCEPT ![h] = find]
    BY DEF LoginCheck
  <2> HIDE DEF find
  <2>3. CASE hreq' = hreq
    BY <1>0, <2>3 DEF HandlersInv
  <2>4. CASE hreq' = [hreq EXCEPT ![h] = find]
    BY <1>0, <2>1, <2>4, HandlerMoves
  <2> QED BY <2>2, <2>3, <2>4
<1>4. CASE AuthVisit
  <2>1. CASE hreq' = hreq
    BY <1>0, <1>4, <2>1 DEF AuthVisit, HandlersInv
  <2>2. CASE hreq' # hreq
    <3>1. PICK h \in Handlers, t \in cookies :
            hreq' = [hreq EXCEPT ![h] = [Free EXCEPT !.pc = "logout", !.tok = t]]
      BY <1>4, <2>2 DEF AuthVisit, AuthRequest, LogoutBegin
    <3> DEFINE out == [Free EXCEPT !.pc = "logout", !.tok = t]
    <3>2. t \in Tokens
      BY DEF SessInv, TokensInv
    <3>3. out \in HandlerSet /\ out.pc = "logout" /\ hreq' = [hreq EXCEPT ![h] = out]
      BY <3>1, <3>2, FreeFacts
    <3> HIDE DEF out
    <3> QED BY <1>0, <1>4, <3>3, HandlerMoves DEF AuthVisit, LoginPcs
  <2> QED BY <2>1, <2>2
<1>5. CASE AuthGo
  <2>1. PICK h \in Handlers : LoginStep(h) \/ LogoutStep(h)
    BY <1>5 DEF AuthGo
  <2>2. PICK r \in HandlerSet :
           /\ hreq' = [hreq EXCEPT ![h] = r]
           /\ r.pc \in LoginPcs => r.addr = hreq[h].addr /\ hreq[h].pc \in LoginPcs
    BY <2>1, HandlerSteps
  <2> QED BY <1>0, <1>5, <2>2, HandlerMoves DEF AuthGo, HandlersInv
<1> QED BY AuthMoves, <1>1, <1>2, <1>3, <1>4, <1>5

\* What TokensInv and SessionsOnDisk say together, when only handler h moves.
TokensOf(h) ==
  /\ hreq[h].pc = "store" => hreq[h].tok \in DOMAIN sessions /\ hreq[h].tok \notin cookies
  /\ hreq[h].pc \in {"logout", "logoutDB"} => hreq[h].tok \in cookies
  /\ hreq[h].pc = "logoutDB" => hreq[h].tok \notin DOMAIN sessions

TokenSets ==
  /\ drawn \subseteq Tokens /\ cookies \subseteq drawn /\ loggedOut \subseteq cookies
  /\ DOMAIN sessions \subseteq drawn /\ DOMAIN sessionsDB \subseteq cookies

\* The parts of TokensInv.
LEMMA TokensSplit ==
  TokensInv <=> /\ TokenSets
                /\ \A h \in Handlers : TokensOf(h)
                /\ proc # "up" => DOMAIN sessions = {}
BY DEF TokensInv, TokenSets, TokensOf

\* checkSession (auth.go:287) writes the database for the sessions it
\* changes, and only for tokens that are in memory.
LEMMA checkSessionKeeps ==
  ASSUME SessInv, NEW t \in cookies, checkSession(t), UNCHANGED <<drawn, cookies, loggedOut>>
  PROVE  TokenSets' /\ SessionsOnDisk' /\ DOMAIN sessions' \subseteq DOMAIN sessions
         /\ \A x \in DOMAIN sessions : x \in cookies \/ x \in DOMAIN sessions'
<1>0. TokenSets /\ SessionsOnDisk
  BY TokensSplit DEF SessInv
<1>1. CASE UNCHANGED <<sessions, sessionsDB>>
  BY <1>0, <1>1 DEF TokenSets, SessionsOnDisk
<1>2. CASE t \in DOMAIN sessions /\ sessions' = Without(sessions, t) /\ sessionsDB' = Without(sessionsDB, t)
  <2>1. /\ DOMAIN sessions' = DOMAIN sessions \ {t} /\ DOMAIN sessionsDB' = DOMAIN sessionsDB \ {t}
        /\ \A x \in DOMAIN sessions' : sessions'[x] = sessions[x]
        /\ \A x \in DOMAIN sessionsDB' : sessionsDB'[x] = sessionsDB[x]
    BY <1>2 DEF Without
  <2> QED BY <1>0, <2>1 DEF TokenSets, SessionsOnDisk
<1>3. ASSUME NEW new, t \in DOMAIN sessions, sessions' = [sessions EXCEPT ![t].expire = new],
             sessionsDB' = With(sessionsDB, t, sessions'[t])
      PROVE  TokenSets' /\ SessionsOnDisk' /\ DOMAIN sessions' = DOMAIN sessions
  <2>1. DOMAIN sessions' = DOMAIN sessions /\ \A x \in DOMAIN sessions \ {t} : sessions'[x] = sessions[x]
    BY <1>3
  <2>2. PICK e : sessionsDB' = With(sessionsDB, t, e) /\ sessions'[t] = e
    BY <1>3
  <2>3. /\ DOMAIN sessionsDB' = DOMAIN sessionsDB \cup {t}
        /\ sessionsDB'[t] = e
        /\ \A x \in DOMAIN sessionsDB \ {t} : sessionsDB'[x] = sessionsDB[x]
    BY <2>2 DEF With
  <2> QED BY <1>0, <1>3, <2>1, <2>2, <2>3 DEF TokenSets, SessionsOnDisk
<1> QED BY <1>1, <1>2, <1>3 DEF checkSession

\* Every step keeps the tokens where they belong, and the sessions as they
\* are in the database.
LEMMA TokensKept ==
  ASSUME SessInv, [Next]_vars
  PROVE  TokensInv' /\ SessionsOnDisk'
<1>0. TokenSets /\ SessionsOnDisk /\ (\A g \in Handlers : TokensOf(g)) /\ HandlersInv
      /\ (proc # "up" => DOMAIN sessions = {})
  BY TokensSplit DEF SessInv
<1> SUFFICES /\ TokenSets' /\ SessionsOnDisk' /\ (\A g \in Handlers : TokensOf(g)')
             /\ (proc' # "up" => DOMAIN sessions' = {})
  BY DEF TokenSets, TokensOf, TokensInv
<1>1. CASE AuthQuiet \/ AuthTime
  BY <1>0, <1>1 DEF AuthQuiet, AuthTime, AuthTick, authVars, TokenSets, TokensOf, SessionsOnDisk
<1>2. CASE AuthEnd
  BY <1>0, <1>2, FreeFacts DEF AuthEnd, AuthDown, None, TokenSets, TokensOf, SessionsOnDisk
<1>3. CASE AuthBegin
  <2>1. /\ DOMAIN sessions' \subseteq DOMAIN sessionsDB /\ sessionsDB' = sessions' /\ proc' = "up"
        /\ UNCHANGED <<hreq, drawn, cookies, loggedOut>>
    BY <1>3 DEF AuthBegin, InitAuth
  <2>2. \A g \in Handlers : hreq'[g].pc = "free"
    BY <1>0, <1>3, <2>1 DEF AuthBegin, HandlersInv
  <2> QED BY <1>0, <2>1, <2>2 DEF TokenSets, TokensOf, SessionsOnDisk
<1>4. CASE AuthLogin
  <2> PICK h \in Handlers, a \in Addrs, u \in Users \cup {NoUser} :
        LoginCheck(h, a, u) /\ ~LoggingIn /\ proc = "up" /\ proc' = "up"
    BY <1>4 DEF AuthLogin
  <2> DEFINE find == [Free EXCEPT !.pc = "find", !.addr = a, !.user = u]
  <2>1. find.pc = "find"
    BY DEF Free
  <2>2. hreq' = hreq \/ hreq' = [hreq EXCEPT ![h] = find]
    BY DEF LoginCheck
  <2> HIDE DEF find
  <2>3. \A g \in Handlers : hreq'[g] = hreq[g] \/ hreq'[g].pc = "find"
    BY <1>0, <2>1, <2>2 DEF HandlersInv
  <2> QED BY <1>0, <2>3 DEF LoginCheck, TokenSets, TokensOf, SessionsOnDisk
<1>5. CASE AuthVisit
  <2>1. PICK t \in cookies : checkSession(t) /\ UNCHANGED <<drawn, cookies, loggedOut>>
          /\ (hreq' = hreq \/ \E h \in Handlers :
                hreq' = [hreq EXCEPT ![h] = [Free EXCEPT !.pc = "logout", !.tok = t]])
    BY <1>5 DEF AuthVisit, AuthRequest, LogoutBegin
  <2> DEFINE out == [Free EXCEPT !.pc = "logout", !.tok = t]
  <2>2. out.pc = "logout" /\ out.tok = t
    BY DEF Free
  <2>3. hreq' = hreq \/ \E h \in Handlers : hreq' = [hreq EXCEPT ![h] = out]
    BY <2>1
  <2> HIDE DEF out
  <2>4. \A g \in Handlers : hreq'[g] = hreq[g] \/ (hreq'[g].pc = "logout" /\ hreq'[g].tok = t)
    BY <1>0, <2>2, <2>3 DEF HandlersInv
  <2>5. TokenSets' /\ SessionsOnDisk' /\ DOMAIN sessions' \subseteq DOMAIN sessions
         /\ \A x \in DOMAIN sessions : x \in cookies \/ x \in DOMAIN sessions'
    BY <2>1, checkSessionKeeps
  <2> QED BY <1>0, <1>5, <2>1, <2>4, <2>5 DEF AuthVisit, TokensOf
<1>6. CASE AuthGo
  <2>1. PICK h \in Handlers : LoginStep(h) \/ LogoutStep(h)
    BY <1>6 DEF AuthGo
  <2>2. PICK r \in HandlerSet :
           /\ hreq' = [hreq EXCEPT ![h] = r]
           /\ LoginFind(h) => r.pc \in {"inc", "remove"}
           /\ LoginInc(h) \/ LoginStore(h) \/ LogoutRemoveDB(h) => r.pc = "free"
           /\ LoginRemove(h) => r.pc = "add"
           /\ LogoutRemove(h) => r.pc = "logoutDB" /\ r.tok = hreq[h].tok
           /\ LoginAdd(h) => r.pc = "store" /\ r.tok \in Tokens \ drawn /\ drawn' = drawn \cup {r.tok}
                /\ \E e : sessions' = With(sessions, r.tok, e)
    BY <2>1, HandlerSteps
  <2>3. /\ hreq'[h] = r /\ \A g \in Handlers \ {h} : hreq'[g] = hreq[g]
        /\ proc = "up" /\ proc' = "up" /\ TokensOf(h)
    BY <1>0, <1>6, <2>2 DEF HandlersInv, AuthGo
  <2>4. CASE LoginFind(h) \/ LoginInc(h) \/ LoginRemove(h)
    <3>1. r.pc \in {"inc", "remove", "free", "add"}
      BY <2>2, <2>4
    <3>2. UNCHANGED <<sessions, sessionsDB, drawn, cookies, loggedOut>>
      BY <2>4 DEF LoginFind, LoginInc, LoginRemove
    <3> QED BY <1>0, <2>3, <3>1, <3>2 DEF TokenSets, TokensOf, SessionsOnDisk
  <2>5. CASE LoginAdd(h)
    <3>1. PICK e : /\ r.pc = "store" /\ r.tok \in Tokens \ drawn /\ drawn' = drawn \cup {r.tok}
                   /\ sessions' = With(sessions, r.tok, e)
      BY <2>2, <2>5
    <3>2. /\ DOMAIN sessions' = DOMAIN sessions \cup {r.tok}
          /\ \A x \in DOMAIN sessions \ {r.tok} : sessions'[x] = sessions[x]
      BY <3>1 DEF With
    <3>3. UNCHANGED <<sessionsDB, cookies, loggedOut>>
      BY <2>5 DEF LoginAdd
    <3>4. TokenSets' /\ SessionsOnDisk' /\ TokensOf(h)'
      BY <1>0, <2>3, <3>1, <3>2, <3>3 DEF TokenSets, TokensOf, SessionsOnDisk
    <3>5. \A g \in Handlers \ {h} : TokensOf(g)'
      BY <1>0, <2>3, <3>1, <3>2, <3>3 DEF TokenSets, TokensOf
    <3> QED BY <2>3, <3>4, <3>5
  <2>6. CASE LoginStore(h)
    <3>1. PICK t, e :
             /\ t = hreq[h].tok /\ e = sessions[t] /\ sessionsDB' = With(sessionsDB, t, e)
             /\ cookies' = cookies \cup {t} /\ hreq[h].pc = "store"
             /\ UNCHANGED <<sessions, drawn, loggedOut>>
      BY <2>6 DEF LoginStore
    <3>2. /\ DOMAIN sessionsDB' = DOMAIN sessionsDB \cup {t} /\ sessionsDB'[t] = sessions[t]
          /\ \A x \in DOMAIN sessionsDB \ {t} : sessionsDB'[x] = sessionsDB[x]
      BY <3>1 DEF With
    <3>3. t \in DOMAIN sessions /\ t \notin cookies /\ r.pc = "free"
      BY <2>2, <2>3, <2>6, <3>1 DEF TokensOf
    <3>4. TokenSets' /\ SessionsOnDisk' /\ TokensOf(h)'
      BY <1>0, <2>3, <3>1, <3>2, <3>3 DEF TokenSets, TokensOf, SessionsOnDisk
    <3>5. \A g \in Handlers \ {h} : hreq[g].pc # "store"
      BY <1>0, <3>1 DEF HandlersInv, LoginPcs
    <3>6. \A g \in Handlers \ {h} : TokensOf(g)'
      BY <1>0, <2>3, <3>1, <3>3, <3>5 DEF TokensOf
    <3> QED BY <2>3, <3>4, <3>6
  <2>7. CASE LogoutRemove(h)
    <3>1. PICK t : /\ t = hreq[h].tok /\ sessions' = Without(sessions, t) /\ hreq[h].pc = "logout"
                   /\ UNCHANGED <<sessionsDB, drawn, cookies, loggedOut>>
      BY <2>7 DEF LogoutRemove
    <3>2. /\ DOMAIN sessions' = DOMAIN sessions \ {t}
          /\ \A x \in DOMAIN sessions' : sessions'[x] = sessions[x]
      BY <3>1 DEF Without
    <3>3. t \in cookies /\ r.pc = "logoutDB" /\ r.tok = t
      BY <2>2, <2>3, <2>7, <3>1 DEF TokensOf
    <3>4. TokenSets' /\ SessionsOnDisk' /\ TokensOf(h)'
      BY <1>0, <2>3, <3>1, <3>2, <3>3 DEF TokenSets, TokensOf, SessionsOnDisk
    <3>5. \A g \in Handlers \ {h} : TokensOf(g)'
      BY <1>0, <2>3, <3>1, <3>2, <3>3 DEF TokensOf
    <3> QED BY <2>3, <3>4, <3>5
  <2>8. CASE LogoutRemoveDB(h)
    <3>1. PICK t : /\ t = hreq[h].tok /\ sessionsDB' = Without(sessionsDB, t) /\ hreq[h].pc = "logoutDB"
                   /\ loggedOut' = loggedOut \cup {t}
                   /\ UNCHANGED <<sessions, drawn, cookies>>
      BY <2>8 DEF LogoutRemoveDB, removeSessionFromFile
    <3>2. /\ DOMAIN sessionsDB' = DOMAIN sessionsDB \ {t}
          /\ \A x \in DOMAIN sessionsDB' : sessionsDB'[x] = sessionsDB[x]
      BY <3>1 DEF Without
    <3>3. t \in cookies /\ t \notin DOMAIN sessions /\ r.pc = "free"
      BY <2>2, <2>3, <2>8, <3>1 DEF TokensOf
    <3> QED BY <1>0, <2>3, <3>1, <3>2, <3>3 DEF TokenSets, TokensOf, SessionsOnDisk
  <2> QED BY <2>1, <2>4, <2>5, <2>6, <2>7, <2>8 DEF LoginStep, LogoutStep
<1> QED BY AuthMoves, <1>1, <1>2, <1>3, <1>4, <1>5, <1>6

\* Every step of the process keeps the invariant of the sessions.
LEMMA SessInvStep ==
  ASSUME SessInv, [Next]_vars
  PROVE  SessInv'
<1>1. HandlersInv'
  BY HandlersKept
<1>2. TokensInv' /\ SessionsOnDisk'
  BY TokensKept
<1> QED BY <1>1, <1>2 DEF SessInv

\* For any number of requests at once, any users and any tokens: a session
\* whose logout has been answered is neither in memory nor in the database,
\* whatever requests with its cookie, restarts and crashes came in between,
\* and a session in memory that somebody holds the cookie of is in the
\* database with the same expiration (auth.go:305, auth.go:267).
THEOREM SessionsStored == Spec => []SessionsOnDisk
<1>1. Init => SessInv
  BY SessInvInit
<1>2. SessInv /\ [Next]_vars => SessInv'
  BY SessInvStep
<1>3. SessInv => SessionsOnDisk
  BY DEF SessInv
<1> QED BY <1>1, <1>2, <1>3, PTL DEF Spec

----------------------------------------------------------------------------
(* The limit on failed attempts. *)

\* Long enough between two comparisons that the limiter has let go in between.
Apart(s, t) == t - s >= blockDur \/ t - s > failedAuthTTL

\* W are the times of the failed comparisons of an address, the first m of
\* them counted; the record of the address has counted the last k of those
\* and lasts until u.  The record says how long ago its first failure was,
\* once it is full how long ago its last one was; and a record that is gone
\* has taken less than maxAttempts failures with it, or the block is over.
Counts(W, m, k, u, now) ==
  /\ k \in Nat /\ m \in Nat /\ u \in Nat /\ k <= m /\ m <= Len(W)
  /\ \A i \in 1..(m - k - maxAttempts + 1) : Apart(W[i], now)
  /\ 0 < k /\ k < maxAttempts => \A i \in 1..(m - k + 1) : W[i] + failedAuthTTL <= u
  /\ k >= maxAttempts => \A i \in 1..m : W[i] + blockDur <= u

Past(W, now) == W \in Seq(Nat) /\ \A i \in 1..Len(W) : W[i] <= now

\* What AttemptsBounded says of one address.
Spread(W) ==
  \A i \in 1..Len(W) : i + 2 * maxAttempts - 1 <= Len(W) => Apart(W[i], W[i + 2 * maxAttempts - 1])

\* The three numbers of the limiter are positive.
LEMMA LimitFacts ==
  /\ maxAttempts \in Nat /\ maxAttempts >= 1 /\ blockDur \in Nat /\ failedAuthTTL \in Nat
  /\ failedAuthTTL >= 1 /\ blockDur >= 1
BY AuthAssumption

\* The clock goes on.
LEMMA CountsLater ==
  ASSUME NEW W \in Seq(Nat), NEW m, NEW k, NEW u, NEW now \in Nat, NEW later \in Nat, now <= later,
         Counts(W, m, k, u, now)
  PROVE  Counts(W, m, k, u, later)
<1>1. \A i \in 1..(m - k - maxAttempts + 1) : Apart(W[i], later)
  <2> TAKE i \in 1..(m - k - maxAttempts + 1)
  <2>1. i \in 1..Len(W) /\ W[i] \in Nat /\ Apart(W[i], now)
    BY LimitFacts DEF Counts
  <2> QED BY <2>1, LimitFacts DEF Apart
<1> QED BY <1>1 DEF Counts

\* A comparison fails: the one 2 * maxAttempts - 1 before it is long past.
LEMMA CountsFind ==
  ASSUME NEW W \in Seq(Nat), NEW k, NEW u, NEW now \in Nat, Counts(W, Len(W), k, u, now),
         Past(W, now), Spread(W), k < maxAttempts \/ u <= now
  PROVE  LET X == Append(W, now) IN
         /\ Len(X) = Len(W) + 1 /\ Counts(X, Len(X) - 1, k, u, now) /\ Past(X, now) /\ Spread(X)
<1> DEFINE X == Append(W, now)
<1>1. /\ X \in Seq(Nat) /\ Len(X) = Len(W) + 1 /\ X[Len(X)] = now
      /\ \A i \in 1..Len(W) : X[i] = W[i] /\ W[i] \in Nat
  OBVIOUS
<1> HIDE DEF X
<1>a. Len(W) \in Nat /\ k \in Nat /\ u \in Nat /\ k <= Len(W)
  BY DEF Counts
<1>2. Past(X, now)
  BY SMTT(30), <1>1, <1>a DEF Past
<1>3. Counts(X, Len(X) - 1, k, u, now)
  <2>1. ASSUME NEW i \in 1..(Len(W) - k - maxAttempts + 1) PROVE Apart(X[i], now)
    <3>1. i \in 1..Len(W)
      BY <1>a, LimitFacts
    <3>2. Apart(W[i], now) /\ X[i] = W[i]
      BY <1>1, <3>1 DEF Counts
    <3> QED BY <3>2
  <2>2. ASSUME 0 < k, k < maxAttempts, NEW i \in 1..(Len(W) - k + 1)
        PROVE  X[i] + failedAuthTTL <= u
    <3>1. i \in 1..Len(W)
      BY <1>a, <2>2, LimitFacts
    <3>2. W[i] + failedAuthTTL <= u /\ X[i] = W[i]
      BY <1>1, <2>2, <3>1 DEF Counts
    <3> QED BY <3>2
  <2>3. k >= maxAttempts => \A i \in 1..Len(W) : X[i] + blockDur <= u
    BY <1>1, <1>a, LimitFacts DEF Counts
  <2>4. Len(X) - 1 = Len(W)
    BY <1>1, <1>a
  <2> QED BY <1>1, <1>a, <2>1, <2>2, <2>3, <2>4 DEF Counts
<1>4. Spread(X)
  <2> SUFFICES ASSUME NEW i \in 1..Len(X), i + 2 * maxAttempts - 1 <= Len(X)
               PROVE  Apart(X[i], X[i + 2 * maxAttempts - 1])
    BY DEF Spread
  <2>1. i \in 1..Len(W) /\ i + 2 * maxAttempts - 1 \in 1..Len(X)
    BY <1>1, <1>a, LimitFacts
  <2>2. CASE i + 2 * maxAttempts - 1 <= Len(W)
    <3>1. i + 2 * maxAttempts - 1 \in 1..Len(W)
      BY <2>1, <2>2, LimitFacts
    <3>2. X[i] = W[i] /\ X[i + 2 * maxAttempts - 1] = W[i + 2 * maxAttempts - 1]
      BY <1>1, <2>1, <3>1
    <3>3. Apart(W[i], W[i + 2 * maxAttempts - 1])
      BY <2>1, <2>2 DEF Spread
    <3> QED BY <3>2, <3>3
  <2>3. CASE i + 2 * maxAttempts - 1 = Len(X)
    <3>1. X[i + 2 * maxAttempts - 1] = now /\ X[i] = W[i] /\ W[i] \in Nat
      BY <1>1, <2>1, <2>3
    <3>2. CASE k < maxAttempts
      <4>1. i \in 1..(Len(W) - k - maxAttempts + 1)
        BY <1>1, <1>a, <2>1, <2>3, <3>2, LimitFacts
      <4> QED BY <3>1, <4>1 DEF Counts
    <3>3. CASE k >= maxAttempts
      <4>1. W[i] + blockDur <= u /\ u <= now
        BY <1>a, <2>1, <3>3, LimitFacts DEF Counts
      <4> QED BY SMTT(30), <1>a, <3>1, <4>1, LimitFacts DEF Apart
    <3> QED BY <1>a, <3>2, <3>3, LimitFacts
  <2>4. i + 2 * maxAttempts - 1 <= Len(W) \/ i + 2 * maxAttempts - 1 = Len(X)
    <3>1. PICK j \in 1..Len(X) : j = i + 2 * maxAttempts - 1
      BY <2>1
    <3>2. j <= Len(W) \/ j = Len(X)
      BY <1>1, <1>a
    <3> QED BY <3>1, <3>2
  <2> QED BY <2>2, <2>3, <2>4
<1> QED BY <1>1, <1>2, <1>3, <1>4 DEF X

\* The failure is counted (incLocked, authratelimiter.go:87).
LEMMA CountsInc ==
  ASSUME NEW W \in Seq(Nat), NEW m, NEW k, NEW u, NEW now \in Nat, Counts(W, m, k, u, now),
         Past(W, now), m + 1 = Len(W), NEW until,
         until = IF k + 1 >= maxAttempts THEN now + blockDur
                 ELSE IF k > 0 THEN u ELSE now + failedAuthTTL
  PROVE  Counts(W, Len(W), k + 1, until, now)
<1>1. Len(W) \in Nat /\ k \in Nat /\ m \in Nat /\ u \in Nat /\ k <= m /\ until \in Nat
  BY LimitFacts DEF Counts
<1>2. \A i \in 1..Len(W) : W[i] \in Nat /\ W[i] <= now
  BY DEF Past
<1>3. \A i \in 1..(Len(W) - (k + 1) - maxAttempts + 1) : Apart(W[i], now)
  BY SMTT(30), <1>1 DEF Counts
<1>4. ASSUME k + 1 < maxAttempts, NEW i \in 1..(Len(W) - (k + 1) + 1)
      PROVE  W[i] + failedAuthTTL <= until
  <2>1. i \in 1..Len(W) /\ i \in 1..(m - k + 1)
    BY <1>1
  <2>2. CASE k = 0
    BY <1>1, <1>2, <1>4, <2>1, <2>2, LimitFacts
  <2>3. CASE k > 0
    <3>1. until = u /\ k < maxAttempts
      BY <1>1, <1>4, <2>3, LimitFacts
    <3> QED BY <2>1, <2>3, <3>1 DEF Counts
  <2> QED BY <1>1, <2>2, <2>3
<1>5. k + 1 >= maxAttempts => \A i \in 1..Len(W) : W[i] + blockDur <= until
  BY <1>1, <1>2, LimitFacts
<1> QED BY <1>1, <1>3, <1>4, <1>5, LimitFacts DEF Counts

\* The record expires (cleanupLocked, authratelimiter.go:34).
LEMMA CountsExpire ==
  ASSUME NEW W \in Seq(Nat), NEW k, NEW u, NEW now \in Nat, Counts(W, Len(W), k, u, now),
         k > 0, u < now
  PROVE  Counts(W, Len(W), 0, 0, now)
<1>1. Len(W) \in Nat /\ k \in Nat /\ u \in Nat /\ k <= Len(W) /\ \A i \in 1..Len(W) : W[i] \in Nat
  BY DEF Counts
<1>2. ASSUME NEW i \in 1..(Len(W) - maxAttempts + 1) PROVE Apart(W[i], now)
  <2>1. CASE k < maxAttempts
    <3>1. i \in 1..(Len(W) - k + 1) /\ W[i] \in Nat
      BY <1>1, <2>1, LimitFacts
    <3>2. W[i] + failedAuthTTL <= u
      BY <2>1, <3>1 DEF Counts
    <3> QED BY SMTT(30), <1>1, <3>1, <3>2, LimitFacts DEF Apart
  <2>2. CASE k >= maxAttempts
    <3>1. i \in 1..Len(W) /\ W[i] \in Nat
      BY <1>1, LimitFacts
    <3>2. W[i] + blockDur <= u
      BY <2>2, <3>1 DEF Counts
    <3> QED BY SMTT(30), <1>1, <3>1, <3>2, LimitFacts DEF Apart
  <2> QED BY <1>1, <2>1, <2>2, LimitFacts
<1> QED BY <1>1, <1>2, LimitFacts DEF Counts

\* Nothing has failed yet.
LEMMA CountsNone ==
  ASSUME NEW now \in Nat
  PROVE  Counts(<<>>, 0, 0, 0, now) /\ Past(<<>>, now) /\ Spread(<<>>)
<1>1. Len(<<>>) = 0
  OBVIOUS
<1>2. <<>> \in Seq(Nat)
  OBVIOUS
<1> QED BY <1>1, <1>2, LimitFacts DEF Counts, Past, Spread

Fails(a) == IF a \in DOMAIN failedAuths THEN failedAuths[a].num ELSE 0
Until(a) == IF a \in DOMAIN failedAuths THEN failedAuths[a].until ELSE 0

\* Some login from address a is at p.
At(p, a) == \E h \in Handlers : hreq[h].pc = p /\ hreq[h].addr = a

Counted(a) == IF At("inc", a) THEN Len(wrong[a]) - 1 ELSE Len(wrong[a])

LimitOf(a) ==
  /\ Past(wrong[a], clock) /\ Spread(wrong[a])
  /\ At("remove", a) => wrong[a] = <<>>
  /\ ~At("remove", a) => Counts(wrong[a], Counted(a), Fails(a), Until(a), clock)
  /\ At("find", a) => Fails(a) < maxAttempts \/ Until(a) <= clock

LimitInv ==
  /\ clock \in Nat
  /\ wrong \in [Addrs -> Seq(Nat)]
  /\ \A a \in DOMAIN failedAuths : failedAuths[a].num \in Nat \ {0} /\ failedAuths[a].until \in Nat
  /\ proc # "up" => \A a \in Addrs : wrong[a] = <<>>
  /\ \A a \in Addrs : LimitOf(a)

\* With no login in progress, and with one.
LEMMA AtNone ==
  ASSUME HandlersInv, ~LoggingIn, NEW p \in LoginPcs, NEW a
  PROVE  ~At(p, a)
BY DEF At, LoggingIn, LoginPcs

\* The login in progress is where its handler is.
LEMMA AtOne ==
  ASSUME HandlersInv, NEW h \in Handlers, hreq[h].pc \in LoginPcs, NEW p \in LoginPcs, NEW a
  PROVE  At(p, a) <=> hreq[h].pc = p /\ hreq[h].addr = a
BY DEF At, HandlersInv

\* Where the logins are once handler h has gone on to r.
LEMMA AtMoves ==
  ASSUME HandlersInv, NEW h \in Handlers, NEW r, hreq' = [hreq EXCEPT ![h] = r],
         NEW p \in LoginPcs, NEW a
  PROVE  /\ hreq[h].pc \in LoginPcs => (At(p, a)' <=> r.pc = p /\ r.addr = a)
         /\ hreq[h].pc \notin LoginPcs /\ r.pc \notin LoginPcs => (At(p, a)' <=> At(p, a))
         /\ ~LoggingIn => (At(p, a)' <=> r.pc = p /\ r.addr = a)
<1>1. \A g \in Handlers : hreq'[g] = IF g = h THEN r ELSE hreq[g]
  BY DEF HandlersInv
<1>2. At(p, a)' <=> \E g \in Handlers : hreq'[g].pc = p /\ hreq'[g].addr = a
  BY DEF At
<1>3. At(p, a)' <=> (r.pc = p /\ r.addr = a) \/ \E g \in Handlers \ {h} : hreq[g].pc = p /\ hreq[g].addr = a
  BY <1>1, <1>2
<1>4. hreq[h].pc \in LoginPcs \/ ~LoggingIn => \A g \in Handlers \ {h} : hreq[g].pc \notin LoginPcs
  BY DEF HandlersInv, LoggingIn, LoginPcs
<1>5. hreq[h].pc \in LoginPcs \/ ~LoggingIn => (At(p, a)' <=> r.pc = p /\ r.addr = a)
  BY <1>3, <1>4
<1>6. hreq[h].pc \notin LoginPcs /\ r.pc \notin LoginPcs => (At(p, a)' <=> At(p, a))
  BY <1>3 DEF At
<1> QED BY <1>5, <1>6

\* Before the first start nothing has failed.
LEMMA LimitInvInit ==
  ASSUME Init
  PROVE  LimitInv
<1>1. AuthInit
  BY DEF Init
<1>2. clock \in Nat /\ (\A a \in Addrs : wrong[a] = <<>>) /\ DOMAIN failedAuths = {}
      /\ wrong \in [Addrs -> Seq(Nat)]
  BY <1>1 DEF AuthInit, None
<1>3. ASSUME NEW a \in Addrs PROVE LimitOf(a)
  <2>1. ~At("inc", a) /\ ~At("remove", a) /\ ~At("find", a)
    BY <1>1 DEF AuthInit, Free, At
  <2>2. Fails(a) = 0 /\ Until(a) = 0 /\ Counted(a) = 0
    BY <1>2, <2>1 DEF Fails, Until, Counted
  <2> QED BY <1>2, <2>1, <2>2, CountsNone DEF LimitOf
<1> QED BY <1>2, <1>3 DEF LimitInv

\* An address the step does not concern.
LEMMA LimitSame ==
  ASSUME NEW a \in Addrs, LimitOf(a), wrong'[a] = wrong[a], Fails(a)' = Fails(a), Until(a)' = Until(a),
         clock' = clock, At("inc", a)' <=> At("inc", a), At("remove", a)' <=> At("remove", a),
         At("find", a)' => At("find", a) \/ Fails(a) < maxAttempts \/ Until(a) <= clock
  PROVE  LimitOf(a)'
<1>1. Counted(a)' = Counted(a)
  BY DEF Counted
<1> QED BY <1>1 DEF LimitOf

\* LoginCheck forgets the records that have expired, and lets an address
\* through that has none, or fewer than maxAttempts, or whose block is over.
LEMMA LimitCheck ==
  ASSUME SessInv, LimitInv, AuthLogin
  PROVE  LimitInv'
<1>0. HandlersInv
  BY DEF SessInv
<1>1. PICK h \in Handlers, a \in Addrs, u \in Users \cup {NoUser} :
        LoginCheck(h, a, u) /\ ~LoggingIn /\ proc = "up" /\ proc' = "up"
  BY DEF AuthLogin
<1>2. /\ failedAuths' = cleanupLocked(failedAuths) /\ UNCHANGED <<clock, wrong>>
      /\ \/ hreq' = hreq
         \/ /\ hreq' = [hreq EXCEPT ![h] = [Free EXCEPT !.pc = "find", !.addr = a, !.user = u]]
            /\ ~(checkLocked(failedAuths', a) > 0)
  BY <1>1 DEF LoginCheck
<1>3. /\ DOMAIN failedAuths' = {b \in DOMAIN failedAuths : failedAuths[b].until >= clock}
      /\ \A b \in DOMAIN failedAuths' : failedAuths'[b] = failedAuths[b]
  BY <1>2 DEF cleanupLocked
<1>4. ASSUME NEW b \in Addrs
      PROVE  \/ Fails(b)' = Fails(b) /\ Until(b)' = Until(b)
             \/ Fails(b)' = 0 /\ Until(b)' = 0 /\ Fails(b) > 0 /\ Until(b) < clock
  <2>1. CASE b \in DOMAIN failedAuths /\ failedAuths[b].until < clock
    BY <1>2, <1>3, <2>1 DEF Fails, Until, LimitInv
  <2>2. CASE b \in DOMAIN failedAuths /\ failedAuths[b].until >= clock
    BY <1>3, <2>2 DEF Fails, Until
  <2>3. CASE b \notin DOMAIN failedAuths
    BY <1>3, <2>3 DEF Fails, Until
  <2> QED BY <2>1, <2>2, <2>3 DEF LimitInv
<1>5. ASSUME NEW b \in Addrs
      PROVE  /\ ~At("inc", b) /\ ~At("remove", b) /\ ~At("inc", b)' /\ ~At("remove", b)'
             /\ At("find", b)' => Fails(b)' < maxAttempts \/ Until(b)' <= clock
  <2>1. ~At("inc", b) /\ ~At("remove", b) /\ ~At("find", b)
    BY <1>0, <1>1, AtNone DEF LoginPcs
  <2>2. CASE hreq' = hreq
    BY <2>1, <2>2 DEF At
  <2>3. CASE hreq' = [hreq EXCEPT ![h] = [Free EXCEPT !.pc = "find", !.addr = a, !.user = u]]
             /\ ~(checkLocked(failedAuths', a) > 0)
    <3>1. PICK r : hreq' = [hreq EXCEPT ![h] = r] /\ r.pc = "find" /\ r.addr = a
      <4> DEFINE f == [Free EXCEPT !.pc = "find", !.addr = a, !.user = u]
      <4>1. f.pc = "find" /\ f.addr = a
        BY DEF Free
      <4>2. hreq' = [hreq EXCEPT ![h] = f]
        BY <2>3
      <4> HIDE DEF f
      <4> QED BY <4>1, <4>2
    <3>2. ~At("inc", b)' /\ ~At("remove", b)' /\ (At("find", b)' => a = b)
      BY <1>0, <1>1, <3>1, AtMoves DEF LoginPcs
    <3>3. a \notin DOMAIN failedAuths' \/ failedAuths'[a].num < maxAttempts
          \/ ~(failedAuths'[a].until - clock > 0)
      BY <1>2, <2>3 DEF checkLocked
    <3>4. a \in DOMAIN failedAuths' => failedAuths'[a].until \in Nat
      BY <1>3 DEF LimitInv
    <3>5. Fails(a)' < maxAttempts \/ Until(a)' <= clock
      BY <3>3, <3>4, LimitFacts DEF Fails, Until, LimitInv
    <3> QED BY <2>1, <3>2, <3>5
  <2> QED BY <1>2, <2>2, <2>3
<1>6. ASSUME NEW b \in Addrs PROVE LimitOf(b)'
  <2>0. LimitOf(b) /\ wrong[b] \in Seq(Nat) /\ clock \in Nat
    BY DEF LimitInv
  <2>1. Counted(b) = Len(wrong[b]) /\ Counted(b)' = Len(wrong[b])
    BY <1>2, <1>5 DEF Counted
  <2>2. Counts(wrong[b], Len(wrong[b]), Fails(b), Until(b), clock)
    BY <1>5, <2>0, <2>1 DEF LimitOf
  <2>3. Counts(wrong[b], Len(wrong[b]), Fails(b)', Until(b)', clock)
    <3>1. CASE Fails(b)' = 0 /\ Until(b)' = 0 /\ Fails(b) > 0 /\ Until(b) < clock
      <4>1. Counts(wrong[b], Len(wrong[b]), 0, 0, clock)
        BY <2>0, <2>2, <3>1, CountsExpire
      <4> QED BY <3>1, <4>1
    <3>2. CASE Fails(b)' = Fails(b) /\ Until(b)' = Until(b)
      BY <2>2, <3>2
    <3> QED BY <1>4, <3>1, <3>2
  <2> QED BY <1>2, <1>5, <2>0, <2>1, <2>3 DEF LimitOf
<1> QED BY <1>1, <1>2, <1>3, <1>6 DEF LimitInv

\* LoginFind compares the password.
LEMMA LimitFind ==
  ASSUME SessInv, LimitInv, NEW h \in Handlers, LoginFind(h), proc' = "up"
  PROVE  LimitInv'
<1>0. HandlersInv /\ hreq[h].pc = "find"
  BY DEF SessInv, LoginFind
<1>1. PICK a \in Addrs : hreq[h].addr = a
  BY <1>0 DEF HandlersInv, LoginPcs
<1>2. PICK r : hreq' = [hreq EXCEPT ![h] = r] /\ r.addr = a
             /\ r.pc = (IF hreq[h].user = NoUser THEN "inc" ELSE "remove")
  <2>1. PICK p \in {"inc", "remove"} :
          hreq' = [hreq EXCEPT ![h].pc = p] /\ p = (IF hreq[h].user = NoUser THEN "inc" ELSE "remove")
    BY DEF LoginFind
  <2>2. PICK r \in HandlerSet : hreq' = [hreq EXCEPT ![h] = r] /\ r.pc = p /\ r.addr = hreq[h].addr
    <3>1. p \in LoginPcs \cup {"free", "logout", "logoutDB"}
      BY DEF LoginPcs
    <3>2. hreq' = [hreq EXCEPT ![h].pc = p]
      BY <2>1
    <3> QED BY <1>0, <3>1, <3>2, HandlerGoes
  <2> QED BY <1>1, <2>1, <2>2
<1>3. /\ UNCHANGED <<failedAuths, clock>>
      /\ wrong' = [wrong EXCEPT ![a] = IF hreq[h].user = NoUser THEN Append(@, clock) ELSE <<>>]
  BY <1>1 DEF LoginFind
<1>4. ASSUME NEW b
      PROVE  /\ ~At("inc", b) /\ ~At("remove", b) /\ (At("find", b) <=> a = b)
             /\ At("inc", b)' <=> a = b /\ hreq[h].user = NoUser
             /\ At("remove", b)' <=> a = b /\ hreq[h].user # NoUser
             /\ ~At("find", b)'
  <2>1. ~At("inc", b) /\ ~At("remove", b) /\ (At("find", b) <=> a = b)
    BY <1>0, <1>1, AtOne DEF LoginPcs
  <2>2. /\ At("inc", b)' <=> a = b /\ r.pc = "inc"
        /\ At("remove", b)' <=> a = b /\ r.pc = "remove"
        /\ At("find", b)' <=> a = b /\ r.pc = "find"
    BY <1>0, <1>2, AtMoves DEF LoginPcs
  <2> QED BY <1>2, <2>1, <2>2
<1>5. /\ LimitOf(a) /\ wrong[a] \in Seq(Nat) /\ clock \in Nat /\ wrong \in [Addrs -> Seq(Nat)]
  BY DEF LimitInv
<1>6. \A b \in Addrs : Fails(b)' = Fails(b) /\ Until(b)' = Until(b)
  BY <1>3 DEF Fails, Until
<1>7. /\ wrong' \in [Addrs -> Seq(Nat)]
      /\ wrong'[a] = IF hreq[h].user = NoUser THEN Append(wrong[a], clock) ELSE <<>>
      /\ \A b \in Addrs \ {a} : wrong'[b] = wrong[b]
  BY <1>3, <1>5
<1>8. LimitOf(a)'
  <2>1. CASE hreq[h].user = NoUser
    <3> DEFINE X == Append(wrong[a], clock)
    <3>1. wrong'[a] = X
      BY <1>7, <2>1
    <3>2. Counts(wrong[a], Len(wrong[a]), Fails(a), Until(a), clock)
      BY <1>4, <1>5 DEF LimitOf, Counted
    <3>3. Past(wrong[a], clock) /\ Spread(wrong[a]) /\ (Fails(a) < maxAttempts \/ Until(a) <= clock)
      BY <1>4, <1>5 DEF LimitOf
    <3>4. Counts(X, Len(X) - 1, Fails(a), Until(a), clock) /\ Past(X, clock) /\ Spread(X)
      BY <1>5, <3>2, <3>3, CountsFind
    <3> HIDE DEF X
    <3>5. Counted(a)' = Len(X) - 1
      BY <1>4, <2>1, <3>1 DEF Counted
    <3> QED BY <1>3, <1>4, <1>6, <2>1, <3>1, <3>4, <3>5 DEF LimitOf
  <2>2. CASE hreq[h].user # NoUser
    BY <1>3, <1>4, <1>5, <1>7, <2>2, CountsNone DEF LimitOf
  <2> QED BY <2>1, <2>2
<1>9. ASSUME NEW b \in Addrs \ {a} PROVE LimitOf(b)'
  BY <1>3, <1>4, <1>6, <1>7, LimitSame DEF LimitInv
<1> QED BY <1>3, <1>7, <1>8, <1>9 DEF LimitInv

\* LoginInc counts the failure.
LEMMA LimitInc ==
  ASSUME SessInv, LimitInv, NEW h \in Handlers, LoginInc(h), proc' = "up"
  PROVE  LimitInv'
<1>0. HandlersInv /\ hreq[h].pc = "inc"
  BY DEF SessInv, LoginInc
<1>1. PICK a \in Addrs : hreq[h].addr = a
  BY <1>0 DEF HandlersInv, LoginPcs
<1>2. /\ UNCHANGED <<wrong, clock>> /\ hreq' = [hreq EXCEPT ![h] = Free]
      /\ failedAuths' = incLocked(failedAuths, a)
  BY <1>1 DEF LoginInc
<1>3. PICK k, u, until :
        /\ k = Fails(a) /\ u = Until(a)
        /\ until = IF k + 1 >= maxAttempts THEN clock + blockDur
                   ELSE IF k > 0 THEN u ELSE clock + failedAuthTTL
  OBVIOUS
<1>4. k \in Nat /\ u \in Nat /\ until \in Nat /\ (a \in DOMAIN failedAuths <=> k > 0) /\ clock \in Nat
  BY <1>3, LimitFacts DEF Fails, Until, LimitInv
<1>5. failedAuths' = With(failedAuths, a, [num |-> k + 1, until |-> until])
  BY <1>2, <1>3, <1>4 DEF incLocked, Fails, Until
<1>6. /\ DOMAIN failedAuths' = DOMAIN failedAuths \cup {a}
      /\ failedAuths'[a].num = k + 1 /\ failedAuths'[a].until = until
      /\ \A b \in DOMAIN failedAuths \ {a} : failedAuths'[b] = failedAuths[b]
  BY <1>5 DEF With
<1>7. /\ Fails(a)' = k + 1 /\ Until(a)' = until
      /\ \A b \in Addrs \ {a} : Fails(b)' = Fails(b) /\ Until(b)' = Until(b)
  BY <1>6 DEF Fails, Until
<1>8. ASSUME NEW b
      PROVE  /\ ~At("find", b) /\ ~At("remove", b) /\ (At("inc", b) <=> a = b)
             /\ ~At("inc", b)' /\ ~At("remove", b)' /\ ~At("find", b)'
  <2>1. ~At("find", b) /\ ~At("remove", b) /\ (At("inc", b) <=> a = b)
    BY <1>0, <1>1, AtOne DEF LoginPcs
  <2>2. ~At("inc", b)' /\ ~At("remove", b)' /\ ~At("find", b)'
    BY <1>0, <1>2, AtMoves, FreeFacts DEF LoginPcs
  <2> QED BY <2>1, <2>2
<1>9. LimitOf(a)'
  <2>1. LimitOf(a) /\ wrong[a] \in Seq(Nat) /\ Len(wrong[a]) \in Nat
    BY DEF LimitInv
  <2>2. PICK m : m = Counted(a) /\ m + 1 = Len(wrong[a])
    BY <1>8, <2>1 DEF Counted
  <2>3. Counts(wrong[a], m, k, u, clock) /\ Past(wrong[a], clock)
    BY <1>3, <1>8, <2>1, <2>2 DEF LimitOf
  <2>4. Counts(wrong[a], Len(wrong[a]), k + 1, until, clock)
    BY <1>3, <1>4, <2>1, <2>2, <2>3, CountsInc
  <2>5. Counted(a)' = Len(wrong[a])
    BY <1>2, <1>8 DEF Counted
  <2> QED BY <1>2, <1>7, <1>8, <2>1, <2>4, <2>5 DEF LimitOf
<1>10. ASSUME NEW b \in Addrs \ {a} PROVE LimitOf(b)'
  BY <1>2, <1>7, <1>8, LimitSame DEF LimitInv
<1>11. \A b \in DOMAIN failedAuths' : failedAuths'[b].num \in Nat \ {0} /\ failedAuths'[b].until \in Nat
  BY <1>4, <1>6 DEF LimitInv
<1> QED BY <1>2, <1>9, <1>10, <1>11 DEF LimitInv

\* LoginRemove forgets the failures of an address that has logged in.
LEMMA LimitRemove ==
  ASSUME SessInv, LimitInv, NEW h \in Handlers, LoginRemove(h), proc' = "up"
  PROVE  LimitInv'
<1>0. HandlersInv /\ hreq[h].pc = "remove"
  BY DEF SessInv, LoginRemove
<1>1. PICK a \in Addrs : hreq[h].addr = a
  BY <1>0 DEF HandlersInv, LoginPcs
<1>2. /\ UNCHANGED <<wrong, clock>> /\ failedAuths' = Without(failedAuths, a)
  BY <1>1 DEF LoginRemove
<1>3. PICK r : hreq' = [hreq EXCEPT ![h] = r] /\ r.pc = "add"
  <2>1. PICK p \in {"add"} : hreq' = [hreq EXCEPT ![h].pc = p]
    BY DEF LoginRemove
  <2>2. PICK r \in HandlerSet : hreq' = [hreq EXCEPT ![h] = r] /\ r.pc = p
    <3>1. p \in LoginPcs \cup {"free", "logout", "logoutDB"}
      BY DEF LoginPcs
    <3> QED BY ZenonT(30), <1>0, <2>1, <3>1, HandlerGoes
  <2> QED BY <2>1, <2>2
<1>4. /\ DOMAIN failedAuths' = DOMAIN failedAuths \ {a}
      /\ \A b \in DOMAIN failedAuths' : failedAuths'[b] = failedAuths[b]
  BY <1>2 DEF Without
<1>5. /\ Fails(a)' = 0 /\ Until(a)' = 0
      /\ \A b \in Addrs \ {a} : Fails(b)' = Fails(b) /\ Until(b)' = Until(b)
  BY <1>4 DEF Fails, Until
<1>6. ASSUME NEW b
      PROVE  /\ ~At("find", b) /\ ~At("inc", b) /\ (At("remove", b) <=> a = b)
             /\ ~At("inc", b)' /\ ~At("remove", b)' /\ ~At("find", b)'
  <2>1. ~At("find", b) /\ ~At("inc", b) /\ (At("remove", b) <=> a = b)
    BY <1>0, <1>1, AtOne DEF LoginPcs
  <2>2. ~At("inc", b)' /\ ~At("remove", b)' /\ ~At("find", b)'
    BY <1>0, <1>3, AtMoves DEF LoginPcs
  <2> QED BY <2>1, <2>2
<1>7. LimitOf(a)'
  <2>1. wrong'[a] = <<>> /\ clock' = clock /\ clock \in Nat /\ Len(<<>>) = 0
    BY <1>2, <1>6 DEF LimitInv, LimitOf
  <2>2. Counted(a)' = 0
    BY <1>6, <2>1 DEF Counted
  <2> QED BY <1>5, <1>6, <2>1, <2>2, CountsNone DEF LimitOf
<1>8. ASSUME NEW b \in Addrs \ {a} PROVE LimitOf(b)'
  BY <1>2, <1>5, <1>6, LimitSame DEF LimitInv
<1> QED BY <1>2, <1>4, <1>7, <1>8 DEF LimitInv

\* Every other step leaves the limiter alone, starts it anew, or only lets
\* the clock go on.
LEMMA LimitInvStep ==
  ASSUME SessInv, LimitInv, [Next]_vars
  PROVE  LimitInv'
<1>0. HandlersInv
  BY DEF SessInv
<1>1. ASSUME UNCHANGED <<failedAuths, wrong, clock>>, proc' = "up" \/ proc # "up",
             \A b \in Addrs, p \in LoginPcs : At(p, b)' <=> At(p, b)
      PROVE  LimitInv'
  <2>1. ASSUME NEW b \in Addrs PROVE LimitOf(b)'
    <3>1. Fails(b)' = Fails(b) /\ Until(b)' = Until(b)
      BY <1>1 DEF Fails, Until
    <3>2. /\ At("inc", b)' <=> At("inc", b)
          /\ At("remove", b)' <=> At("remove", b)
          /\ At("find", b)' <=> At("find", b)
      BY <1>1 DEF LoginPcs
    <3> QED BY <1>1, <3>1, <3>2, LimitSame DEF LimitInv
  <2> QED BY <1>1, <2>1 DEF LimitInv
<1>2. CASE AuthQuiet
  BY <1>1, <1>2 DEF AuthQuiet, authVars, At
<1>3. CASE AuthBegin \/ AuthEnd
  <2>1. /\ \A b \in Addrs : wrong'[b] = <<>>
        /\ wrong' \in [Addrs -> Seq(Nat)]
        /\ clock' = clock /\ clock \in Nat /\ DOMAIN failedAuths' = {}
    <3>1. CASE AuthBegin
      BY <3>1 DEF AuthBegin, InitAuth, None, LimitInv
    <3>2. CASE AuthEnd
      BY <3>2 DEF AuthEnd, AuthDown, None, LimitInv
    <3> QED BY <1>3, <3>1, <3>2
  <2>2. \A g \in Handlers : hreq'[g].pc = "free"
    <3>1. CASE AuthBegin
      BY <1>0, <3>1 DEF AuthBegin, InitAuth, HandlersInv
    <3>2. CASE AuthEnd
      BY <3>2, FreeFacts DEF AuthEnd, AuthDown
    <3> QED BY <1>3, <3>1, <3>2
  <2>3. ASSUME NEW b \in Addrs PROVE LimitOf(b)'
    <3>1. ~At("inc", b)' /\ ~At("remove", b)' /\ ~At("find", b)'
      BY <2>2 DEF At
    <3>2. Fails(b)' = 0 /\ Until(b)' = 0 /\ Len(<<>>) = 0
      BY <2>1 DEF Fails, Until
    <3>3. Counted(b)' = 0
      BY <2>1, <3>1, <3>2 DEF Counted
    <3> QED BY <2>1, <3>1, <3>2, <3>3, CountsNone DEF LimitOf
  <2> QED BY <2>1, <2>3 DEF LimitInv
<1>4. CASE AuthTime
  <2>1. UNCHANGED <<failedAuths, wrong, hreq, proc>> /\ clock' = clock + 1 /\ clock \in Nat
    BY <1>4 DEF AuthTime, AuthTick, LimitInv
  <2>2. ASSUME NEW b \in Addrs PROVE LimitOf(b)'
    <3>1. Fails(b)' = Fails(b) /\ Until(b)' = Until(b) /\ Counted(b)' = Counted(b) /\ wrong[b] \in Seq(Nat)
      BY <2>1 DEF Fails, Until, Counted, At, LimitInv
    <3>2. /\ At("inc", b)' <=> At("inc", b)
          /\ At("remove", b)' <=> At("remove", b)
          /\ At("find", b)' <=> At("find", b)
      BY <2>1 DEF At
    <3>3. ~At("remove", b) => Counts(wrong[b], Counted(b), Fails(b), Until(b), clock + 1)
      BY <2>1, <3>1, CountsLater DEF LimitInv, LimitOf
    <3>4. Past(wrong[b], clock + 1)
      BY <2>1, <3>1 DEF LimitInv, LimitOf, Past
    <3>5. Until(b) <= clock => Until(b) <= clock + 1
      <4>1. Until(b) \in Nat
        BY DEF Until, LimitInv
      <4> QED BY <2>1, <4>1
    <3> QED BY <2>1, <3>1, <3>2, <3>3, <3>4, <3>5 DEF LimitInv, LimitOf
  <2> QED BY <2>1, <2>2 DEF LimitInv
<1>5. CASE AuthLogin
  BY <1>5, LimitCheck
<1>6. CASE AuthVisit
  <2>1. UNCHANGED <<failedAuths, wrong, clock>> /\ proc' = "up"
    BY <1>6 DEF AuthVisit, AuthRequest, LogoutBegin
  <2>2. CASE hreq' = hreq
    BY <1>1, <2>1, <2>2 DEF At
  <2>3. CASE hreq' # hreq
    <3>1. PICK h \in Handlers, t \in cookies :
            /\ hreq' = [hreq EXCEPT ![h] = [Free EXCEPT !.pc = "logout", !.tok = t]]
            /\ hreq[h].pc = "free"
      BY <1>6, <2>3 DEF AuthVisit, AuthRequest, LogoutBegin
    <3> DEFINE out == [Free EXCEPT !.pc = "logout", !.tok = t]
    <3>2. out.pc = "logout" /\ hreq' = [hreq EXCEPT ![h] = out]
      BY <3>1 DEF Free
    <3> HIDE DEF out
    <3>3. hreq[h].pc \notin LoginPcs /\ out.pc \notin LoginPcs
      BY <3>1, <3>2 DEF LoginPcs
    <3>4. ASSUME NEW b \in Addrs, NEW p \in LoginPcs PROVE At(p, b)' <=> At(p, b)
      BY <1>0, <3>2, <3>3, AtMoves
    <3> QED BY <1>1, <2>1, <3>4
  <2> QED BY <2>2, <2>3
<1>7. CASE AuthGo
  <2>1. PICK h \in Handlers : LoginStep(h) \/ LogoutStep(h)
    BY <1>7 DEF AuthGo
  <2>2. proc' = "up"
    BY <1>7 DEF AuthGo
  <2>3. CASE LoginFind(h)
    BY <2>2, <2>3, LimitFind
  <2>4. CASE LoginInc(h)
    BY <2>2, <2>4, LimitInc
  <2>5. CASE LoginRemove(h)
    BY <2>2, <2>5, LimitRemove
  <2>6. CASE LoginAdd(h) \/ LoginStore(h) \/ LogoutStep(h)
    <3>1. UNCHANGED <<failedAuths, wrong, clock>> /\ hreq[h].pc \in {"add", "store", "logout", "logoutDB"}
      BY <2>6 DEF LoginAdd, LoginStore, LogoutStep, LogoutRemove, LogoutRemoveDB
    <3>2. PICK r \in HandlerSet :
             /\ hreq' = [hreq EXCEPT ![h] = r]
             /\ r.pc \in LoginPcs => r.addr = hreq[h].addr /\ hreq[h].pc \in LoginPcs
             /\ LoginInc(h) \/ LoginStore(h) \/ LogoutRemoveDB(h) => r.pc = "free"
             /\ LogoutRemove(h) => r.pc = "logoutDB" /\ r.tok = hreq[h].tok
             /\ LoginAdd(h) => r.pc = "store"
      BY <2>1, HandlerSteps
    <3>3. r.pc \in {"free", "logoutDB", "store"} /\ (r.pc = "store" => r.addr = hreq[h].addr)
      BY <2>6, <3>2 DEF LogoutStep, LoginPcs
    <3>4. ASSUME NEW b \in Addrs, NEW p \in {"inc", "remove", "find"} PROVE At(p, b)' <=> At(p, b)
      <4>0. p \in LoginPcs /\ hreq' = [hreq EXCEPT ![h] = r]
        BY <3>2 DEF LoginPcs
      <4>1. CASE hreq[h].pc \in LoginPcs
        <5>1. At(p, b)' <=> r.pc = p /\ r.addr = b
          BY <1>0, <4>0, <4>1, AtMoves
        <5>2. At(p, b) <=> hreq[h].pc = p /\ hreq[h].addr = b
          BY <1>0, <4>0, <4>1, AtOne
        <5> QED BY <3>1, <3>3, <5>1, <5>2
      <4>2. CASE hreq[h].pc \notin LoginPcs
        <5>1. r.pc \notin LoginPcs
          BY <3>2, <4>2
        <5> QED BY <1>0, <4>0, <4>2, <5>1, AtMoves
      <4> QED BY <4>1, <4>2
    <3>5. ASSUME NEW b \in Addrs PROVE LimitOf(b)'
      <4>1. Fails(b)' = Fails(b) /\ Until(b)' = Until(b)
        BY <3>1 DEF Fails, Until
      <4> QED BY <3>1, <3>4, <4>1, LimitSame DEF LimitInv
    <3> QED BY <2>2, <3>1, <3>5 DEF LimitInv
  <2> QED BY <2>1, <2>3, <2>4, <2>5, <2>6 DEF LoginStep
<1> QED BY AuthMoves, <1>2, <1>3, <1>4, <1>5, <1>6, <1>7

\* For any limit, any two times and any interleaving of requests, clock and
\* restarts: of 2 * maxAttempts failed comparisons in a row for one address,
\* the first and the last are blockDur apart or more than failedAuthTTL
\* (authratelimiter.go:75); a tighter bound is not to be had, for a record
\* that expires takes up to maxAttempts - 1 failures with it.
THEOREM GuessesBounded == Spec => []AttemptsBounded
<1>1. Init => SessInv /\ LimitInv
  BY SessInvInit, LimitInvInit
<1>2. SessInv /\ LimitInv /\ [Next]_vars => (SessInv /\ LimitInv)'
  BY SessInvStep, LimitInvStep
<1>3. LimitInv => AttemptsBounded
  <2> SUFFICES ASSUME LimitInv, NEW a \in Addrs, NEW i \in DOMAIN wrong[a],
                      i + 2 * maxAttempts - 1 \in DOMAIN wrong[a]
               PROVE  Apart(wrong[a][i], wrong[a][i + 2 * maxAttempts - 1])
    BY DEF AttemptsBounded, Apart
  <2>1. wrong[a] \in Seq(Nat) /\ Spread(wrong[a])
    BY DEF LimitInv, LimitOf
  <2>2. DOMAIN wrong[a] = 1..Len(wrong[a])
    BY <2>1
  <2> QED BY <2>1, <2>2 DEF Spread
<1> QED BY <1>1, <1>2, <1>3, PTL DEF Spec

----------------------------------------------------------------------------
(* The configuration file. *)

\* The user that the requests to install set.
Installed == Users0(Documents[first])[2][1]

\* How the file, the configuration in memory and the users, which move from
\* one to the other, relate while the program runs: until the users are
\* moved, after it, while requests to install succeed or fail, and after
\* cleanup.
FileInv ==
  /\ installing \in Nat /\ (proc # "up" => installing = 0)
  /\ proc = "parsed" =>
       IF firstRun THEN confFile = NoConf /\ conf["users"] = Arr(<<>>)
       ELSE conf = WithUsers(confFile, Users0(confFile))
  /\ proc = "up" /\ ~firstRun => confFile = WithUsers(conf, memUsers)
  /\ proc = "up" /\ (firstRun \/ installing > 0) =>
       \E us \in Seq({Installed}) :
         /\ memUsers = Arr(us)
         /\ confFile # NoConf =>
              \E k \in 0..Len(us) : confFile = WithUsers(conf, Arr(SubSeq(us, 1, k)))
  /\ proc = "stopping" /\ ~firstRun => \E us : confFile = WithUsers(conf, us)

\* Setting the users changes nothing else, and the last setting counts.
LEMMA UsersFacts ==
  ASSUME NEW c, NEW us, NEW vs
  PROVE  /\ WithUsers(c, us)["users"] = us /\ Users0(WithUsers(c, us)) = us
         /\ WithUsers(WithUsers(c, us), vs) = WithUsers(c, vs)
         /\ Del(WithUsers(c, us), {"users"}) = Del(c, {"users"})
<1>1. ASSUME NEW d, NEW ws
      PROVE  WithUsers(d, ws) = [k \in {"users"} \cup DOMAIN d |-> IF k = "users" THEN ws ELSE d[k]]
  BY DEF WithUsers, Set
<1>2. /\ DOMAIN WithUsers(c, us) = {"users"} \cup DOMAIN c
      /\ \A k \in DOMAIN c : WithUsers(c, us)[k] = IF k = "users" THEN us ELSE c[k]
      /\ WithUsers(c, us)["users"] = us
  BY <1>1
<1>3. WithUsers(WithUsers(c, us), vs) = WithUsers(c, vs)
  <2>1. {"users"} \cup DOMAIN WithUsers(c, us) = {"users"} \cup DOMAIN c
    BY <1>2
  <2>2. \A k \in {"users"} \cup DOMAIN c :
          (IF k = "users" THEN vs ELSE WithUsers(c, us)[k]) = (IF k = "users" THEN vs ELSE c[k])
    BY <1>2
  <2> QED BY <1>1, <2>1, <2>2
<1>4. Del(WithUsers(c, us), {"users"}) = Del(c, {"users"})
  <2>1. (DOMAIN WithUsers(c, us)) \ {"users"} = (DOMAIN c) \ {"users"}
    BY <1>2
  <2>2. \A k \in (DOMAIN c) \ {"users"} : WithUsers(c, us)[k] = c[k]
    BY <1>2
  <2> QED BY <2>1, <2>2 DEF Del
<1> QED BY <1>2, <1>3, <1>4 DEF Users0

\* What a write may do to the file: WritesKeep, for one step.
WriteKeeps ==
  proc # "down" /\ confFile # NoConf /\ confFile' # confFile =>
    /\ Del(confFile', {"users"}) = Del(confFile, {"users"})
    /\ \/ Users0(confFile') = Users0(confFile)
       \/ installing > 0 /\ IsPrefix(Users0(confFile)[2], Users0(confFile')[2])
       \/ proc = "stopping" /\ late'

LEMMA FileInvInit ==
  ASSUME Init
  PROVE  FileInv
BY DEF Init, FileInv

\* The start reads the file, and the users are moved once it has been
\* written (home.go:829).
LEMMA StartKeeps ==
  ASSUME FileInv, Start
  PROVE  FileInv' /\ WriteKeeps
<1>1. proc = "down" /\ UNCHANGED installing /\ installing \in Nat /\ installing = 0
  BY DEF Start, FileInv
<1>2. proc' \in {"down", "parsed"}
  BY DEF Start, parseConfig
<1>3. ASSUME confFile # NoConf, proc' = "parsed"
      PROVE  ~firstRun' /\ conf' = WithUsers(confFile', Users0(confFile'))
  BY <1>3 DEF Start, parseConfig
<1>4. ASSUME confFile = NoConf
      PROVE  firstRun' /\ confFile' = NoConf /\ conf'["users"] = Arr(<<>>)
  <2>1. conf' = WithUsers(Documents[first], Arr(<<>>)) /\ confFile' = confFile /\ firstRun'
    BY <1>4 DEF Start
  <2> QED BY <1>4, <2>1, UsersFacts
<1> QED BY <1>1, <1>2, <1>3, <1>4 DEF FileInv, WriteKeeps

LEMMA initUsersKeeps ==
  ASSUME FileInv, initUsers
  PROVE  FileInv' /\ WriteKeeps
<1>1. /\ proc = "parsed" /\ proc' = "up" /\ UNCHANGED <<firstRun, installing, first, late>>
      /\ memUsers' = conf["users"] /\ conf' = WithUsers(conf, Arr(<<>>))
      /\ confFile' = IF firstRun THEN confFile ELSE conf
      /\ installing = 0
  BY DEF initUsers, FileInv
<1>2. CASE firstRun
  <2>1. confFile' = NoConf /\ confFile = NoConf /\ memUsers' = Arr(<<>>)
    BY <1>1, <1>2 DEF FileInv
  <2>2. <<>> \in Seq({Installed'})
    OBVIOUS
  <2> QED BY <1>1, <1>2, <2>1, <2>2 DEF FileInv, WriteKeeps
<1>3. CASE ~firstRun
  <2>1. conf = WithUsers(confFile, Users0(confFile)) /\ confFile' = conf
    BY <1>1, <1>3 DEF FileInv
  <2>2. conf["users"] = Users0(confFile) /\ WithUsers(conf, Users0(confFile)) = conf
    BY <2>1, UsersFacts
  <2>3. confFile' = WithUsers(conf', memUsers')
    BY <1>1, <2>1, <2>2, UsersFacts
  <2>4. WriteKeeps
    BY <2>1, UsersFacts DEF WriteKeeps
  <2> QED BY <1>1, <1>3, <2>3, <2>4 DEF FileInv
<1> QED BY <1>2, <1>3

\* A write of a program that runs, and one after cleanup.
LEMMA WritesOfUp ==
  ASSUME FileInv, onConfigModified \/ LateWrite
  PROVE  FileInv' /\ WriteKeeps
<1>1. CASE onConfigModified
  <2>1. /\ proc = "up" /\ ~firstRun /\ UNCHANGED <<proc, firstRun, memUsers, installing, first, late>>
        /\ conf' = WithUsers(conf, memUsers) /\ confFile' = conf'
        /\ confFile = WithUsers(conf, memUsers)
    BY <1>1 DEF onConfigModified, write, FileInv
  <2>2. confFile' = WithUsers(conf', memUsers') /\ confFile' = confFile
    BY <2>1, UsersFacts
  <2>3. ASSUME NEW us, confFile = WithUsers(conf, us)
        PROVE  confFile' = WithUsers(conf', us)
    BY <2>1, <2>2, <2>3, UsersFacts
  <2>4. Installed' = Installed
    BY <2>1 DEF Installed
  <2> QED BY <2>1, <2>2, <2>3, <2>4 DEF FileInv, WriteKeeps
<1>2. CASE LateWrite
  <2>1. /\ proc = "stopping" /\ ~firstRun /\ UNCHANGED <<proc, firstRun, memUsers, installing, first>>
        /\ conf' = WithUsers(conf, conf["users"]) /\ confFile' = conf'
        /\ late' = (late \/ conf["users"] # Users0(confFile))
    BY <1>2 DEF LateWrite, write
  <2>2. PICK us : confFile = WithUsers(conf, us)
    BY <2>1 DEF FileInv
  <2>3. confFile' = WithUsers(conf', conf["users"])
    BY <2>1, UsersFacts
  <2>4. /\ Del(confFile', {"users"}) = Del(confFile, {"users"})
        /\ Users0(confFile') = conf["users"]
    BY <2>1, <2>2, UsersFacts
  <2> QED BY <2>1, <2>3, <2>4 DEF FileInv, WriteKeeps
<1> QED BY <1>1, <1>2

\* Requests to install that overlap, of which each may fail after it has
\* added its user.
LEMMA InstallKeeps ==
  ASSUME FileInv, handleInstallConfigure
  PROVE  FileInv' /\ WriteKeeps
<1>1. /\ proc = "up" /\ installing \in Nat /\ installing > 0 /\ installing' = installing - 1
      /\ UNCHANGED <<proc, first>>
      /\ memUsers' = Arr(Append(memUsers[2], Installed))
      /\ \/ ~firstRun' /\ conf' = WithUsers(conf, memUsers') /\ confFile' = conf'
         \/ firstRun' /\ UNCHANGED <<conf, confFile>>
  BY DEF handleInstallConfigure, write, FileInv, Installed
<1>2. PICK us \in Seq({Installed}) :
        /\ memUsers = Arr(us)
        /\ confFile # NoConf => \E k \in 0..Len(us) : confFile = WithUsers(conf, Arr(SubSeq(us, 1, k)))
  BY <1>1 DEF FileInv
<1> DEFINE vs == Append(us, Installed)
<1>3. /\ Installed' = Installed
      /\ vs \in Seq({Installed}) /\ memUsers' = Arr(vs) /\ Len(vs) = Len(us) + 1
      /\ \A k \in 0..Len(us) : SubSeq(vs, 1, k) = SubSeq(us, 1, k)
      /\ SubSeq(vs, 1, Len(vs)) = vs
  <2>1. memUsers[2] = us
    BY <1>2 DEF Arr
  <2>2. vs \in Seq({Installed}) /\ Len(vs) = Len(us) + 1
    OBVIOUS
  <2>3. \A k \in 0..Len(us) : SubSeq(vs, 1, k) = SubSeq(us, 1, k)
    OBVIOUS
  <2>4. SubSeq(vs, 1, Len(vs)) = vs
    <3> HIDE DEF vs
    <3> QED BY <2>2
  <2> QED BY <1>1, <2>1, <2>2, <2>3, <2>4 DEF Installed
<1> HIDE DEF vs
<1>4. CASE ~firstRun' /\ conf' = WithUsers(conf, memUsers') /\ confFile' = conf'
  <2>1. confFile' = WithUsers(conf', memUsers') /\ Len(vs) \in 0..Len(vs)
    BY <1>3, <1>4, UsersFacts
  <2>2. FileInv'
    <3>1. proc' = "up" /\ installing' \in Nat
      BY <1>1
    <3>2. \E k \in 0..Len(vs) : confFile' = WithUsers(conf', Arr(SubSeq(vs, 1, k)))
      BY <1>3, <2>1
    <3> QED BY <1>3, <1>4, <2>1, <3>1, <3>2 DEF FileInv
  <2>3. WriteKeeps
    <3> SUFFICES ASSUME confFile # NoConf
                 PROVE  /\ Del(confFile', {"users"}) = Del(confFile, {"users"})
                        /\ IsPrefix(Users0(confFile)[2], Users0(confFile')[2])
      BY <1>1 DEF WriteKeeps
    <3>1. PICK k \in 0..Len(us) : confFile = WithUsers(conf, Arr(SubSeq(us, 1, k)))
      BY <1>2
    <3>2. /\ Del(confFile', {"users"}) = Del(confFile, {"users"})
          /\ Users0(confFile) = Arr(SubSeq(us, 1, k)) /\ Users0(confFile') = Arr(vs)
      BY <1>3, <1>4, <3>1, UsersFacts
    <3>3. Users0(confFile)[2] = SubSeq(us, 1, k) /\ Users0(confFile')[2] = vs
      BY <3>2 DEF Arr
    <3>4. Len(SubSeq(us, 1, k)) = k /\ SubSeq(SubSeq(us, 1, k), 1, k) = SubSeq(us, 1, k)
      OBVIOUS
    <3>5. IsPrefix(SubSeq(us, 1, k), vs)
      BY <1>3, <3>4 DEF IsPrefix
    <3> QED BY <3>2, <3>3, <3>5
  <2> QED BY <2>2, <2>3
<1>5. CASE firstRun' /\ UNCHANGED <<conf, confFile>>
  <2>1. ASSUME confFile' # NoConf
        PROVE  \E k \in 0..Len(vs) : confFile' = WithUsers(conf', Arr(SubSeq(vs, 1, k)))
    <3>1. PICK k \in 0..Len(us) : confFile = WithUsers(conf, Arr(SubSeq(us, 1, k)))
      BY <1>2, <1>5, <2>1
    <3>2. Len(us) \in Nat /\ k \in 0..Len(vs) /\ SubSeq(vs, 1, k) = SubSeq(us, 1, k)
      BY <1>3, <3>1
    <3>3. confFile' = WithUsers(conf', Arr(SubSeq(vs, 1, k)))
      BY <1>5, <3>1, <3>2
    <3> QED BY <3>2, <3>3
  <2> QED BY <1>1, <1>3, <1>5, <2>1 DEF FileInv, WriteKeeps
<1> QED BY <1>1, <1>4, <1>5

\* Every other step leaves the file to the program that runs, or ends it.
LEMMA FileInvStep ==
  ASSUME FileInv, [Next]_vars
  PROVE  FileInv' /\ WriteKeeps
<1>1. ASSUME UNCHANGED <<proc, firstRun, confFile, conf, memUsers, installing, first>>
      PROVE  FileInv' /\ WriteKeeps
  BY <1>1 DEF FileInv, WriteKeeps, Installed
<1>2. ASSUME proc' \in {"down", "cli", "updating"}, installing' = 0, proc = "down" \/ confFile' = confFile
      PROVE  FileInv' /\ WriteKeeps
  BY <1>2 DEF FileInv, WriteKeeps
<1>3. CASE cmdlineUpdate
  BY <1>2, <1>3 DEF cmdlineUpdate, FileInv
<1>4. CASE preInstall
  <2>1. /\ proc = "up" /\ firstRun /\ installing' = installing + 1 /\ installing \in Nat
        /\ UNCHANGED <<proc, firstRun, confFile, conf, memUsers, first>>
    BY <1>4 DEF preInstall, FileInv
  <2> QED BY <2>1 DEF FileInv, WriteKeeps, Installed
<1>5. CASE HandleSignal \/ finishUpdate
  <2>1. /\ proc = "up" /\ proc' = "stopping" /\ installing' = 0
        /\ UNCHANGED <<firstRun, confFile, conf>>
    BY <1>5 DEF HandleSignal, finishUpdate, cleanup
  <2> QED BY <2>1 DEF FileInv, WriteKeeps
<1>6. CASE Exit \/ Crash
  BY <1>2, <1>6 DEF Exit, Crash, Gone
<1>7. CASE Restore
  BY <1>2, <1>7 DEF Restore, FileInv
<1>8. CASE handleUpdate
  <2>1. \/ UNCHANGED proc
        \/ proc = "cli" /\ proc' = "updating"
    BY <1>8 DEF handleUpdate
  <2> QED BY <1>1, <1>2, <1>8, <2>1 DEF handleUpdate, FileInv
<1>9. CASE \/ \E h \in Handlers, a \in Addrs, u \in Users \cup {NoUser} : handleLogin(h, a, u)
           \/ \E t \in cookies : optionalAuth(t)
           \/ \E h \in Handlers, t \in cookies : handleLogout(h, t)
           \/ \E h \in Handlers : AuthStep(h)
           \/ \E v \in Versions : handleVersionJSON(v)
           \/ Update \/ Tick \/ UNCHANGED vars
  BY <1>1, <1>9 DEF handleLogin, optionalAuth, handleLogout, AuthStep, handleVersionJSON, Update,
                    Tick, HomeSame, vars, homeVars
<1> QED BY <1>3, <1>4, <1>5, <1>6, <1>7, <1>8, <1>9, StartKeeps, initUsersKeeps, WritesOfUp,
           InstallKeeps DEF Next

\* For any files, migrations, versions, users and order of the steps: a
\* running program writes the settings it has read, and every user, into the
\* file (home.go:829, config.go:777), but for a write after cleanup.
THEOREM SettingsWritten == Spec => WritesKeep
<1>1. FileInv /\ [Next]_vars => [WriteKeeps]_vars
  BY FileInvStep
<1>2. Init => FileInv
  BY FileInvInit
<1>3. FileInv /\ [Next]_vars => FileInv'
  BY FileInvStep
<1>4. WritesKeep <=> [][WriteKeeps]_vars
  BY PTL DEF WritesKeep, WriteKeeps
<1> QED BY <1>1, <1>2, <1>3, <1>4, PTL DEF Spec
=============================================================================
