-------------------------------- MODULE Home --------------------------------
(***************************************************************************)
(* The process (internal/home): its start, the configuration file from one *)
(* schema to the next and between memory and disk, the installation, the   *)
(* users, the end by a signal, by an update or by a crash; composed with   *)
(* the sessions (Auth), the self-update (Updater) and the migrations       *)
(* (ConfigMigrate).                                                        *)
(***************************************************************************)
EXTENDS Auth, Updater, ConfigMigrate

CONSTANTS
  NoConf,     \* no configuration file
  SchemaOf,   \* version -> the schema it reads and writes
  Samples,    \* the configuration files to begin with
  Scenarios   \* what happens to which of them: [sample, version, left]

ASSUME HomeAssumption ==
  /\ DOMAIN SchemaOf = Versions
  /\ \A v \in Versions : SchemaOf[v] \in 1..LastSchemaVersion
  /\ \A s \in Scenarios : s.version \in Versions \ Rejecting

VARIABLES
  proc,       \* "down", "parsed", "cli", "updating", "up" or "stopping"
  firstRun,   \* globalContext.firstRun
  confFile,   \* AdGuardHome.yaml, or NoConf
  conf,       \* config, as the document it is encoded to
  memUsers,   \* auth.users
  installing, \* requests to install that have passed preInstall
  first,      \* history: the sample the file began with
  late,       \* history: the file has been written after its users were lost
  left        \* bounds: how often each thing may still happen

homeVars == <<proc, firstRun, confFile, conf, memUsers, installing, first, late, left>>
vars == <<homeVars, authVars, updVars>>

Bounded(k) == left[k] > 0 /\ left' = [left EXCEPT ![k] = @ - 1]

----------------------------------------------------------------------------
(* Documents: "#" in a path is an element of an array. *)

\* The object that has val at path p for each place <<.., p, val>>, built from
\* the places that agree in their first d keys.
Holding(places) ==
  LET at[I \in SUBSET DOMAIN places, d \in Nat] ==
        LET ends == {i \in I : Len(places[i][2]) = d}
            keys == {places[i][2][d + 1] : i \in I \ ends}
        IN IF ends # {} THEN places[Max(ends)][3]
           ELSE IF keys = {"#"} THEN Arr(<<at[I, d + 1]>>)
           ELSE Obj([k \in keys |-> at[{i \in I : places[i][2][d + 1] = k}, d + 1]] @@ Empty)
  IN at[DOMAIN places, 0]

\* The values under key k of a value; "#" is every element of an array.
Under(y, k) ==
  IF k = "#" THEN IF y[1] = "arr" THEN ToSet(y[2]) ELSE {}
  ELSE IF y[1] = "obj" /\ k \in DOMAIN y[2] THEN {y[2][k]} ELSE {}

\* Whether a value has val at path p.
Holds(y, p, val) ==
  val \in FoldLeft(LAMBDA ys, k : UNION {Under(z, k) : z \in ys}, {y}, p)

SchemaVersion(c) == fieldVal(c, "schema_version", "int").v[2]

----------------------------------------------------------------------------
(* Reference: where each setting of the program lives in every schema.  A  *)
(* setting is the sequence of its places <<since which schema, path,       *)
(* value>>; v is what the administrator means.                             *)

Move(paths, val) == [i \in DOMAIN paths |-> <<paths[i][1], paths[i][2], val>>]

QUICPort(u) == IF ~u.comment /\ u.scheme = "quic" /\ u.port = 0 THEN [u EXCEPT !.port = 784] ELSE u
Upstreams(us) == Arr([i \in DOMAIN us |-> Str(us[i])])
Mode(v) == Str(IF v.all THEN "parallel" ELSE IF v.fastest THEN "fastest_addr" ELSE "load_balance")
AtLeastOne(n) == IF n = 0 THEN 1 ELSE n

DNSSettings(v) == <<
  << <<0, <<"dns", "bootstrap_dns">>, Str(v.boot)>>, <<3, <<"dns", "bootstrap_dns", "#">>, Str(v.boot)>> >>,
  Move(<< <<0, <<"dns", "bind_host">>>>, <<8, <<"dns", "bind_hosts", "#">>>> >>, Str(v.host)),
  << <<0, <<"dns", "upstream_dns">>, Upstreams(v.ups)>>,
     <<10, <<"dns", "upstream_dns">>, Upstreams([i \in DOMAIN v.ups |-> QUICPort(v.ups[i])])>> >>,
  Move(<< <<0, <<"dns", "autohost_tld">>>>, <<9, <<"dns", "local_domain_name">>>>,
          <<13, <<"dhcp", "local_domain_name">>>> >>, Str(v.tld)),
  << <<0, <<"dns", "edns_client_subnet">>, Bool(v.ecs)>>,
     <<17, <<"dns", "edns_client_subnet", "enabled">>, Bool(v.ecs)>> >>,
  << <<0, <<"dns", "all_servers">>, Bool(v.all)>>, <<28, <<"dns", "upstream_mode">>, Mode(v)>> >>,
  << <<0, <<"dns", "fastest_addr">>, Bool(v.fastest)>>, <<28, <<"dns", "upstream_mode">>, Mode(v)>> >>,
  Move(<< <<0, <<"dns", "resolve_clients">>>>, <<14, <<"clients", "runtime_sources", "rdns">>>> >>,
       Bool(v.rdns)),
  << <<0, <<"dns", "querylog_interval">>, Num(v.qdays)>>,
     <<12, <<"dns", "querylog_interval">>, Dur(24 * v.qdays)>>,
     <<15, <<"querylog", "interval">>, Dur(24 * v.qdays)>> >>,
  Move(<< <<0, <<"dns", "querylog_enabled">>>>, <<15, <<"querylog", "enabled">>>> >>, Bool(v.qlog)),
  Move(<< <<0, <<"dns", "querylog_file_enabled">>>>, <<15, <<"querylog", "file_enabled">>>> >>,
       Bool(v.qfile)),
  Move(<< <<0, <<"dns", "querylog_size_memory">>>>, <<15, <<"querylog", "size_memory">>>> >>, Num(v.qmem)),
  << <<0, <<"dns", "statistics_interval">>, Num(v.sdays)>>,
     <<16, <<"statistics", "interval">>, Num(AtLeastOne(v.sdays))>>,
     <<20, <<"statistics", "interval">>, Dur(24 * AtLeastOne(v.sdays))>> >>,
  << <<0, <<"dns", "statistics_interval">>, Num(v.sdays)>>,
     <<16, <<"statistics", "enabled">>, Bool(v.sdays # 0)>> >>,
  Move(<< <<0, <<"dns", "safesearch_enabled">>>>, <<18, <<"dns", "safe_search", "enabled">>>>,
          <<26, <<"filtering", "safe_search", "enabled">>>> >>, Bool(v.safe)),
  Move(<< <<0, <<"dns", "blocked_services">>>>, <<21, <<"dns", "blocked_services", "ids">>>>,
          <<26, <<"filtering", "blocked_services", "ids">>>> >>, Arr(v.svcs)),
  Move(<< <<0, <<"dns", "protection_enabled">>>>, <<26, <<"filtering", "protection_enabled">>>> >>,
       Bool(v.prot)),
  Move(<< <<0, <<"dns", "blocking_mode">>>>, <<26, <<"filtering", "blocking_mode">>>> >>, Str(v.mode)),
  Move(<< <<0, <<"dns", "filters_update_interval">>>>, <<26, <<"filtering", "filters_update_interval">>>> >>,
       Num(v.ivl)),
  << <<0, <<"filters", "#", "url">>, Str(v.list)>>,
     IF IsAbs(Str(v.list)) THEN <<29, <<"filtering", "safe_fs_patterns", "#">>, Str(v.list)>>
     ELSE <<29, <<"filters", "#", "url">>, Str(v.list)>> >> >>

ClientSettings(v) == <<
  Move(<< <<0, <<"clients", "#", "name">>>>, <<14, <<"clients", "persistent", "#", "name">>>> >>, Str(v.name)),
  << <<0, <<"clients", "#", "ip">>, Str(v.ip)>>,
     <<6, <<"clients", "#", "ids", "#">>, Str(v.ip)>>,
     <<14, <<"clients", "persistent", "#", "ids", "#">>, Str(v.ip)>> >>,
  << <<0, <<"clients", "#", "mac">>, Str(v.mac)>>,
     <<6, <<"clients", "#", "ids">>, Arr(<<Str(v.ip), Str(v.mac)>>)>>,
     <<14, <<"clients", "persistent", "#", "ids">>, Arr(<<Str(v.ip), Str(v.mac)>>)>> >>,
  Move(<< <<0, <<"clients", "#", "safesearch_enabled">>>>,
          <<14, <<"clients", "persistent", "#", "safesearch_enabled">>>>,
          <<19, <<"clients", "persistent", "#", "safe_search", "enabled">>>> >>, Bool(v.safe)),
  Move(<< <<0, <<"clients", "#", "blocked_services">>>>,
          <<14, <<"clients", "persistent", "#", "blocked_services">>>>,
          <<22, <<"clients", "persistent", "#", "blocked_services", "ids">>>> >>, Arr(v.svcs)) >>

OtherSettings(v) == <<
  Move(<< <<0, <<"rlimit_nofile">>>>, <<11, <<"os", "rlimit_nofile">>>> >>, Num(v.files)),
  << <<0, <<"bind_host">>, Str(v.host)>>, <<23, <<"http", "address">>, Str(<<v.host, v.port>>)>> >>,
  << <<0, <<"bind_port">>, Num(v.port)>>, <<23, <<"http", "address">>, Str(<<v.host, v.port>>)>> >>,
  << <<0, <<"web_session_ttl">>, Num(v.ttl)>>, <<23, <<"http", "session_ttl">>, Dur(v.ttl)>> >>,
  Move(<< <<0, <<"verbose">>>>, <<24, <<"log", "verbose">>>> >>, Bool(v.verbose)),
  Move(<< <<0, <<"log_max_size">>>>, <<24, <<"log", "max_size">>>> >>, Num(v.size)),
  Move(<< <<0, <<"debug_pprof">>>>, <<25, <<"http", "pprof", "enabled">>>> >>, Bool(v.pprof)),
  << <<0, <<"filters", "#", "url">>, Str(v.list)>> >>,
  Move(<< <<0, <<"dhcp", "gateway_ip">>>>, <<7, <<"dhcp", "dhcpv4", "gateway_ip">>>> >>, Str(v.gw)),
  Move(<< <<0, <<"dhcp", "lease_duration">>>>, <<7, <<"dhcp", "dhcpv4", "lease_duration">>>> >>, Num(v.lease)),
  << <<15, <<"querylog", "ignored", "#">>, Str(v.ign)>>,
     <<27, <<"querylog", "ignored", "#">>, Str(IF v.ign = "." THEN "|.^" ELSE v.ign)>> >>,
  << <<16, <<"statistics", "ignored", "#">>, Str(v.ign)>>,
     <<27, <<"statistics", "ignored", "#">>, Str(IF v.ign = "." THEN "|.^" ELSE v.ign)>> >>,
  << <<0, <<"tls", "enabled">>, Bool(v.tls)>> >>,
  << <<0, <<"tls", "port_https">>, Num(v.https)>> >> >>

UserSettings(v) == <<
  << <<0, <<"auth_name">>, Str(v.name)>>, <<5, <<"users", "#", "name">>, Str(v.name)>> >>,
  << <<0, <<"auth_pass">>, Str(v.pass)>>, <<5, <<"users", "#", "password">>, Str(<<"bcrypt", v.pass>>)>> >> >>

\* The settings of the parts a sample has; the DNS part was once called
\* coredns.
SettingsOf(s) ==
  FoldLeft(LAMBDA all, part : all \o
             (CASE part = "dns" -> DNSSettings(s.v) [] part = "clients" -> ClientSettings(s.v)
                [] part = "users" -> UserSettings(s.v) [] part = "other" -> OtherSettings(s.v)),
           <<>>, s.parts)

Place(setting, n) ==
  LET places == SelectSeq(setting, LAMBDA p : p[1] <= n)
      last   == Last(places)
  IN IF n < 2 /\ last[2][1] = "dns" THEN <<last[1], <<"coredns">> \o Tail(last[2]), last[3]>> ELSE last

\* The places, in schema n, of the settings that sample s had at the start.
PlacesIn(s, n) ==
  LET had == SelectSeq(SettingsOf(s), LAMBDA setting : setting[1][1] <= s.n)
  IN [i \in DOMAIN had |-> Place(had[i], n)] @@ <<>>

\* Parts of the file that are not what they should be.
Odd(s, c) ==
  CASE s.odd = "none"      -> c
    [] s.odd = "nulldns"   -> Set(c, "dns", Nil)
    [] s.odd = "stringdns" -> Set(c, "dns", Str("dns"))
    [] s.odd = "nulldhcp"  -> Set(c, "dhcp", Nil)
    [] s.odd = "noschema"  -> Set(c, "schema_version", Str("x"))
    [] s.odd = "newer"     -> Set(c, "schema_version", Num(LastSchemaVersion + 1))
    [] s.odd = "negative"  -> Set(c, "schema_version", Num(-1))

Document(s) ==
  LET c == Holding(PlacesIn(s, s.n))[2]
  IN Odd(s, IF s.n = 0 THEN c ELSE Ver(c, s.n))

Documents == [i \in DOMAIN Samples |-> Document(Samples[i])] @@ <<>>

\* Per sample, and per schema from its own on: where its settings are.
Required ==
  [i \in DOMAIN Samples |->
     [n \in Samples[i].n..LastSchemaVersion |-> PlacesIn(Samples[i], n)] @@ None] @@ <<>>

----------------------------------------------------------------------------

Users0(c) == IF "users" \in DOMAIN c THEN c["users"] ELSE Arr(<<>>)
WithUsers(c, us) == Set(c, "users", us)

\* Init: a file, or none when the sample is one to be installed.
Init ==
  \E s \in Scenarios :
    /\ first = s.sample /\ left = s.left
    /\ confFile = IF Samples[first].fresh THEN NoConf ELSE Documents[first]
    /\ UpdInit(s.version)
    /\ proc = "down" /\ firstRun = FALSE /\ conf = NoConf
    /\ memUsers = Arr(<<>>) /\ installing = 0 /\ late = FALSE
    /\ AuthInit

\* Two ports of the web interface must differ.
validateConfig(c) ==
  ~ /\ Holds(Obj(c), <<"tls", "enabled">>, Bool(TRUE))
    /\ Holds(Obj(c), <<"tls", "port_https">>, Num(c["http"][2]["address"][2][2]))

\* setupContext: without a file this is the first run; parseConfig migrates
\* the file, replaces it, and only then validates it.  An error ends the
\* program.
parseConfig ==
  \E m \in {Migrate(confFile, SchemaOf[exe.v])} :
    IF m.err THEN proc' = "down" /\ UNCHANGED <<confFile, conf>>
    ELSE /\ confFile' = m.conf
         /\ IF validateConfig(m.conf)
            THEN proc' = "parsed" /\ conf' = WithUsers(m.conf, Users0(m.conf))
            ELSE proc' = "down" /\ UNCHANGED conf

Start ==
  /\ proc = "down" /\ exe.whole /\ Bounded("starts")
  /\ UpdStart
  /\ firstRun' = (confFile = NoConf)
  /\ IF confFile # NoConf THEN parseConfig
     ELSE /\ proc' = "parsed"
          /\ conf' = WithUsers(Documents[first], Arr(<<>>))
          /\ UNCHANGED confFile
  /\ UNCHANGED <<authVars, memUsers, installing, first, late>>

\* cmdlineUpdate: the program updates itself and exits, whatever comes of it.
cmdlineUpdate ==
  /\ proc = "parsed" /\ left.clis > 0
  /\ Bounded("clis")
  /\ proc' = "cli"
  /\ UNCHANGED <<authVars, updVars, firstRun, confFile, conf, memUsers, installing, first, late>>

\* The rest of run: the file is written once more, then initUsers moves the
\* users from the configuration to the authentication module.
initUsers ==
  /\ proc = "parsed"
  /\ confFile' = IF firstRun THEN confFile ELSE conf
  /\ InitAuth
  /\ memUsers' = conf["users"]
  /\ conf' = WithUsers(conf, Arr(<<>>))
  /\ proc' = "up"
  /\ UNCHANGED <<updVars, firstRun, installing, first, late, left>>

\* onConfigModified and configuration.write: with an authentication module
\* its users are written, without one those of the configuration.
write(c, us) == /\ conf' = WithUsers(c, us) /\ confFile' = conf'

onConfigModified ==
  /\ proc = "up" /\ ~firstRun
  /\ write(conf, memUsers)
  /\ UNCHANGED <<authVars, updVars, proc, firstRun, memUsers, installing, first, late, left>>

\* A handler or a goroutine that saves after cleanup has dropped the
\* authentication module (enableProtectionAfterPause, a refresh of a list).
LateWrite ==
  /\ proc = "stopping" /\ ~firstRun
  /\ write(conf, conf["users"])
  /\ late' = (late \/ conf["users"] # Users0(confFile))
  /\ UNCHANGED <<authVars, updVars, proc, firstRun, memUsers, installing, first, left>>

\* controlLock is held by every handler that modifies data, all through.
controlLockFree == ~LoggingIn /\ ~(upd.pc # "idle" /\ upd.from = "http")

\* preInstall is passed before controlLock is taken.
preInstall ==
  /\ proc = "up" /\ firstRun /\ Bounded("installs")
  /\ installing' = installing + 1
  /\ UNCHANGED <<authVars, updVars, proc, firstRun, confFile, conf, memUsers, first, late>>

\* handleInstallConfigure.  When startMods or the write fails it is the first
\* run again, but the user stays.
handleInstallConfigure ==
  /\ proc = "up" /\ installing > 0 /\ controlLockFree
  /\ installing' = installing - 1
  /\ memUsers' = Arr(Append(memUsers[2], Users0(Documents[first])[2][1]))
  /\ \/ firstRun' = FALSE /\ write(conf, memUsers')
     \/ firstRun' = TRUE /\ UNCHANGED <<conf, confFile>>
  /\ UNCHANGED <<authVars, updVars, proc, first, late, left>>

----------------------------------------------------------------------------
(* Requests. *)

HomeSame == UNCHANGED <<proc, firstRun, confFile, conf, memUsers, installing, first, late>>

handleLogin(h, a, u) ==
  /\ proc = "up" /\ ~firstRun /\ controlLockFree
  /\ u \in Users => memUsers # Arr(<<>>)
  /\ LoginCheck(h, a, u)
  /\ Bounded("logins") /\ HomeSame /\ UNCHANGED updVars

optionalAuth(t) ==
  /\ proc = "up" /\ ~firstRun /\ AuthRequest(t)
  /\ Bounded("reqs") /\ HomeSame /\ UNCHANGED updVars

handleLogout(h, t) ==
  /\ proc = "up" /\ ~firstRun /\ LogoutBegin(h, t)
  /\ Bounded("reqs") /\ HomeSame /\ UNCHANGED updVars

AuthStep(h) ==
  /\ proc = "up" /\ (LoginStep(h) \/ LogoutStep(h))
  /\ HomeSame /\ UNCHANGED <<updVars, left>>

\* The announcement is asked for again by handleVersionJSON, which has no
\* controlLock, and by cmdlineUpdate.
handleVersionJSON(v) ==
  /\ (proc = "up" /\ ~firstRun) \/ proc = "cli"
  /\ VersionInfo(v)
  /\ Bounded("infos") /\ HomeSame /\ UNCHANGED authVars

\* cmdlineUpdate calls Update once and exits.
handleUpdate ==
  /\ \/ /\ proc = "up" /\ ~firstRun /\ controlLockFree /\ UpdateBegin("http", FALSE)
        /\ UNCHANGED proc
     \/ proc = "cli" /\ UpdateBegin("cli", firstRun) /\ proc' = "updating"
  /\ Bounded("updates")
  /\ UNCHANGED <<authVars, firstRun, confFile, conf, memUsers, installing, first, late>>

\* Update goes on while cleanup closes everything else.
Update ==
  /\ proc \in {"updating", "up", "stopping"} /\ UpdStep(confFile)
  /\ HomeSame /\ UNCHANGED <<authVars, left>>

Tick == AuthTick /\ Bounded("ticks") /\ HomeSame /\ UNCHANGED updVars

----------------------------------------------------------------------------
(* The end of the process. *)

\* cleanup, for a signal or from finishUpdate: the web server waits for its
\* handlers no longer than five seconds, and the authentication module is
\* gone.
cleanup ==
  /\ proc = "up"
  /\ proc' = "stopping" /\ memUsers' = Arr(<<>>) /\ installing' = 0
  /\ AuthDown
  /\ UNCHANGED <<updVars, firstRun, confFile, conf, first, late>>

HandleSignal == cleanup /\ Bounded("stops")
finishUpdate == finishing /\ cleanup /\ UNCHANGED left

Gone ==
  /\ proc' = "down" /\ conf' = NoConf /\ memUsers' = Arr(<<>>) /\ installing' = 0
  /\ AuthDown /\ UpdDown
  /\ UNCHANGED <<firstRun, confFile, first, late>>

Exit ==
  /\ proc \in {"stopping", "cli"} \/ (proc = "updating" /\ upd.pc = "idle")
  /\ Gone /\ UNCHANGED left

Crash == proc # "down" /\ Gone /\ Bounded("crashes")

\* The administrator copies agh-backup back, with the configuration or not.
Restore ==
  /\ proc = "down" /\ backupExe.whole /\ Bounded("restores")
  /\ exe' = backupExe
  /\ confFile' \in {confFile} \cup ({backupConf} \ {NoVersion})
  /\ UNCHANGED <<running, backupExe, updateExe, helpFile, updateHelp, backupHelp, newVersion,
                 packageURL, upd, unpackedFiles, backupConf, finishing, unchecked, updFaults,
                 authVars, proc, firstRun, conf, memUsers, installing, first, late>>

Next ==
  \/ Start \/ cmdlineUpdate \/ initUsers \/ onConfigModified \/ LateWrite
  \/ preInstall \/ handleInstallConfigure
  \/ \E h \in Handlers, a \in Addrs, u \in Users \cup {NoUser} : handleLogin(h, a, u)
  \/ \E t \in cookies : optionalAuth(t)
  \/ \E h \in Handlers, t \in cookies : handleLogout(h, t)
  \/ \E h \in Handlers : AuthStep(h)
  \/ \E v \in Versions : handleVersionJSON(v)
  \/ handleUpdate \/ Update \/ Tick
  \/ HandleSignal \/ finishUpdate \/ Exit \/ Crash \/ Restore

Spec == Init /\ [][Next]_vars

----------------------------------------------------------------------------
(* Properties. *)

\* Every setting of the file the program began with is in the file, where the
\* schema of the file has it and with the value it must have there, after
\* any migrations, updates, restores of the backup, signals and crashes; a
\* file that cannot be migrated is left as it is.  The one exception is a
\* write after cleanup, which loses the users (home.go:829, config.go:777).
SettingsKept ==
  confFile = NoConf \/ late \/ confFile = Documents[first]
  \/ LET places == Required[first][SchemaVersion(confFile)]
     IN \A i \in DOMAIN places : Holds(Obj(confFile), places[i][2], places[i][3])

\* A running program never writes other settings than those of the file it
\* has read, whatever it moves between its parts on the way and whoever
\* writes first, and drops no user, but for a write after cleanup; requests
\* to install that overlap only add users (home.go:829, config.go:777).
WritesKeep ==
  [][proc # "down" /\ confFile # NoConf /\ confFile' # confFile =>
       /\ Del(confFile', {"users"}) = Del(confFile, {"users"})
       /\ \/ Users0(confFile') = Users0(confFile)
          \/ installing > 0 /\ IsPrefix(Users0(confFile)[2], Users0(confFile')[2])
          \/ proc = "stopping" /\ late']_vars
=============================================================================
