--------------------------- MODULE ConfigMigrate ---------------------------
(***************************************************************************)
(* The migrations of the configuration file (internal/configmigrate).      *)
(*                                                                         *)
(* A YAML value is a pair of its type and what it holds; a YAML object is  *)
(* a function from keys to values, an array a sequence of values, and a    *)
(* null is of no type.  A migration takes the root object and returns the  *)
(* changed one, or an error: then the caller keeps the file as it was.     *)
(***************************************************************************)
EXTENDS Naturals, Integers, Sequences, SequencesExt, FiniteSets, TLC

Nil     == <<"nil">>
Num(n)  == <<"int", n>>
Str(s)  == <<"str", s>>
Bool(b) == <<"bool", b>>
Dur(d)  == <<"dur", d>>     \* a timeutil.Duration, in hours
Arr(s)  == <<"arr", s>>
Obj(o)  == <<"obj", o>>

Empty == [k \in {} |-> Nil]

LastSchemaVersion == 29

\* The zero value of a Go type.
Zero(T) ==
  CASE T = "int" -> Num(0)  [] T = "str" -> Str("")  [] T = "bool" -> Bool(FALSE)
    [] T = "arr" -> Arr(<<>>) [] T = "obj" -> Obj(Empty) [] T = "any" -> Nil

\* The value at a key if it has type T; a null is the zero value of T, and a
\* value of another type is an error.
fieldVal(o, k, T) ==
  LET present == k \in DOMAIN o
      null    == present /\ o[k] = Nil
      typed   == present /\ (T = "any" \/ o[k][1] = T)
  IN [ok   |-> null \/ typed,
      err  |-> present /\ ~null /\ ~typed,
      null |-> null,
      v    |-> IF typed THEN o[k] ELSE Zero(T)]

Set(o, k, v) == [key \in {k} \cup DOMAIN o |-> IF key = k THEN v ELSE o[key]]
Del(o, ks)   == [k \in DOMAIN o \ ks |-> o[k]]

\* moveVal for several fields <<source key, destination key, type>> of src,
\* joined with errors.Join: every field that can be moved is.
moveVals(src, dst, fields) ==
  LET moved == {f \in fields : fieldVal(src, f[1], f[3]).ok}
      from(k) == CHOOSE f \in moved : f[2] = k
  IN [src |-> Del(src, {f[1] : f \in moved}),
      dst |-> [k \in {f[2] : f \in moved} |-> fieldVal(src, from(k)[1], from(k)[3]).v] @@ dst,
      err |-> \E f \in fields : fieldVal(src, f[1], f[3]).err]

moveSame(src, dst, keys, T) == moveVals(src, dst, {<<k, k, T>> : k \in keys})

Good(c) == [conf |-> c, err |-> FALSE]
Fail(c) == [conf |-> c, err |-> TRUE]

\* Changes the object at key k with Op, which returns the object and whether
\* it failed; nothing happens when there is none.  Writing an entry into a
\* null object is a panic, which ends the program as an error does.
InObj(c, k, Op(_)) ==
  LET f == fieldVal(c, k, "obj")
      r == Op(f.v[2])
  IN IF ~f.ok THEN [conf |-> c, err |-> f.err]
     ELSE IF r.err \/ (f.null /\ r.conf # Empty) THEN Fail(c)
     ELSE IF f.null THEN Good(c)
     ELSE Good(Set(c, k, Obj(r.conf)))

\* Changes every element of the array at key k with Op.
InArr(c, k, Op(_)) ==
  LET f == fieldVal(c, k, "arr")
      r == [i \in DOMAIN f.v[2] |-> Op(f.v[2][i])]
  IN IF ~f.ok THEN [conf |-> c, err |-> f.err]
     ELSE IF \E i \in DOMAIN r : r[i].err THEN Fail(c)
     ELSE IF f.null THEN Good(c)
     ELSE Good(Set(c, k, Arr([i \in DOMAIN r |-> r[i].conf])))

Ver(c, n) == Set(c, "schema_version", Num(n))

\* The first two also delete files that the program no longer reads,
\* dnsfilter.txt and Corefile; a failure to do so is logged.
migrateTo1(c) == Good(Ver(c, 1))

migrateTo2(c) ==
  LET m == moveVals(c, Empty, {<<"coredns", "dns", "any">>})
  IN Good(m.dst @@ Ver(m.src, 2))

migrateTo3(c) ==
  InObj(Ver(c, 3), "dns", LAMBDA dns :
    LET b == fieldVal(dns, "bootstrap_dns", "any")
    IN Good(IF b.ok THEN Set(dns, "bootstrap_dns", Arr(<<b.v>>)) ELSE dns))

migrateTo4(c) ==
  LET r == InArr(Ver(c, 4), "clients", LAMBDA cl :
             Good(IF cl[1] = "obj"
                  THEN Obj(Set(cl[2], "use_global_blocked_services", Bool(TRUE)))
                  ELSE cl))
  IN Good(r.conf)

\* The name is moved before the password is looked at.
migrateTo5(c) ==
  LET m    == moveVals(Ver(c, 5), Empty, {<<"auth_name", "name", "str">>})
      pass == fieldVal(m.src, "auth_pass", "str")
      user == Set(m.dst, "password", Str(<<"bcrypt", pass.v[2]>>))
  IN IF m.err THEN Fail(c)
     ELSE IF ~pass.ok THEN [conf |-> m.src, err |-> pass.err]
     ELSE Good(Set(Del(m.src, {"auth_pass"}), "users", Arr(<<Obj(user)>>)))

migrateTo6(c) ==
  InArr(Ver(c, 6), "clients", LAMBDA cl :
    LET id(k) == fieldVal(cl[2], k, "str")
        ids   == SelectSeq(<<id("ip").v, id("mac").v>>, LAMBDA v : v # Str(""))
    IN IF cl[1] # "obj" THEN Fail(cl)
       ELSE IF id("ip").err \/ id("mac").err THEN Fail(cl)
       ELSE Good(Obj(Set(cl[2], "ids", Arr(ids)))))

migrateTo7(c) ==
  LET dhcp == fieldVal(c, "dhcp", "obj")
      v4   == moveSame(dhcp.v[2], Empty,
                {"gateway_ip", "subnet_mask", "range_start", "range_end"}, "str")
      v4i  == moveSame(v4.src, v4.dst, {"lease_duration", "icmp_timeout_msec"}, "int")
  IN IF dhcp.err THEN Good(Ver(c, 7))
     ELSE InObj(Ver(c, 7), "dhcp", LAMBDA o :
            [conf |-> Set(v4i.src, "dhcpv4", Obj(v4i.dst)), err |-> v4.err \/ v4i.err])

migrateTo8(c) ==
  InObj(Ver(c, 8), "dns", LAMBDA dns :
    LET h == fieldVal(dns, "bind_host", "str")
    IN IF ~h.ok THEN [conf |-> dns, err |-> h.err]
       ELSE Good(Set(Del(dns, {"bind_host"}), "bind_hosts", Arr(<<h.v>>))))

migrateTo9(c) ==
  InObj(Ver(c, 9), "dns", LAMBDA dns :
    LET m == moveVals(dns, Empty, {<<"autohost_tld", "local_domain_name", "str">>})
    IN [conf |-> m.dst @@ m.src, err |-> m.err])

\* An upstream is a record: whether it is a comment or empty, limited to
\* domains, its scheme and its port, 0 for none.  A QUIC upstream without a
\* port gets one.
addQUICPort(u, port) ==
  IF ~u.comment /\ u.scheme = "quic" /\ u.port = 0 THEN [u EXCEPT !.port = port] ELSE u

addQUICPorts(o, k) ==
  InArr(o, k, LAMBDA u : IF u[1] # "str" THEN Fail(u) ELSE Good(Str(addQUICPort(u[2], 784))))

migrateTo10(c) ==
  InObj(Ver(c, 10), "dns", LAMBDA dns :
    LET r == addQUICPorts(dns, "upstream_dns")
    IN IF r.err THEN r ELSE addQUICPorts(r.conf, "local_ptr_upstreams"))

migrateTo11(c) ==
  LET r == fieldVal(c, "rlimit_nofile", "int")
  IN IF r.err THEN Fail(c)
     ELSE Good(Set(Del(Ver(c, 11), {"rlimit_nofile"}), "os",
            Obj("group" :> Str("") @@ "rlimit_nofile" :> r.v @@ "user" :> Str(""))))

migrateTo12(c) ==
  InObj(Ver(c, 12), "dns", LAMBDA dns :
    LET i    == fieldVal(dns, "querylog_interval", "int")
        days == IF i.ok THEN i.v[2] ELSE 90
    IN IF i.err THEN Fail(dns) ELSE Good(Set(dns, "querylog_interval", Dur(24 * days))))

migrateTo13(c) ==
  LET dns  == fieldVal(c, "dns", "obj")
      dhcp == fieldVal(c, "dhcp", "obj")
      m    == moveSame(dns.v[2], dhcp.v[2], {"local_domain_name"}, "str")
  IN IF ~dns.ok THEN [conf |-> Ver(c, 13), err |-> dns.err]
     ELSE IF ~dhcp.ok THEN [conf |-> Ver(c, 13), err |-> dhcp.err]
     ELSE IF m.err \/ (dhcp.null /\ m.dst # Empty) THEN Fail(c)
     ELSE IF m.src = dns.v[2] THEN Good(Ver(c, 13))
     ELSE Good(Set(Set(Ver(c, 13), "dns", Obj(m.src)), "dhcp", Obj(m.dst)))

migrateTo14(c) ==
  LET clients == fieldVal(c, "clients", "arr")
      dns     == fieldVal(c, "dns", "obj")
      sources == [k \in {"whois", "arp", "rdns", "dhcp", "hosts"} |-> Bool(k # "rdns")]
      m       == moveVals(dns.v[2], sources, {<<"resolve_clients", "rdns", "bool">>})
      with(o) == Set(Ver(c, 14), "clients",
                   Obj("persistent" :> clients.v @@ "runtime_sources" :> Obj(o)))
  IN IF clients.err \/ dns.err \/ m.err THEN Fail(c)
     ELSE IF ~dns.ok \/ dns.null THEN Good(with(sources))
     ELSE Good(Set(with(m.dst), "dns", Obj(m.src)))

migrateTo15(c) ==
  LET dns  == fieldVal(c, "dns", "obj")
      qlog == "ignored" :> Arr(<<>>) @@ "enabled" :> Bool(TRUE) @@ "file_enabled" :> Bool(TRUE)
                @@ "interval" :> Dur(2160) @@ "size_memory" :> Num(1000)
      m    == moveVals(dns.v[2], qlog,
                {<<"querylog_enabled", "enabled", "bool">>,
                 <<"querylog_file_enabled", "file_enabled", "bool">>,
                 <<"querylog_interval", "interval", "any">>,
                 <<"querylog_size_memory", "size_memory", "int">>})
  IN IF ~dns.ok THEN [conf |-> Ver(c, 15), err |-> dns.err]
     ELSE IF m.err THEN Fail(c)
     ELSE Good(Set(IF dns.null THEN Ver(c, 15) ELSE Set(Ver(c, 15), "dns", Obj(m.src)),
                   "querylog", Obj(m.dst)))

migrateTo16(c) ==
  LET dns   == fieldVal(c, "dns", "obj")
      ivl   == fieldVal(dns.v[2], "statistics_interval", "int")
      off   == ivl.ok /\ ivl.v = Num(0)
      stats == "enabled" :> Bool(~off) @@ "ignored" :> Arr(<<>>)
                 @@ "interval" :> (IF ivl.ok /\ ~off THEN ivl.v ELSE Num(1))
  IN IF ~dns.ok THEN [conf |-> Ver(c, 16), err |-> dns.err]
     ELSE IF ivl.err THEN Fail(c)
     ELSE Good(Set(IF ivl.ok THEN Set(Ver(c, 16), "dns", Obj(Del(dns.v[2], {"statistics_interval"})))
                             ELSE Ver(c, 16),
                   "statistics", Obj(stats)))

\* Mutant: the object takes the place of the switch before it is read.
SubnetSwitchedOff(c) ==
  InObj(Ver(c, 17), "dns", LAMBDA dns :
    Good(Set(dns, "edns_client_subnet",
           Obj("enabled" :> Bool(FALSE) @@ "use_custom" :> Bool(FALSE) @@ "custom_ip" :> Str("")))))

migrateTo17(c) ==
  InObj(Ver(c, 17), "dns", LAMBDA dns :
    Good(Set(dns, "edns_client_subnet",
           Obj("enabled" :> fieldVal(dns, "edns_client_subnet", "bool").v
                 @@ "use_custom" :> Bool(FALSE) @@ "custom_ip" :> Str("")))))

\* Safe search with every service on, and the old switch moved into it.
Engines == {"enabled", "bing", "duckduckgo", "google", "pixabay", "yandex", "youtube"}
WithSafeSearch(o) ==
  LET m == moveVals(o, [k \in Engines |-> Bool(TRUE)], {<<"safesearch_enabled", "enabled", "bool">>})
  IN [conf |-> Set(m.src, "safe_search", Obj(m.dst)), err |-> m.err]

migrateTo18(c) == InObj(Ver(c, 18), "dns", WithSafeSearch)

\* A switch of another type is logged, not an error.
migrateTo19(c) ==
  InObj(Ver(c, 19), "clients", LAMBDA cs :
    LET r == InArr(cs, "persistent", LAMBDA cl :
               Good(IF cl[1] = "obj" THEN Obj(WithSafeSearch(cl[2]).conf) ELSE cl))
    IN Good(r.conf))

migrateTo20(c) ==
  InObj(Ver(c, 20), "statistics", LAMBDA st :
    LET i == fieldVal(st, "interval", "int")
        d == IF ~i.ok \/ i.v = Num(0) THEN 1 ELSE i.v[2]
    IN IF i.err THEN Fail(st) ELSE Good(Set(st, "interval", Dur(24 * d))))

Schedule == "schedule" :> Obj("time_zone" :> Str("Local"))

migrateTo21(c) ==
  InObj(Ver(c, 21), "dns", LAMBDA dns :
    LET m == moveVals(dns, Schedule, {<<"blocked_services", "ids", "arr">>})
    IN [conf |-> Set(m.src, "blocked_services", Obj(m.dst)), err |-> m.err])

migrateTo22(c) ==
  InObj(Ver(c, 22), "clients", LAMBDA cs :
    InArr(cs, "persistent", LAMBDA cl :
      LET s == fieldVal(cl[2], "blocked_services", "arr")
      IN IF cl[1] # "obj" THEN Fail(cl)
         ELSE IF s.err THEN Fail(cl)
         ELSE IF ~s.ok THEN Good(cl)
         ELSE Good(Obj(Set(cl[2], "blocked_services", Obj("ids" :> s.v @@ Schedule))))))

\* The port is cut to 16 bits.
migrateTo23(c) ==
  LET host == fieldVal(c, "bind_host", "str")
      port == fieldVal(c, "bind_port", "int")
      ttl  == fieldVal(c, "web_session_ttl", "int")
      http == "address" :> Str(<<host.v[2], port.v[2] % 65536>>) @@ "session_ttl" :> Dur(ttl.v[2])
  IN IF ~host.ok THEN [conf |-> Ver(c, 23), err |-> host.err]
     ELSE IF host.v = Str("") \/ port.err \/ ttl.err THEN Fail(c)
     ELSE Good(Set(Del(Ver(c, 23), {"bind_host", "bind_port", "web_session_ttl"}), "http", Obj(http)))

migrateTo24(c) ==
  LET m == moveVals(Ver(c, 24), Empty,
             {<<"log_file", "file", "str">>, <<"log_max_backups", "max_backups", "int">>,
              <<"log_max_size", "max_size", "int">>, <<"log_max_age", "max_age", "int">>,
              <<"log_compress", "compress", "bool">>, <<"log_localtime", "local_time", "bool">>,
              <<"verbose", "verbose", "bool">>})
  IN IF m.err THEN Fail(c)
     ELSE Good(IF m.dst = Empty THEN m.src ELSE Set(m.src, "log", Obj(m.dst)))

migrateTo25(c) ==
  LET http == fieldVal(c, "http", "obj")
      m    == moveVals(Ver(c, 25), "enabled" :> Bool(FALSE) @@ "port" :> Num(6060),
                {<<"debug_pprof", "enabled", "bool">>})
  IN IF ~http.ok THEN [conf |-> Ver(c, 25), err |-> http.err]
     ELSE IF m.err \/ http.null THEN Fail(c)
     ELSE Good(Set(m.src, "http", Obj(Set(http.v[2], "pprof", Obj(m.dst)))))

FilteringFields ==
  {<<k, k, "bool">> : k \in {"filtering_enabled", "parental_enabled", "safebrowsing_enabled",
                             "protection_enabled"}}
    \cup {<<k, k, "int">> : k \in {"filters_update_interval", "safebrowsing_cache_size",
            "safesearch_cache_size", "parental_cache_size", "blocked_response_ttl"}}
    \cup {<<k, k, "str">> : k \in {"blocking_mode", "blocking_ipv4", "blocking_ipv6",
            "parental_block_host", "safebrowsing_block_host"}}
    \cup {<<"safe_search", "safe_search", "obj">>, <<"rewrites", "rewrites", "arr">>,
          <<"blocked_services", "blocked_services", "obj">>,
          <<"protection_disabled_until", "protection_disabled_until", "any">>}

migrateTo26(c) ==
  LET dns == fieldVal(c, "dns", "obj")
      m   == moveVals(dns.v[2], Empty, FilteringFields)
  IN IF ~dns.ok THEN [conf |-> Ver(c, 26), err |-> dns.err]
     ELSE IF m.err THEN Fail(c)
     ELSE Good(IF m.dst = Empty THEN Ver(c, 26)
               ELSE Set(Set(Ver(c, 26), "dns", Obj(m.src)), "filtering", Obj(m.dst)))

replaceDot(c, key) ==
  InObj(c, key, LAMBDA o :
    InArr(o, "ignored", LAMBDA h : Good(IF h = Str(".") THEN Str("|.^") ELSE h)))

migrateTo27(c) ==
  LET r == replaceDot(Ver(c, 27), "querylog")
  IN IF r.err THEN r ELSE replaceDot(r.conf, "statistics")

migrateTo28(c) ==
  InObj(Ver(c, 28), "dns", LAMBDA dns :
    LET set(k) == fieldVal(dns, k, "bool").v = Bool(TRUE)
        mode   == CASE set("all_servers") -> "parallel"
                    [] ~set("all_servers") /\ set("fastest_addr") -> "fastest_addr"
                    [] OTHER -> "load_balance"
    IN Good(Set(Del(dns, {"all_servers", "fastest_addr"}), "upstream_mode", Str(mode))))

\* A source is an absolute path or an address; the directory of the user's
\* own lists is always allowed.
IsAbs(u) == u \in {Str("/lists/a.txt"), Str("/lists/b.txt")}

migrateTo29(c) ==
  LET fs    == fieldVal(c, "filters", "arr")
      urls  == [i \in DOMAIN fs.v[2] |->
                 IF fs.v[2][i][1] = "obj" THEN fieldVal(fs.v[2][i][2], "url", "str").v ELSE Nil]
      paths == <<Str("/data/userfilters/*")>> \o SelectSeq(urls, IsAbs)
  IN IF ~fs.ok THEN [conf |-> Ver(c, 29), err |-> fs.err]
     ELSE IF \E i \in DOMAIN urls : urls[i] = Nil THEN Fail(c)
     ELSE InObj(Ver(c, 29), "filtering", LAMBDA o : Good(Set(o, "safe_fs_patterns", Arr(paths))))

\* One step of the chain.
MigrateStep(n, c) ==
  CASE n = 1 -> migrateTo1(c)   [] n = 2 -> migrateTo2(c)   [] n = 3 -> migrateTo3(c)
    [] n = 4 -> migrateTo4(c)   [] n = 5 -> migrateTo5(c)   [] n = 6 -> migrateTo6(c)
    [] n = 7 -> migrateTo7(c)   [] n = 8 -> migrateTo8(c)   [] n = 9 -> migrateTo9(c)
    [] n = 10 -> migrateTo10(c) [] n = 11 -> migrateTo11(c) [] n = 12 -> migrateTo12(c)
    [] n = 13 -> migrateTo13(c) [] n = 14 -> migrateTo14(c) [] n = 15 -> migrateTo15(c)
    [] n = 16 -> migrateTo16(c) [] n = 17 -> migrateTo17(c) [] n = 18 -> migrateTo18(c)
    [] n = 19 -> migrateTo19(c) [] n = 20 -> migrateTo20(c) [] n = 21 -> migrateTo21(c)
    [] n = 22 -> migrateTo22(c) [] n = 23 -> migrateTo23(c) [] n = 24 -> migrateTo24(c)
    [] n = 25 -> migrateTo25(c) [] n = 26 -> migrateTo26(c) [] n = 27 -> migrateTo27(c)
    [] n = 28 -> migrateTo28(c) [] n = 29 -> migrateTo29(c)

upgradeConfigSchema(current, target, c) ==
  FoldLeft(LAMBDA r, n : IF r.err THEN r ELSE MigrateStep(n, r.conf),
           Good(c), [i \in 1..(target - current) |-> current + i])

\* uint(currentInt): a negative version is larger than every known one.
validateVersion(current, target) ==
  current >= 0 /\ current <= target /\ target <= LastSchemaVersion

\* The new file, or an error, after which the caller keeps the old one.
Migrate(body, target) ==
  LET ver == fieldVal(body, "schema_version", "int")
  IN IF ver.err THEN Fail(body)
     ELSE IF ~validateVersion(ver.v[2], target) THEN Fail(body)
     ELSE IF ver.v[2] = target THEN Good(body)
     ELSE upgradeConfigSchema(ver.v[2], target, body)
=============================================================================
