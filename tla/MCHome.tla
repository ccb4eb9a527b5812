------------------------------- MODULE MCHome -------------------------------
EXTENDS Home

CONSTANTS v0, v1, v2

MCSchemaOf == [v \in {v0, v1, v2} |-> IF v = v0 THEN 27 ELSE IF v = v1 THEN 28 ELSE 29]

Up(comment, scheme, port) == [comment |-> comment, scheme |-> scheme, port |-> port]

\* Two administrators: what each means by every setting.
ValuesA ==
  [name |-> "adm", pass |-> "secret", boot |-> "1.1.1.1", host |-> "127.0.0.1",
   ups |-> <<Up(FALSE, "quic", 0), Up(TRUE, "quic", 0), Up(FALSE, "tls", 0)>>,
   tld |-> "lan", ecs |-> TRUE, all |-> TRUE, fastest |-> TRUE, rdns |-> FALSE, qdays |-> 7,
   qlog |-> FALSE, qfile |-> TRUE, qmem |-> 5, sdays |-> 0, safe |-> TRUE,
   svcs |-> <<Str("svc")>>, prot |-> FALSE, mode |-> "null_ip", ivl |-> 12,
   ip |-> "10.0.0.2", mac |-> "aa", files |-> 100, port |-> 3000, ttl |-> 720, verbose |-> TRUE,
   size |-> 9, pprof |-> TRUE, list |-> "/lists/a.txt", gw |-> "10.0.0.1", lease |-> 60,
   ign |-> ".", tls |-> TRUE, https |-> 443]

ValuesB ==
  [ValuesA EXCEPT !.ups = <<Up(FALSE, "quic", 8853), Up(FALSE, "plain", 0)>>, !.ecs = FALSE,
   !.all = FALSE, !.rdns = TRUE, !.qlog = TRUE, !.qfile = FALSE, !.sdays = 30, !.safe = FALSE,
   !.svcs = <<>>, !.prot = TRUE, !.verbose = FALSE, !.pprof = FALSE, !.list = "https://a",
   !.ign = "a.b", !.tls = FALSE]

S(n, v, parts, odd, fresh) == [n |-> n, v |-> v, parts |-> parts, odd |-> odd, fresh |-> fresh]

All == <<"dns", "clients", "users", "other">>
Rest == <<"clients", "users", "other">>

\* Whole files of every schema, files in which something is missing, null or
\* of another type, and at the end those of the other scenarios.
MCSamples ==
  [i \in 1..30 |-> S(i - 1, ValuesA, All, "none", FALSE)]
  \o [i \in 1..30 |-> S(i - 1, ValuesB, All, "none", FALSE)]
  \o << S(1, ValuesA, Rest, "none", FALSE),      S(11, ValuesA, Rest, "nulldns", FALSE),
        S(27, ValuesB, Rest, "nulldns", FALSE),  S(12, ValuesB, Rest, "stringdns", FALSE),
        S(6, ValuesA, <<"dns", "users">>, "nulldhcp", FALSE),
        S(12, ValuesA, <<"dns", "users">>, "nulldhcp", FALSE),
        S(20, ValuesA, All, "noschema", FALSE),  S(20, ValuesA, All, "newer", FALSE),
        S(20, ValuesA, All, "negative", FALSE),
        S(20, [ValuesA EXCEPT !.https = 3000], All, "none", FALSE),
        S(29, ValuesA, <<"users", "other">>, "none", TRUE),
        S(28, ValuesA, <<"users", "other">>, "none", FALSE),
        S(29, ValuesA, <<"users", "other">>, "none", FALSE) >>

Nothing == [starts |-> 0, stops |-> 0, crashes |-> 0, restores |-> 0, clis |-> 0, infos |-> 0,
            updates |-> 0, installs |-> 0, logins |-> 0, reqs |-> 0, ticks |-> 0]

MCScenarios ==
  {[sample |-> i, version |-> v, left |-> [Nothing EXCEPT !.starts = 2, !.stops = 1, !.crashes = 1]] :
     i \in 1..70, v \in {v1, v2}}
  \cup
  {[sample |-> 71, version |-> v1, left |-> [Nothing EXCEPT !.starts = 3, !.stops = 1, !.crashes = 1,
     !.installs = 2, !.clis = 1, !.infos = 1, !.updates = 1]]}
  \cup
  {[sample |-> 72, version |-> v1, left |-> [Nothing EXCEPT !.starts = 3, !.stops = 1, !.crashes = 1,
     !.infos = 2, !.updates = 2, !.restores = 1]]}
  \cup
  {[sample |-> 73, version |-> v2, left |-> [Nothing EXCEPT !.starts = 2, !.crashes = 1, !.ticks = 3,
     !.logins = IF q = 0 THEN 5 ELSE 2, !.reqs = q]] : q \in {0, 3}}
=============================================================================
