---------------------------- MODULE MCDetection -----------------------------
(* Small instances of DetectionPipeline: one workload for the rules, one for *)
(* alerts, one for suppressions.                                             *)
EXTENDS DetectionPipeline, TLC

CONSTANTS t1, t2, o1, o2, A, B

LowThreshold ==
  [multiple_auth_failures  |-> [attempts |-> 2],
   credential_bruteforce   |-> [attempts |-> 2, usernames |-> 2],
   credential_reuse        |-> [events |-> 2, sources |-> 2],
   web_scanning            |-> [paths |-> 2],
   path_traversal_sequence |-> [events |-> 2],
   rapid_port_sequence     |-> [ports |-> 2],
   recon_burst             |-> [events |-> 3, services |-> 2, ports |-> 3]]

ShortWindow ==
  [rule \in TemporalRules |->
     IF rule \in {"credential_bruteforce", "credential_reuse", "recon_burst"} THEN 2 ELSE 1]

(* An ids.alert without a source, unless said otherwise. *)
Plain(id, ts) ==
  [id |-> id, ts |-> ts, source |-> None, session |-> 1, kind |-> "ids.alert",
   user |-> None, secret |-> None, path |-> None, port |-> None, service |-> None,
   shows |-> {}]

Login(id, ts, source, user, secret) ==
  [Plain(id, ts) EXCEPT !.kind = "credential", !.source = source, !.user = user,
                        !.secret = secret, !.service = "ssh", !.port = 22]

Page(id, ts, path) ==
  [Plain(id, ts) EXCEPT !.kind = "web.request", !.source = A, !.path = path,
                        !.service = "http", !.port = 80, !.shows = {"traversal"}]

Ids(id, ts, source) ==
  [Plain(id, ts) EXCEPT !.source = source, !.shows = {"suricata_high_severity"}]

Quiet(events) ==
  [offered |-> events, rules |-> {}, scopes |-> {}, triages |-> 0,
   suppressions |-> 0, cuts |-> 0, ticks |-> 0]

Logins == Quiet({Login(1, 1, A, "root", "x"), Login(2, 2, A, "admin", "y"),
                 Login(3, 3, B, "root", "x"), Ids(4, 3, A),
                 Login(5, 2, B, "root", "x")})

Pages == Quiet({Page(1, 1, "p"), Page(2, 2, "q"), Page(3, 2, "p"),
                Login(4, 1, A, "root", "x")})

Triaged == [Quiet({Ids(1, 2, None), Ids(2, 1, None),
                  [Ids(3, 3, None) EXCEPT !.session = 2]})
              EXCEPT !.triages = 2, !.cuts = 1]

Suppressed == [Quiet({Ids(1, 1, A), Ids(2, 1, B)})
                 EXCEPT !.rules = {"suricata_high_severity"}, !.scopes = {None, A},
                        !.suppressions = 2, !.ticks = 1]

AllWorkloads == {Logins, Pages, Triaged, Suppressed}

Symmetry == Permutations({t1, t2}) \cup Permutations({o1, o2})
=============================================================================
