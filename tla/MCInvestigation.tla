--------------------------- MODULE MCInvestigation ---------------------------
(* Small instances of Investigation: lists, analyses, correlations, feeds    *)
(* and normalisation, each with a workload of its own.                       *)
EXTENDS Investigation, TLC

CONSTANTS a1, a2

MCPolicy ==
  [month |-> 4, week |-> 2, day |-> 1, minutes |-> 1, samples |-> 2, rare |-> 1, spike |-> 2,
   auth |-> 2, burst |-> 2, ports |-> 2, services |-> 2, sessions |-> 1, long |-> 2, evidence |-> 2]

MCWeight == [source_ip |-> 70, service |-> 20, username |-> 40, ioc |-> 65]

MCLinkChoices == {[limit |-> 2, minimum |-> 0], [limit |-> 1, minimum |-> 500]}

(* Trees. *)
Leaf(kind, length, finite) ==
  [p \in {<<>>} |-> [kind |-> kind, length |-> length, finite |-> finite, safe |-> TRUE]]
Text(n) == Leaf("text", n, TRUE)
Number(finite) == Leaf("number", 0, finite)

Member(safe, t) == [safe |-> safe, tree |-> t]

Collection(kind, members) ==
  LET paths == UNION {{<<i>> \o p : p \in DOMAIN members[i].tree} : i \in DOMAIN members}
      place(p) == members[p[1]]
  IN [p \in {<<>>} \cup paths |->
        IF p = <<>> THEN [kind |-> kind, length |-> 0, finite |-> TRUE, safe |-> TRUE]
        ELSE IF Len(p) = 1 THEN [place(p).tree[<<>>] EXCEPT !.safe = place(p).safe]
        ELSE place(p).tree[Tail(p)]]

Object(members) == Collection("object", members)
List(trees) == Collection("list", [i \in DOMAIN trees |-> Member(TRUE, trees[i])])

Parts(observed) == [observed |-> observed, enrichment |-> Object(<<>>)]
Untold == [given |-> FALSE]
Sent(observed) ==
  [parts |-> Parts(observed), secret |-> 1, notice |-> Untold, valid |-> TRUE]

Offer(timestamp, session) ==
  [timestamp |-> timestamp, source |-> Absent, session |-> session, type |-> "command",
   port |-> Absent, service |-> Absent, username |-> Absent, command |-> Absent,
   payload |-> Absent, country |-> Absent, asn |-> Absent, iocs |-> <<>>, artifacts |-> <<>>,
   own |-> NoContext, sent |-> Sent(Text(1))]

Login(timestamp, session, source, user) ==
  [Offer(timestamp, session) EXCEPT !.type = "credential", !.source = source, !.username = user,
                                    !.service = "ssh", !.port = 22]

Command(timestamp, session, source, command) ==
  [Offer(timestamp, session) EXCEPT !.source = source, !.command = command, !.service = "telnet", !.port = 23]

Url(name) == [type |-> "url", value |-> name]

NoFeed == [readable |-> FALSE, generated |-> NoContext, items |-> <<>>]

Work(offers, lists, tasks, feeds) ==
  [offers |-> offers, lists |-> lists, tasks |-> tasks, feeds |-> feeds]

-----------------------------------------------------------------------------
ReadEvents ==
  Work(<<Offer(0, 1), Offer(1, 1), Offer(1, 2), Offer(2, 2), Offer(0, 3)>>, "events", {"list", "drop"}, {NoFeed})

ReadSessions ==
  Work(<<Offer(0, 1), Offer(1, 2), Offer(1, 3), Offer(2, 1), Offer(1, 4)>>, "sessions", {"list", "drop"}, {NoFeed})

LoginHistory ==
  Work(<<Login(0, 1, "A", "guest"), Login(1, 2, "A", "root"), Login(2, 2, "B", "root"),
         [Login(2, 3, "A", "admin") EXCEPT !.port = 2222, !.country = "X"], Login(3, 1, "A", "guest")>>,
       "events", {"analyse"}, {NoFeed})

CommandHistory ==
  Work(<<Command(1, 1, "A", "id"), Command(2, 2, "B", "id"),
         [Command(2, 2, "B", "curl") EXCEPT !.iocs = <<Url("u")>>, !.payload = "p"],
         [Command(3, 2, "A", "curl") EXCEPT !.artifacts = <<Url("u"), Url("v")>>, !.service = "ssh"]>>,
       "events", {"analyse", "drop"}, {NoFeed})

Related ==
  Work(<<Login(0, 1, "A", "root"), Login(1, 2, "A", "admin"), Login(1, 3, "B", "root"),
         [Login(2, 1, "B", "root") EXCEPT !.iocs = <<Url("u")>>]>>,
       "events", {"correlate", "drop"}, {NoFeed})

Indicator(value, lastSeen, firstSeen, from, until) ==
  [wellFormed |-> TRUE, indicator |-> value, lastSeen |-> lastSeen, firstSeen |-> firstSeen,
   from |-> from, until |-> until]

Address == [type |-> "ip", value |-> "A"]

Feed(generated) ==
  [readable |-> TRUE, generated |-> generated,
   items |-> <<Indicator(Address, 0, NoContext, NoContext, 2),
               Indicator(Address, 0, NoContext, NoContext, 2),
               Indicator(Address, NoContext, 1, 2, 1),
               [Indicator(Url("u"), 1, 1, NoContext, NoContext) EXCEPT !.wellFormed = FALSE],
               Indicator(Url("u"), NoContext, NoContext, 1, 3),
               Indicator(Address, NoContext, NoContext, NoContext, NoContext)>>]

Feeds ==
  Work(<<[Login(0, 1, "A", "root") EXCEPT !.artifacts = <<Url("u"), Address>>],
         [Login(1, 1, "A", "root") EXCEPT !.own = "given"],
         Login(2, 1, "A", "root"),
         [Login(0, 2, "B", "root") EXCEPT !.artifacts = <<Url("u")>>]>>,
       "events", {"context"}, {Feed(NoContext), Feed(0)})

(* Values at their limits, alone and inside each other.                      *)
Leaves == {Text(1), Text(2), Text(3), Number(TRUE), Number(FALSE)}
Shallow ==
  Leaves \cup {List(<<v>>) : v \in Leaves} \cup {List(<<Text(1), v, Text(3)>>) : v \in Leaves}
    \cup {Object(<<Member(safe, v)>>) : v \in Leaves, safe \in BOOLEAN}
    \cup {Object(<<Member(TRUE, Text(1)), Member(safe, v), Member(safe, Text(1))>>) : v \in Leaves, safe \in BOOLEAN}
Trees == Shallow \cup {List(<<v, Text(1)>>) : v \in Shallow} \cup {Object(<<Member(TRUE, v)>>) : v \in Shallow}
           \cup {List(<<List(<<v>>)>>) : v \in Shallow}

Notices ==
  {Untold} \cup
  {[given |-> TRUE, original |-> original, captured |-> captured] :
     original \in 1..3, captured \in 1..2}

Bodies ==
  {Work(<<[Offer(0, 1) EXCEPT !.sent = Sent(v)]>>, "events", {}, {NoFeed}) : v \in Trees}
    \cup {Work(<<[Offer(0, 1) EXCEPT !.sent = [Sent(Text(1)) EXCEPT !.secret = 2, !.notice = n]]>>,
               "events", {}, {NoFeed}) : n \in Notices}

MCWorkloads == {ReadEvents, ReadSessions, LoginHistory, CommandHistory, Related, Feeds} \cup Bodies

Symmetric == Permutations({a1, a2})
=============================================================================
