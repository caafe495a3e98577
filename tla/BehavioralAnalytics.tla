------------------------ MODULE BehavioralAnalytics ------------------------
(***************************************************************************)
(* What the collector measures about one event against the events of the   *)
(* month before it (behavioral_analytics.py).  An event is a record; a     *)
(* field it lacks is Absent.  The fixed numbers of the code are the fields *)
(* of Policy, so that small histories reach them.                          *)
(***************************************************************************)
EXTENDS Integers, FiniteSets

CONSTANTS
  Absent,
  Policy   \* month, week, day, minutes: lengths of windows; samples: AEGIS_ANALYTICS_MIN_SAMPLES;
           \* rare, spike, auth, burst, ports, services, sessions, long: thresholds; evidence: ids kept

Present(v) == {v} \ {Absent}

Larger(a, b) == IF a > b THEN a ELSE b
CeilDiv(a, b) == (a + b - 1) \div b

Artifacts(e) == {i.value : i \in {j \in e.iocs : j.type \in {"url", "domain"}}}

Dimensions(e) ==
  [source_ip |-> Present(e.source), country |-> Present(e.country), asn |-> Present(e.asn),
   username |-> Present(e.username), payload_sha256 |-> Present(e.payload),
   url_domain |-> Artifacts(e)]

Tokens(e) ==
  {<<"username", v>> : v \in Present(e.username)} \cup {<<"payload_sha256", v>> : v \in Present(e.payload)}
    \cup {<<"command_sha256", v>> : v \in Present(e.command)} \cup {<<"ioc", v>> : v \in Artifacts(e)}

(* Both ends belong to a window.                                             *)
Window(h, e, length) ==
  {o \in h : e.timestamp - length <= o.timestamp /\ o.timestamp <= e.timestamp}

Ready(h, e, truncated) == Cardinality(Window(h, e, Policy.month)) >= Policy.samples /\ ~truncated

Earlier(a, b) == a.timestamp < b.timestamp \/ (a.timestamp = b.timestamp /\ a.id < b.id)

(* before[i]: the items that come before i in some order.                    *)
FirstIds(items, n, before) == {i.id : i \in {j \in items : Cardinality(before[j]) < n}}

OldestIds(items, n) ==
  FirstIds(items, n, [i \in items |-> {j \in items : Earlier(j, i)}])

(* A finding names the event and the oldest of the events it rests on.       *)
Finding(analytic, about, e, items) ==
  [analytic |-> analytic, about |-> about,
   evidence |-> {e.id} \cup OldestIds(items, Policy.evidence - 1)]

(* Two of them put the event last, and may cut it off with the newest.       *)
FindingInOrder(analytic, about, e, items) ==
  [analytic |-> analytic, about |-> about,
   evidence |-> OldestIds(items, Policy.evidence)
                  \cup (IF Cardinality(items) < Policy.evidence THEN {e.id} ELSE {})]

Novelties(e, h) ==
  UNION {{Finding("novel", <<d, v>>, e, {}) :
            v \in Dimensions(e)[d] \ UNION {Dimensions(o)[d] : o \in Window(h, e, Policy.month)}} :
         d \in DOMAIN Dimensions(e)}

SameCommand(h, e) == {o \in h : o.command = e.command}

RareCommand(e, h) ==
  LET before == SameCommand(Window(h, e, Policy.month), e)
  IN IF Cardinality(before) <= Policy.rare
       THEN {Finding("rare_command", e.command, e, before)} ELSE {}

(* The last day, the event included, against three times the week's average. *)
CommandSpike(e, h) ==
  LET today == SameCommand(Window(h, e, Policy.day), e)
      week == Cardinality(SameCommand(Window(h, e, Policy.week), e))
      threshold == Larger(Policy.spike, CeilDiv(3 * week, Policy.week \div Policy.day))
  IN IF 1 + Cardinality(today) >= threshold
       THEN {Finding("command_frequency_spike", e.command, e, today)} ELSE {}

FromSource(h, e) == {o \in h : o.source = e.source}

(* Five times what a stretch of minutes holds in an average month.           *)
Expected(n) == CeilDiv(5 * n, Policy.month \div Policy.minutes)

Logins(h) == {o \in h : o.type = "credential"}

LoginBurst(e, h) ==
  LET recent == Logins(FromSource(Window(h, e, Policy.minutes), e))
      month == Logins(FromSource(Window(h, e, Policy.month), e))
  IN IF /\ e.type = "credential"
        /\ Cardinality(recent) + 1 >= Larger(Policy.auth, Expected(Cardinality(month)))
       THEN {Finding("authentication_attempt_burst", e.source, e, recent)} ELSE {}

Broad(items) ==
  \/ Cardinality(UNION {Present(o.port) : o \in items}) >= Policy.ports
  \/ Cardinality(UNION {Present(o.service) : o \in items}) >= Policy.services

EventBurst(e, h) ==
  LET recent == FromSource(Window(h, e, Policy.minutes), e)
      month == FromSource(Window(h, e, Policy.month), e)
  IN IF /\ Cardinality(recent) + 1 >= Larger(Policy.burst, Expected(Cardinality(month)))
        /\ Broad(recent \cup {e})
       THEN {FindingInOrder("event_rate_recon_burst", e.source, e, recent)} ELSE {}

Spans(items) == {a.timestamp - b.timestamp : a, b \in items}
Span(items) == CHOOSE d \in Spans(items) : \A o \in Spans(items) : o <= d

(* The 95th percentile of the spans of other sessions with two events.       *)
Percentile95(spans, sessions) ==
  LET upTo(d) == Cardinality({s \in sessions : spans[s] <= d})
      rank == CeilDiv(95 * Cardinality(sessions), 100)
  IN CHOOSE d \in {spans[s] : s \in sessions} :
       upTo(d) >= rank /\ \A o \in {spans[s] : s \in sessions} : o < d => upTo(o) < rank

LongSession(e, h) ==
  LET month == Window(h, e, Policy.month)
      of(s) == {o \in month : o.session = s}
      sessions == {s \in {o.session : o \in month} \ {e.session, Absent} : Cardinality(of(s)) >= 2}
      spans == [s \in sessions |-> Span(of(s))]
      own == of(e.session) \cup {e}
  IN IF /\ Cardinality(own) >= 2
        /\ Cardinality(sessions) >= Policy.sessions
        /\ Span(own) >= Larger(Policy.long, 2 * Percentile95(spans, sessions))
       THEN {FindingInOrder("unusual_session_duration", e.session, e, of(e.session))} ELSE {}

(* Other sources that share two tokens with the event, over all they did;    *)
(* the evidence is taken source by source.                                   *)
Cluster(e, h) ==
  LET related(s) == {o \in Window(h, e, Policy.month) :
                       o.source = s /\ Tokens(o) \cap Tokens(e) # {}}
      shared(s) == UNION {Tokens(o) \cap Tokens(e) : o \in related(s)}
      sources == {s \in {o.source : o \in h} \ {e.source, Absent} : Cardinality(shared(s)) >= 2}
      items == UNION {related(s) : s \in sources}
      first(s) == CHOOSE o \in related(s) : \A p \in related(s) : p = o \/ Earlier(o, p)
      before(i) == {j \in items : IF i.source = j.source THEN Earlier(j, i)
                                  ELSE Earlier(first(j.source), first(i.source))}
  IN IF sources # {}
       THEN {[analytic |-> "campaign_cluster_hypothesis", about |-> sources,
              evidence |-> {e.id} \cup FirstIds(items, Policy.evidence - 1, [i \in items |-> before(i)])]}
       ELSE {}

(* Variants with a suffix hold a plausible defect each; no definition uses them. *)
Evaluate_Always(e, h, truncated) ==    \* a history that was cut off is evaluated all the same
  IF ~Ready(h, e, FALSE) THEN {}
  ELSE Novelties(e, h)

(* evaluate: nothing is found against a short or a truncated history.        *)
Evaluate(e, h, truncated) ==
  IF ~Ready(h, e, truncated) THEN {}
  ELSE Novelties(e, h)
         \cup (IF e.command = Absent THEN {} ELSE RareCommand(e, h) \cup CommandSpike(e, h))
         \cup (IF e.source = Absent THEN {} ELSE LoginBurst(e, h) \cup EventBurst(e, h) \cup Cluster(e, h))
         \cup (IF e.session = Absent THEN {} ELSE LongSession(e, h))
=============================================================================
