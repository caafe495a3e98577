--------------------------- MODULE DetectionRules ---------------------------
(***************************************************************************)
(* The detection rules of detection.py over the context that               *)
(* Store.detection_context reads: which rules find something in an event,  *)
(* given the events stored before it, and with which evidence.             *)
(*                                                                         *)
(* What the rules look for in texts (commands, payloads, IDS severity, the *)
(* planted credential) is the set event.shows; everything they count is a  *)
(* field of the event.                                                     *)
(***************************************************************************)
EXTENDS Integers, Sequences, FiniteSets

CONSTANTS
  None,             \* a field the event does not have
  Enabled,          \* rules the configuration enables
  Threshold,        \* Threshold[rule][name] of the temporal rules
  Window,           \* Window[rule]: window_seconds, in ticks
  Lookback,         \* lookback_hours of the context, in ticks
  SourceLimit,      \* 1000: newest events of the source in the context
  CredentialLimit,  \* 250: newest events with the same secret
  EvidenceLimit     \* 64: references of a finding

(* DetectionEngine.evaluate goes through them in this order. *)
RuleOrder ==
  <<"honeytoken_reuse", "download_attempt", "command_staging_detected",
    "suricata_high_severity", "multiple_auth_failures", "credential_bruteforce",
    "credential_reuse", "web_scanning", "path_traversal_sequence",
    "rapid_port_sequence", "recon_burst">>

SingleRules == {RuleOrder[i] : i \in 1..4}
TemporalRules == {RuleOrder[i] : i \in 5..11}
Rules == SingleRules \cup TemporalRules

ThresholdNames ==
  [multiple_auth_failures  |-> {"attempts"},
   credential_bruteforce   |-> {"attempts", "usernames"},
   credential_reuse        |-> {"events", "sources"},
   web_scanning            |-> {"paths"},
   path_traversal_sequence |-> {"events"},
   rapid_port_sequence     |-> {"ports"},
   recon_burst             |-> {"events", "services", "ports"}]

(* DetectionConfig.from_json refuses anything else. *)
ASSUME RulesAssumption ==
  /\ Enabled \subseteq Rules
  /\ Window \in [TemporalRules -> Nat \ {0}]
  /\ \A rule \in TemporalRules : \A name \in ThresholdNames[rule] :
       Threshold[rule][name] \in Nat \ {0, 1}
  /\ \A rule \in TemporalRules : Window[rule] <= Lookback
  /\ {Lookback, SourceLimit, CredentialLimit, EvidenceLimit} \subseteq Nat \ {0}

-----------------------------------------------------------------------------
(* The two queries of the context: newest first, up to the event's own time. *)
Newest(limit, S) ==
  {e \in S : Cardinality({f \in S : \/ f.ts > e.ts
                                    \/ f.ts = e.ts /\ f.id > e.id}) < limit}

Before(stored, event) ==
  {e \in stored : e.ts <= event.ts /\ event.ts - e.ts <= Lookback}

OfSource(stored, event) ==
  Newest(SourceLimit,
         {e \in Before(stored, event) : event.source # None /\ e.source = event.source})

OfSecret(stored, event) ==
  Newest(CredentialLimit,
         {e \in Before(stored, event) : event.secret # None /\ e.secret = event.secret})

Context(stored, event) ==
  OfSource(stored, event) \cup OfSecret(stored, event) \cup {event}

(* A rule's window over the context; only credential reuse looks past the source. *)
SameSource(rule, e, event) == rule = "credential_reuse" \/ e.source = event.source

(* Variants with a suffix hold a plausible defect each; no definition uses them. *)
Seen_Open(rule, stored, event) ==
  {e \in Context(stored, event) :
     SameSource(rule, e, event) /\ event.ts - e.ts < Window[rule]}

Seen(rule, stored, event) ==
  {e \in Context(stored, event) :
     SameSource(rule, e, event) /\ event.ts - e.ts <= Window[rule]}

-----------------------------------------------------------------------------
WebKinds == {"web.request", "web.payload", "credential"}

IsWeb(e) == e.kind \in WebKinds /\ e.service \in {"http", "https"}

(* The events of the window that the rule counts, the event itself being one. *)
Counts(rule, e, event) ==
  CASE rule \in {"multiple_auth_failures", "credential_bruteforce"} -> e.kind = "credential"
    [] rule = "credential_reuse" -> event.secret # None /\ e.secret = event.secret
    [] rule = "web_scanning" -> IsWeb(e)
    [] rule = "path_traversal_sequence" -> "traversal" \in e.shows
    [] OTHER -> TRUE

Triggers(rule, event) ==
  /\ event.source # None
  /\ Counts(rule, event, event)
  /\ rule = "credential_reuse" => event.kind = "credential"

Distinct(E, field) == Cardinality({e[field] : e \in E} \ {None})

Measure(name, E) ==
  CASE name \in {"attempts", "events"} -> Cardinality(E)
    [] name = "usernames" -> Distinct(E, "user")
    [] name = "sources" -> Distinct(E, "source")
    [] name = "paths" -> Distinct(E, "path")
    [] name = "ports" -> Distinct(E, "port")
    [] name = "services" -> Distinct(E, "service")

Reaches(rule, name, E) == Measure(name, E) >= Threshold[rule][name]

Suffices(rule, E) ==
  IF rule = "recon_burst"
  THEN /\ Reaches(rule, "events", E)
       /\ Reaches(rule, "services", E) \/ Reaches(rule, "ports", E)
  ELSE \A name \in ThresholdNames[rule] : Reaches(rule, name, E)

Counted(rule, stored, event) == {e \in Seen(rule, stored, event) : Counts(rule, e, event)}

Matches(rule, stored, event) ==
  /\ rule \in Enabled
  /\ IF rule \in SingleRules
     THEN rule \in event.shows
     ELSE Triggers(rule, event) /\ Suffices(rule, Counted(rule, stored, event))

-----------------------------------------------------------------------------
(* refs[:64] of the window in the order of time; a stable sort leaves events  *)
(* of one time in the order of the context: the source's, then the secret's,  *)
(* each newest id first, then an event that neither query returned.           *)
Rank(e, stored, event) ==
  IF e \in OfSource(stored, event) THEN 0 ELSE IF e \in OfSecret(stored, event) THEN 1 ELSE 2

Precedes(e, f, stored, event) ==
  \/ e.ts < f.ts
  \/ e.ts = f.ts /\ Rank(e, stored, event) < Rank(f, stored, event)
  \/ e.ts = f.ts /\ Rank(e, stored, event) = Rank(f, stored, event) /\ e.id > f.id

Evidence(rule, stored, event) ==
  LET E == IF rule \in SingleRules THEN {event} ELSE Counted(rule, stored, event)
  IN {e.id : e \in {f \in E : Cardinality({g \in E : Precedes(g, f, stored, event)})
                                < EvidenceLimit}}

(* The number in S with k - 1 smaller ones. *)
Nth(S, k) == CHOOSE i \in S : Cardinality({j \in S : j <= i}) = k

(* evaluate(event, detection_context(event)): the rules in their order. *)
Findings(stored, event) ==
  LET found == {i \in 1..11 : Matches(RuleOrder[i], stored, event)}
  IN [k \in 1..Cardinality(found) |->
        LET rule == RuleOrder[Nth(found, k)]
        IN [rule |-> rule, evidence |-> Evidence(rule, stored, event)]]
=============================================================================
