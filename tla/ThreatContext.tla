---------------------------- MODULE ThreatContext ----------------------------
(***************************************************************************)
(* Offline threat context (threat_context.py, custom_feed.py,              *)
(* benign_scanners.py): a feed is read once, when a process starts, into   *)
(* an index of exact indicators; an event takes the entries of its source  *)
(* and of its artifacts, each with how old it was by then.                 *)
(***************************************************************************)
EXTENDS Integers, Sequences, FiniteSets

CONSTANTS
  NoContext,                  \* an event without threat context; a time that is not given
  StaleAfter, AgedAfter,      \* in days
  MaxMatches, BucketSize      \* matches of an event, entries kept for an indicator

ASSUME AgingAssumption == {StaleAfter, AgedAfter} \subseteq Nat /\ 1 <= StaleAfter /\ StaleAfter < AgedAfter

(* The first of three stamps that is given dates an entry.                   *)
Reference(item, feed) ==
  IF item.lastSeen # NoContext THEN item.lastSeen
  ELSE IF item.firstSeen # NoContext THEN item.firstSeen ELSE feed.generated

Age(reference, today) == IF today > reference THEN today - reference ELSE 0

(* a / b to the nearest integer, a half to the even one.                     *)
Rounded(a, b) ==
  LET down == a \div b
      rest == 2 * (a % b)
  IN IF rest > b \/ (rest = b /\ down % 2 = 1) THEN down + 1 ELSE down

(* Variants with a suffix hold a plausible defect each; no definition uses them. *)
Freshness_Rising(age) ==    \* counts from the wrong end
  IF age < StaleAfter THEN 100
  ELSE IF age >= AgedAfter THEN 0
  ELSE Rounded(100 * (age - StaleAfter), AgedAfter - StaleAfter)

Freshness(age) ==
  IF age < StaleAfter THEN 100
  ELSE IF age >= AgedAfter THEN 0
  ELSE Rounded(100 * (AgedAfter - age), AgedAfter - StaleAfter)

State(age) == IF age < StaleAfter THEN "fresh" ELSE IF age >= AgedAfter THEN "aged" ELSE "stale"

(* _bounded_metadata keeps a period of validity only if it does not end      *)
(* before it starts.                                                         *)
Period(item) ==
  IF item.from # NoContext /\ item.until # NoContext /\ item.until < item.from
    THEN <<NoContext, NoContext>> ELSE <<item.from, item.until>>

Validity(item, today) ==
  LET p == Period(item) IN
  IF p[1] # NoContext /\ today < p[1] THEN "not_yet_valid"
  ELSE IF p[2] # NoContext /\ today > p[2] THEN "expired"
  ELSE IF p = <<NoContext, NoContext>> THEN "unspecified" ELSE "active"

(* _indicator_aging *)
Aging(item, feed, today) ==
  IF Reference(item, feed) = NoContext THEN NoContext
  ELSE LET age == Age(Reference(item, feed), today)
       IN [state |-> State(age), score |-> Freshness(age), validity |-> Validity(item, today)]

(* _load: a feed that is missing, unreadable or too long leaves no index; an *)
(* entry whose indicator is not well formed or that came before is skipped,  *)
(* and of the entries of one indicator the first few are kept.               *)
Entry(item) == [item EXCEPT !.from = Period(item)[1], !.until = Period(item)[2]]

Items(feed) ==
  {i \in 1..Len(feed.items) :
     /\ feed.items[i].wellFormed
     /\ \A j \in 1..(i - 1) : Entry(feed.items[j]) # Entry(feed.items[i])}

Index(feed) ==
  IF ~feed.readable THEN {}
  ELSE {i \in Items(feed) :
          Cardinality({j \in Items(feed) : j < i /\ feed.items[j].indicator = feed.items[i].indicator})
            < BucketSize}

(* _candidates: the source, then the artifacts, in order, without repeats.   *)
Candidates(source, iocs) == <<[type |-> "ip", value |-> source]>> \o iocs

FirstAt(s, i) == \A j \in 1..(i - 1) : s[j] # s[i]

(* enrich: the pairs of a candidate and an entry, in order, up to the limit; *)
(* an event that brought a context of its own keeps it.                      *)
Matches(feed, source, iocs, today) ==
  LET c == Candidates(source, iocs)
      pairs == {p \in (1..Len(c)) \X Index(feed) :
                  FirstAt(c, p[1]) /\ feed.items[p[2]].indicator = c[p[1]]}
      before(p) == {q \in pairs : q[1] < p[1] \/ (q[1] = p[1] /\ q[2] < p[2])}
  IN {[item |-> p[2], aging |-> Aging(feed.items[p[2]], feed, today)] :
        p \in {q \in pairs : Cardinality(before(q)) < MaxMatches}}

Context(feed, source, iocs, own, today) ==
  IF own # NoContext THEN own ELSE Matches(feed, source, iocs, today)
=============================================================================
