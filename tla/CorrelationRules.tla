-------------------------- MODULE CorrelationRules --------------------------
(***************************************************************************)
(* How the correlation workspace compares a session with the sessions      *)
(* around it (correlation_workspace.py): by the values their events share, *)
(* family by family.                                                       *)
(***************************************************************************)
EXTENDS Integers, FiniteSets, FiniteSetsExt

CONSTANTS
  Weight,       \* Weight[f]: the weight of family f, in percent
  LinkWindow,   \* how far from the session's last event others are looked for
  LinkEvents    \* max_events of the workspace

ASSUME WeightAssumption ==
  IsFiniteSet(DOMAIN Weight) /\ \A f \in DOMAIN Weight : Weight[f] \in 0..100

(* _features: the values of an event, each with its family.                  *)
Features(e) ==
  LET by == [source_ip |-> {e.source}, asn |-> {e.asn}, service |-> {e.service},
             destination_port |-> {e.port}, username |-> {e.username},
             command_sha256 |-> {e.command}, payload_sha256 |-> {e.payload}, ioc |-> e.iocs]
  IN UNION {{<<f, v>> : v \in by[f]} : f \in DOMAIN by \cap DOMAIN Weight}

FeaturesOf(items, absent) == {x \in UNION {Features(e) : e \in items} : x[2] # absent}

(* _score, in thousandths: one weight for each family, however many values.  *)
Whole == 1000000    \* what is left at first, in millionths

Score(shared) ==
  LET rest == FoldSet(LAMBDA f, acc : (acc * (100 - Weight[f])) \div 100, Whole, {x[1] : x \in shared})
  IN (Whole - rest + 500) \div 1000

Latest(items) == CHOOSE e \in items : \A o \in items : o.timestamp <= e.timestamp

Around(items, e) ==
  {o \in items : e.timestamp - LinkWindow <= o.timestamp /\ o.timestamp <= e.timestamp + LinkWindow}

NewestOf(items, n) ==
  {e \in items : Cardinality({o \in items : \/ o.timestamp > e.timestamp
                                            \/ o.timestamp = e.timestamp /\ o.id > e.id}) < n}

(* analyze: the sessions whose newest events overlap with session s.         *)
Overlaps(events, s, minimum, absent) ==
  LET own == {e \in events : e.session = s}
      candidates == NewestOf(Around(events \ own, Latest(own)), LinkEvents)
      of(t) == {e \in candidates : e.session = t}
      shared(t) == FeaturesOf(own, absent) \cap FeaturesOf(of(t), absent)
  IN {[session |-> t, score |-> Score(shared(t)), basis |-> shared(t),
       last |-> Latest(of(t)).timestamp] :
        t \in {u \in {e.session : e \in candidates} : shared(u) # {} /\ Score(shared(u)) >= minimum}}

Stronger(a, b) ==
  \/ a.score > b.score
  \/ a.score = b.score /\ a.last > b.last
  \/ a.score = b.score /\ a.last = b.last /\ a.session > b.session

Selected(items, limit) == {i \in items : Cardinality({j \in items : Stronger(j, i)}) < limit}
=============================================================================
