---------------------------- MODULE Investigation ----------------------------
(***************************************************************************)
(* What analysts do with the stored events while the collector goes on     *)
(* storing and dropping them: reading lists page by page, measuring one    *)
(* event against its past, comparing a session with others.  Each request  *)
(* reads, and sometimes writes, in more than one transaction.              *)
(***************************************************************************)
EXTENDS Integers, Sequences, FiniteSets,
        Listing, BehavioralAnalytics, CorrelationRules, EventModel, ThreatContext

CONSTANTS
  Workloads,      \* what is offered and asked: [offers, lists, tasks, feeds]
  Skew,           \* AEGIS_MAX_FUTURE_EVENT_SKEW_SECONDS
  Hours,          \* period of a list of events
  AnalysisLimit,  \* AEGIS_ANALYTICS_MAX_EVENTS
  LinkChoices,    \* choices of [limit, minimum] of a correlation request
  Analysts,       \* threads that serve correlation requests
  MaxNow, MaxAnalyses, MaxLinkings \* bounds: clock, requests for analyses and correlations

IsOffer(o) ==
  /\ o.timestamp \in Int /\ o.session \in Ids
  /\ o.sent.parts = [p \in DOMAIN o.sent.parts |-> o.sent.parts[p]]
  /\ \A p \in DOMAIN o.sent.parts : IsTree(o.sent.parts[p])
  /\ o.sent.secret \in Nat
  /\ o.sent.notice.given => o.sent.notice.original \in Nat /\ o.sent.notice.captured \in Nat

IsFeed(feed) ==
  LET stamps == {NoContext} \cup Int IN
  /\ feed.generated \in stamps
  /\ \A i \in 1..Len(feed.items) : feed.items[i].lastSeen \in stamps /\ feed.items[i].firstSeen \in stamps

ASSUME WorkloadsAssumption ==
  /\ \A w \in Workloads :
       /\ DOMAIN w.offers \subseteq Ids /\ 0 \notin DOMAIN w.offers
       /\ \A i \in DOMAIN w.offers : IsOffer(w.offers[i])
       /\ \A feed \in w.feeds : IsFeed(feed)
  /\ {Hours, AnalysisLimit} \subseteq Nat

VARIABLES
  workload,   \* chosen once
  now,
  arrived,    \* events stored so far, in the order of their receipt
  dropped,    \* how many of them, the oldest, retention has removed
  loaded,     \* the feed this process has loaded
  contexts,   \* contexts[i]: threat context stored with event i, and the day
  reading,    \* the event an analysis has read
  analyses,   \* history: analyses with the events stored then
  linking,    \* linking[a]: what an analyst is about to persist
  links,      \* correlation_links, by source session
  made        \* history: selections that were computed

storeVars == <<now, arrived, dropped, loaded, contexts>>
analysisVars == <<reading, analyses>>
linkVars == <<linking, links, made>>
vars == <<workload, storeVars, analysisVars, linkVars, listingVars>>

Offers == workload.offers

(* An event as it is stored.                                                 *)
EventOf(i) ==
  LET o == Offers[i]
      all == WithArtifacts(o.iocs, o.artifacts)
  IN [id |-> i, timestamp |-> o.timestamp, source |-> o.source, session |-> o.session, type |-> o.type,
      port |-> o.port, service |-> o.service, username |-> o.username, command |-> o.command,
      payload |-> o.payload, country |-> o.country, asn |-> o.asn,
      iocs |-> {all[k] : k \in DOMAIN all}]

StoredIds(received, gone) == {received[k] : k \in (gone + 1)..Len(received)}
EventsOf(ids) == {EventOf(i) : i \in ids}
Stored == EventsOf(StoredIds(arrived, dropped))

Sessions(events) == {e.session : e \in events}

(* The list that is read: events, or sessions by last_seen.  A session's     *)
(* last_seen only rises; its row goes with its last event.                   *)
RowsWith(e) ==
  IF workload.lists = "events" THEN rows \cup {[at |-> e.timestamp, id |-> e.id]}
  ELSE LET before == {r.at : r \in {q \in rows : q.id = e.session}}
       IN {r \in rows : r.id # e.session} \cup
            {[at |-> IF \E t \in before : t > e.timestamp THEN CHOOSE t \in before : TRUE ELSE e.timestamp,
              id |-> e.session]}

RowsOf(events) ==
  LET ids == IF workload.lists = "events" THEN {e.id : e \in events} ELSE Sessions(events)
  IN {r \in rows : r.id \in ids}

Init ==
  /\ workload \in Workloads
  /\ now = 0
  /\ arrived = <<>> /\ dropped = 0
  /\ loaded \in workload.feeds
  /\ contexts = <<>>
  /\ reading = 0 /\ analyses = {}
  /\ linking = [a \in Analysts |-> [phase |-> "idle"]]
  /\ links = [s \in Ids |-> {}] /\ made = {}
  /\ ListingInit

(* ingest_event: normalised, its clock checked, artifacts and context added, *)
(* then stored.                                                              *)
Ingest(i) ==
  /\ ~\E k \in DOMAIN arrived : arrived[k] = i
  /\ Offers[i].timestamp <= now + Skew
  /\ Normalized(Offers[i].sent).accepted
  /\ arrived' = Append(arrived, i)
  /\ contexts' = IF "context" \in workload.tasks
       THEN Append(contexts, [event |-> i, day |-> now, feed |-> loaded,
              matches |-> Context(loaded, Offers[i].source,
                                  WithArtifacts(Offers[i].iocs, Offers[i].artifacts), Offers[i].own, now)])
       ELSE contexts
  /\ Change(RowsWith(EventOf(i)))
  /\ UNCHANGED <<workload, now, dropped, loaded, analysisVars, linkVars>>

(* Retention removes the event received first.                               *)
Drop ==
  /\ "drop" \in workload.tasks
  /\ dropped < Len(arrived)
  /\ dropped' = dropped + 1
  /\ Change(RowsOf(EventsOf(StoredIds(arrived, dropped'))))
  /\ UNCHANGED <<workload, now, arrived, loaded, contexts, analysisVars, linkVars>>

Tick ==
  /\ now < MaxNow
  /\ now' = now + 1
  /\ UNCHANGED <<workload, arrived, dropped, loaded, contexts, analysisVars, linkVars, listingVars>>

(* A process starts anew and loads the feed as it is by then.                *)
Reload ==
  /\ loaded' \in workload.feeds \ {loaded}
  /\ UNCHANGED <<workload, now, arrived, dropped, contexts, analysisVars, linkVars, listingVars>>

OpenList ==
  /\ "list" \in workload.tasks
  /\ \E cap \in Caps : Open(IF workload.lists = "events" THEN now - Hours ELSE -Hours, cap)
  /\ UNCHANGED <<workload, storeVars, analysisVars, linkVars>>

NextPage == More /\ UNCHANGED <<workload, storeVars, analysisVars, linkVars>>

-----------------------------------------------------------------------------
(* event_behavioral_analytics: the event is read in one transaction ...      *)
ReadEvent ==
  /\ "analyse" \in workload.tasks
  /\ reading = 0 /\ Cardinality(analyses) < MaxAnalyses
  /\ reading' \in StoredIds(arrived, dropped)
  /\ UNCHANGED <<workload, storeVars, analyses, linkVars, listingVars>>

(* Variants with a suffix hold a plausible defect each; no definition uses them. *)
History_UpToNow(e, events) ==    \* the past of now, instead of the event's
  {o \in events : e.timestamp - Policy.month <= o.timestamp /\ o.timestamp <= now /\ o.id # e.id}

(* behavioral_context: the month up to the event, without the event.         *)
History(e, events) == {o \in Window(events, e, Policy.month) : o.id # e.id}

(* ... and the newest of its past in another.                                *)
Analyse ==
  /\ reading # 0
  /\ LET e == EventOf(reading)
         past == History(e, Stored)
         truncated == Cardinality(past) > AnalysisLimit
     IN analyses' = analyses \cup
          {[event |-> e, stored |-> Stored, ready |-> Ready(NewestOf(past, AnalysisLimit), e, truncated),
            findings |-> Evaluate(e, NewestOf(past, AnalysisLimit), truncated)]}
  /\ reading' = 0
  /\ UNCHANGED <<workload, storeVars, linkVars, listingVars>>

-----------------------------------------------------------------------------
(* CorrelationWorkspace.analyze reads and selects ...  Its two SELECTs, of   *)
(* the session's events and of its candidates, see two snapshots in the code *)
(* and one here: what was committed in between would be a candidate only.    *)
Correlate(a, s) ==
  /\ "correlate" \in workload.tasks
  /\ linking[a].phase = "idle"
  /\ Cardinality(made) < MaxLinkings
  /\ s \in Sessions(Stored)
  /\ \E c \in LinkChoices :
       LET items == Selected(Overlaps(Stored, s, c.minimum, Absent), c.limit)
       IN /\ linking' = [linking EXCEPT ![a] = [phase |-> "selected", session |-> s, items |-> items]]
          /\ made' = made \cup {[session |-> s, items |-> items]}
  /\ UNCHANGED <<workload, storeVars, analysisVars, links, listingVars>>

Persist_Upserts(a) ==    \* links that no longer hold stay
  /\ linking[a].phase = "selected"
  /\ links' = [links EXCEPT ![linking[a].session] =
       {l \in @ : ~\E i \in linking[a].items : i.session = l.session} \cup linking[a].items]
  /\ linking' = [linking EXCEPT ![a] = [phase |-> "idle"]]
  /\ UNCHANGED <<workload, storeVars, analysisVars, made, listingVars>>

(* ... and replaces what is stored in a transaction of its own.              *)
Persist(a) ==
  /\ linking[a].phase = "selected"
  /\ links' = [links EXCEPT ![linking[a].session] = linking[a].items]
  /\ linking' = [linking EXCEPT ![a] = [phase |-> "idle"]]
  /\ UNCHANGED <<workload, storeVars, analysisVars, made, listingVars>>

Next ==
  \/ \E i \in DOMAIN Offers : Ingest(i)
  \/ Drop \/ Tick \/ Reload
  \/ OpenList \/ NextPage
  \/ ReadEvent \/ Analyse
  \/ \E a \in Analysts : Persist(a) \/ \E s \in Ids : Correlate(a, s)

Spec == Init /\ [][Next]_vars

-----------------------------------------------------------------------------
(* A stored event is within the limits, and says that it is lossy exactly    *)
(* when something was cut from it (normalize_event,                          *)
(* src/docs/DATA_PROVENANCE.md:33); a secret that the sensor cut never       *)
(* counts as complete.                                                       *)
LossDisclosed ==
  \A i \in StoredIds(arrived, dropped) :
    LET sent == Offers[i].sent
        kept == Normalized(sent)
    IN /\ kept.lossy <=> kept.parts # sent.parts
       /\ \A p \in DOMAIN kept.parts : Lost(kept.parts[p]) = {}
       /\ (/\ sent.notice.given
           /\ sent.notice.captured = sent.secret
           /\ sent.notice.original > sent.secret) => ~kept.credential.complete

(* What an analysis reports is true of everything that was stored, not only  *)
(* of what it read: a novel value was in no event of the month, a rare       *)
(* command in hardly any, and the evidence exists (evaluate,                 *)
(* behavioral_context).                                                      *)
FindingsGrounded ==
  \A a \in analyses : \A f \in a.findings :
    LET past == History(a.event, a.stored) IN
    /\ f.analytic = "novel" => \A o \in past : f.about[2] \notin Dimensions(o)[f.about[1]]
    /\ f.analytic = "rare_command" => Cardinality(SameCommand(past, a.event)) <= Policy.rare
    /\ f.evidence \subseteq {a.event.id} \cup {o.id : o \in past}

(* Live analysis and replay agree: of two analyses of an event, one that was *)
(* made when more events were stored finds the same, if those came after the *)
(* event (src/docs/BEHAVIORAL_ANALYTICS.md:9).                               *)
AnalysisRepeatable ==
  \A a, b \in analyses :
    (/\ a.event = b.event
     /\ a.stored \subseteq b.stored
     /\ \A o \in b.stored \ a.stored : o.timestamp > a.event.timestamp) => a.findings = b.findings

(* The links stored for a session are those of one analysis, whole: an       *)
(* overlap that another found, or that no longer holds, is not among them    *)
(* (_persist).  A link leads to another session, and however many families   *)
(* of evidence two sessions share its score stays within 1000 (_score).      *)
LinksOfOneAnalysis ==
  \A s \in Ids :
    /\ links[s] # {} => \E m \in made : m.session = s /\ m.items = links[s]
    /\ \A l \in links[s] : l.session # s /\ l.score \in 0..1000

(* An indicator never looks fresher in an event that was stored later from   *)
(* the same feed (_indicator_aging, enrich).                                 *)
ContextAges ==
  \A j, k \in DOMAIN contexts :
    (/\ contexts[j].feed = contexts[k].feed /\ contexts[j].day <= contexts[k].day
     /\ Offers[contexts[j].event].own = NoContext /\ Offers[contexts[k].event].own = NoContext) =>
      \A m \in contexts[j].matches, n \in contexts[k].matches :
        (m.item = n.item /\ m.aging # NoContext) => n.aging.score <= m.aging.score
=============================================================================
