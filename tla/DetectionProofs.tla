--------------------------- MODULE DetectionProofs ---------------------------
(***************************************************************************)
(* Proofs about DetectionPipeline, for any number of requests, operators,  *)
(* events and suppressions, and whatever the rules find.                   *)
(***************************************************************************)
EXTENDS DetectionPipeline, SequenceTheorems, FiniteSetTheorems,
        WellFoundedInduction, TLAPS

(* alerts and trail grow by rows of no particular type. *)
IsSequence(s) == s \in Seq({s[i] : i \in 1..Len(s)})

LEMMA Appended ==
  ASSUME NEW s, NEW e, IsSequence(s)
  PROVE  /\ IsSequence(Append(s, e))
         /\ Len(s) \in Nat /\ Len(Append(s, e)) = Len(s) + 1
         /\ DOMAIN s = 1..Len(s) /\ DOMAIN Append(s, e) = 1..(Len(s) + 1)
         /\ \A i \in 1..Len(s) : Append(s, e)[i] = s[i]
         /\ Append(s, e)[Len(s) + 1] = e
<1> DEFINE S == {s[i] : i \in 1..Len(s)} \cup {e}
           t == Append(s, e)
<1>1. s \in Seq(S) /\ e \in S
  BY SeqMonotonic DEF IsSequence
<1> HIDE DEF S
<1>2. /\ t \in Seq(S) /\ Len(t) = Len(s) + 1
      /\ \A i \in 1..Len(s) : t[i] = s[i]
      /\ t[Len(s) + 1] = e
  BY <1>1, AppendProperties
<1>3. /\ Len(s) \in Nat /\ DOMAIN s = 1..Len(s)
      /\ Len(t) \in Nat /\ DOMAIN t = 1..Len(t)
  BY <1>1, <1>2, LenProperties
<1>4. S = {t[i] : i \in 1..Len(t)}
  BY <1>2, <1>3 DEF S
<1> QED
  BY <1>2, <1>3, <1>4 DEF IsSequence

LEMMA Rewritten ==
  ASSUME NEW s, NEW a \in DOMAIN s, NEW e, IsSequence(s)
  PROVE  /\ IsSequence([s EXCEPT ![a] = e])
         /\ Len([s EXCEPT ![a] = e]) = Len(s)
         /\ DOMAIN [s EXCEPT ![a] = e] = DOMAIN s
<1> DEFINE S == {s[i] : i \in 1..Len(s)} \cup {e}
           t == [s EXCEPT ![a] = e]
<1>1. s \in Seq(S) /\ e \in S
  BY SeqMonotonic DEF IsSequence
<1> HIDE DEF S
<1>2. Len(s) \in Nat /\ DOMAIN s = 1..Len(s)
  BY <1>1, LenProperties
<1>3. t \in Seq(S) /\ Len(t) = Len(s)
  BY <1>1, <1>2, ExceptSeq
<1> DEFINE T == {t[i] : i \in 1..Len(t)}
<1>4. t \in [1..Len(s) -> T]
  BY <1>2, <1>3
<1>5. t \in Seq(T)
  <2> HIDE DEF T, t
  <2> QED
    BY <1>2, <1>4, SeqDef
<1> QED
  BY <1>2, <1>3, <1>5 DEF IsSequence

-----------------------------------------------------------------------------
(* InForce, of any sequence of audit rows. *)
InForceIn(rows, s, n) ==
  /\ \E i \in 1..n : rows[i] = Told("created", s)
  /\ \A i \in 1..n : rows[i] # Told("deleted", s)

(* What the first n rows of the trail say of a finding looked at at that time. *)
CoveredAt(n, rule, source, at) ==
  \E i \in 1..n : /\ InForceIn(trail, trail[i].supp, n)
                  /\ trail[i].supp.rule = rule
                  /\ trail[i].supp.source \in {None, source}
                  /\ at < trail[i].supp.expires

(* The table of suppressions is what the whole trail says is in force. *)
TrailInv ==
  /\ IsSequence(trail)
  /\ deletion = [o \in Operators |-> deletion[o]]
  /\ \A i \in 1..Len(trail) : trail[i].supp.id \in 1..Len(trail)
  /\ \A o \in Operators : deletion[o] # None => deletion[o].id \in 1..Len(trail)
  /\ \A s \in supps : InForceIn(trail, s, Len(trail))
  /\ \A i \in 1..Len(trail) : InForceIn(trail, trail[i].supp, Len(trail)) => trail[i].supp \in supps

(* A finding past the suppression look-up was not covered then. *)
Uncovered(t) ==
  req[t].pc \in {"lookup", "write"} =>
    /\ req[t].told \in 0..Len(trail)
    /\ ~CoveredAt(req[t].told, HeadFinding(t).rule, req[t].event.source, req[t].at)

AnsweredAsTold ==
  \A h \in handled :
    /\ h.told \in 0..Len(trail)
    /\ h.alert = 0 <=> CoveredAt(h.told, h.rule, h.event.source, h.at)

WithheldInv ==
  /\ TrailInv
  /\ IsSequence(alerts)
  /\ req = [t \in Threads |-> req[t]]
  /\ \A t \in Threads : Uncovered(t)
  /\ \A t \in Threads : req[t].pc = "write" => req[t].found \in {0} \cup DOMAIN alerts
  /\ AnsweredAsTold

LEMMA WithheldInit == Init => WithheldInv
<1> SUFFICES ASSUME Init PROVE WithheldInv
  OBVIOUS
<1>1. Len(trail) = 0 /\ Len(alerts) = 0 /\ IsSequence(trail) /\ IsSequence(alerts)
  BY DEF Init, IsSequence
<1>2. TrailInv
  BY <1>1 DEF Init, TrailInv
<1> QED
  BY <1>1, <1>2 DEF Init, WithheldInv, Uncovered, AnsweredAsTold, Idle

(* Rows of the trail are appended only: what was said of its beginning stays. *)
LEMMA TrailGrows ==
  ASSUME TrailInv, NEW row, trail' = Append(trail, row),
         NEW n \in 0..Len(trail), NEW rule, NEW source, NEW at
  PROVE  CoveredAt(n, rule, source, at)' <=> CoveredAt(n, rule, source, at)
<1>1. \A i \in 1..n : trail'[i] = trail[i]
  BY Appended DEF TrailInv
<1> QED
  BY <1>1 DEF CoveredAt, InForceIn

(* The look-up in the table answers what the trail says. *)
LEMMA TableIsTrail ==
  ASSUME TrailInv, NEW rule, NEW source, NEW now
  PROVE  (\E s \in supps : Covers(s, rule, source, now))
           <=> CoveredAt(Len(trail), rule, source, now)
<1>1. Len(trail) \in Nat
  BY Appended DEF TrailInv
<1>2. ASSUME NEW s \in supps, Covers(s, rule, source, now)
      PROVE  CoveredAt(Len(trail), rule, source, now)
  <2>1. InForceIn(trail, s, Len(trail)) /\ s.id \in Nat \cup {s.id}
    BY DEF TrailInv
  <2>2. PICK i \in 1..Len(trail) : trail[i] = Told("created", s)
    BY <2>1 DEF InForceIn
  <2>3. trail[i].supp = s
    BY <2>2 DEF Told
  <2>4. s.rule = rule /\ now < s.expires /\ s.source \in {None, source}
    BY <1>2 DEF Covers
  <2> QED
    BY <2>1, <2>3, <2>4 DEF CoveredAt
<1>3. ASSUME CoveredAt(Len(trail), rule, source, now)
      PROVE  \E s \in supps : Covers(s, rule, source, now)
  BY <1>3 DEF CoveredAt, TrailInv, Covers
<1> QED
  BY <1>2, <1>3

(* A step of a request: the trail and the suppressions stay. *)
LEMMA RequestMoves ==
  ASSUME WithheldInv, NEW t \in Threads, NEW to,
         req' = [req EXCEPT ![t] = to],
         UNCHANGED <<supps, trail, deletion>>,
         IsSequence(alerts'), DOMAIN alerts \subseteq DOMAIN alerts',
         Uncovered(t)',
         to.pc = "write" => to.found \in {0} \cup DOMAIN alerts',
         AnsweredAsTold'
  PROVE  WithheldInv'
<1>1. TrailInv'
  BY DEF WithheldInv, TrailInv, InForceIn
<1>2. req' = [u \in Threads |-> req'[u]] /\ req'[t] = to
  BY DEF WithheldInv
<1>3. ASSUME NEW u \in Threads, u # t PROVE req'[u] = req[u]
  BY <1>3 DEF WithheldInv
<1>4. \A u \in Threads : Uncovered(u)'
  <2> SUFFICES ASSUME NEW u \in Threads, u # t PROVE Uncovered(u)'
    OBVIOUS
  <2>1. req'[u] = req[u] /\ Uncovered(u)
    BY <1>3 DEF WithheldInv
  <2> QED
    BY <2>1 DEF Uncovered, CoveredAt, InForceIn, HeadFinding
<1>5. \A u \in Threads : req'[u].pc = "write" => req'[u].found \in {0} \cup DOMAIN alerts'
  BY <1>2, <1>3 DEF WithheldInv
<1> QED
  BY <1>1, <1>2, <1>4, <1>5 DEF WithheldInv

(* The same answers, or one more that the trail confirms. *)
LEMMA AnswersMore ==
  ASSUME AnsweredAsTold, UNCHANGED trail, NEW h, handled' \subseteq handled \cup {h},
         h.told \in 0..Len(trail),
         h.alert = 0 <=> CoveredAt(h.told, h.rule, h.event.source, h.at)
  PROVE  AnsweredAsTold'
BY SMTT(30) DEF AnsweredAsTold, CoveredAt, InForceIn

LEMMA AnswersSame ==
  ASSUME AnsweredAsTold, UNCHANGED <<trail, handled>>
  PROVE  AnsweredAsTold'
BY DEF AnsweredAsTold, CoveredAt, InForceIn

LEMMA ContinueUncovered ==
  ASSUME WithheldInv, NEW t \in Threads, NEW findings, Continue(t, findings)
  PROVE  \E to : /\ req' = [req EXCEPT ![t] = to]
                 /\ to.pc # "write" /\ Uncovered(t)'
<1> DEFINE to == IF findings = <<>> THEN Idle
                 ELSE [pc |-> "match", event |-> req[t].event, todo |-> findings]
<1>1. req' = [req EXCEPT ![t] = to]
  BY DEF Continue
<1>2. to.pc \in {"idle", "match"}
  BY DEF Idle
<1>3. req'[t] = to
  BY <1>1 DEF WithheldInv
<1> QED
  BY <1>1, <1>2, <1>3 DEF Uncovered

-----------------------------------------------------------------------------
LEMMA WithheldIngest ==
  ASSUME WithheldInv, NEW t \in Threads, Ingest(t)
  PROVE  WithheldInv'
<1>1. PICK event : req' = [req EXCEPT ![t] = [pc |-> "stored", event |-> event]]
  BY DEF Ingest
<1>2. req'[t] = [pc |-> "stored", event |-> event]
  BY <1>1 DEF WithheldInv
<1>3. Uncovered(t)'
  BY <1>2 DEF Uncovered
<1>4. AnsweredAsTold'
  BY AnswersSame DEF Ingest, WithheldInv
<1> QED
  BY <1>1, <1>3, <1>4, RequestMoves DEF Ingest, WithheldInv

LEMMA WithheldEvaluate ==
  ASSUME WithheldInv, NEW t \in Threads, Evaluate(t)
  PROVE  WithheldInv'
<1>1. PICK to : /\ req' = [req EXCEPT ![t] = to]
                /\ to.pc # "write" /\ Uncovered(t)'
  BY ContinueUncovered DEF Evaluate
<1>2. AnsweredAsTold'
  BY AnswersSame DEF Evaluate, WithheldInv
<1> QED
  BY <1>1, <1>2, RequestMoves DEF Evaluate, WithheldInv

LEMMA WithheldMatch ==
  ASSUME WithheldInv, NEW t \in Threads, Match(t)
  PROVE  WithheldInv'
<1> DEFINE rule == HeadFinding(t).rule
           source == req[t].event.source
<1>1. Len(trail) \in Nat
  BY Appended DEF WithheldInv, TrailInv
<1>2. CASE \E s \in supps : Covers(s, rule, source, clock)
  <2> DEFINE h == Outcome(t, 0, clock, Len(trail))
  <2>1. handled' = handled \cup {h} /\ Continue(t, Tail(req[t].todo))
    BY <1>2 DEF Match
  <2>2. CoveredAt(Len(trail), rule, source, clock)
    BY <1>2, TableIsTrail DEF WithheldInv
  <2>3. /\ h.told = Len(trail) /\ h.alert = 0 /\ h.rule = rule
        /\ h.event.source = source /\ h.at = clock
    BY DEF Outcome
  <2>4. AnsweredAsTold'
    <3> HIDE DEF h, rule, source
    <3> QED
      BY <1>1, <2>1, <2>2, <2>3, AnswersMore DEF Match, WithheldInv
  <2>5. PICK to : /\ req' = [req EXCEPT ![t] = to]
                  /\ to.pc # "write" /\ Uncovered(t)'
    BY <2>1, ContinueUncovered
  <2> QED
    BY <2>4, <2>5, RequestMoves DEF Match, WithheldInv
<1>3. CASE ~\E s \in supps : Covers(s, rule, source, clock)
  <2> DEFINE to == [pc |-> "lookup", event |-> req[t].event, todo |-> req[t].todo,
                    at |-> clock, told |-> Len(trail)]
  <2>1. req' = [req EXCEPT ![t] = to] /\ UNCHANGED handled
    BY <1>3 DEF Match
  <2>2. ~CoveredAt(Len(trail), rule, source, clock)
    BY <1>3, TableIsTrail DEF WithheldInv
  <2>3. req'[t] = to
    BY <2>1 DEF WithheldInv
  <2>4. UNCHANGED trail
    BY DEF Match
  <2>5. Uncovered(t)'
    <3>1. \A n, r, s, at : CoveredAt(n, r, s, at)' <=> CoveredAt(n, r, s, at)
      BY <2>4 DEF CoveredAt, InForceIn
    <3>2. HeadFinding(t)'.rule = rule /\ req[t]'.event.source = source
      BY <2>3 DEF HeadFinding
    <3>3. req[t]'.told = Len(trail) /\ req[t]'.at = clock /\ Len(trail) \in 0..Len(trail)'
      BY <1>1, <2>3, <2>4
    <3> QED
      BY <2>2, <3>1, <3>2, <3>3 DEF Uncovered
  <2>6. AnsweredAsTold'
    BY <2>1, AnswersSame DEF Match, WithheldInv
  <2> QED
    BY <2>1, <2>5, <2>6, RequestMoves DEF Match, WithheldInv
<1> QED
  BY <1>2, <1>3

LEMMA WithheldLookup ==
  ASSUME WithheldInv, NEW t \in Threads, Lookup(t)
  PROVE  WithheldInv'
<1>1. PICK a \in Latest(OpenAlerts(CurrentKey(t))) :
        req' = [req EXCEPT ![t] =
                  [pc |-> "write", event |-> req[t].event, todo |-> req[t].todo,
                   at |-> req[t].at, told |-> req[t].told, found |-> a]]
  BY DEF Lookup, LookupAmong
<1>2. a \in {0} \cup DOMAIN alerts
  BY DEF Latest, OpenAlerts
<1>3. /\ req'[t].pc = "write" /\ req'[t].event = req[t].event /\ req'[t].todo = req[t].todo
      /\ req'[t].at = req[t].at /\ req'[t].told = req[t].told
  BY <1>1 DEF WithheldInv
<1>4. req[t].pc = "lookup" /\ UNCHANGED <<trail, supps, deletion, alerts, handled>>
  BY DEF Lookup, LookupAmong
<1>5. Uncovered(t)'
  BY <1>3, <1>4 DEF WithheldInv, Uncovered, HeadFinding, CoveredAt, InForceIn
<1>6. AnsweredAsTold'
  BY <1>4, AnswersSame DEF WithheldInv
<1> QED
  BY <1>1, <1>2, <1>4, <1>5, <1>6, RequestMoves DEF WithheldInv

LEMMA WithheldWrite ==
  ASSUME WithheldInv, NEW t \in Threads, WriteAlert(t)
  PROVE  WithheldInv'
<1> DEFINE a == IF req[t].found = 0 THEN Len(alerts) + 1 ELSE req[t].found
           h == Outcome(t, a, req[t].at, req[t].told)
<1>1. /\ IsSequence(alerts') /\ DOMAIN alerts \subseteq DOMAIN alerts'
      /\ Len(alerts) \in Nat
  <2>1. CASE req[t].found = 0
    BY <2>1, Appended DEF WriteAlert, WithheldInv
  <2>2. CASE req[t].found # 0
    <3>1. req[t].found \in DOMAIN alerts
      BY <2>2 DEF WriteAlert, WithheldInv
    <3> QED
      BY <2>2, <3>1, Rewritten, Appended DEF WriteAlert, WithheldInv
  <2> QED
    BY <2>1, <2>2
<1>2. h.alert # 0 /\ h.told = req[t].told /\ h.rule = HeadFinding(t).rule
      /\ h.event.source = req[t].event.source /\ h.at = req[t].at
  BY <1>1 DEF Outcome
<1>3. /\ handled' = handled \cup {h} /\ UNCHANGED <<supps, trail, deletion>>
      /\ Continue(t, Tail(req[t].todo)) /\ Uncovered(t) /\ req[t].pc = "write"
  BY DEF WriteAlert, WithheldInv
<1>4. AnsweredAsTold'
  <2> HIDE DEF h, a
  <2> QED
    BY <1>2, <1>3, AnswersMore DEF WithheldInv, Uncovered
<1>5. PICK to : /\ req' = [req EXCEPT ![t] = to]
                /\ to.pc # "write" /\ Uncovered(t)'
  BY <1>3, ContinueUncovered
<1> QED
  BY <1>1, <1>3, <1>4, <1>5, RequestMoves DEF WithheldInv

LEMMA WithheldCutOff ==
  ASSUME WithheldInv, NEW t \in Threads, CutOff(t)
  PROVE  WithheldInv'
<1>1. req' = [req EXCEPT ![t] = Idle] /\ Idle.pc = "idle"
  BY DEF CutOff, Idle
<1>2. Uncovered(t)'
  BY <1>1 DEF WithheldInv, Uncovered
<1>3. AnsweredAsTold'
  BY AnswersSame DEF CutOff, WithheldInv
<1> QED
  BY <1>1, <1>2, <1>3, RequestMoves DEF CutOff, WithheldInv

(* A step of the trail: requests and their answers stay. *)
LEMMA TrailMoves ==
  ASSUME WithheldInv, NEW row, trail' = Append(trail, row),
         UNCHANGED <<req, alerts, handled>>, TrailInv'
  PROVE  WithheldInv'
<1>1. Len(trail) \in Nat /\ Len(trail') = Len(trail) + 1
  BY Appended DEF WithheldInv, TrailInv
<1>2. ASSUME NEW n \in 0..Len(trail), NEW rule, NEW source, NEW at
      PROVE  CoveredAt(n, rule, source, at)' <=> CoveredAt(n, rule, source, at)
  BY TrailGrows DEF WithheldInv
<1>3. ASSUME NEW t \in Threads PROVE Uncovered(t)'
  <2>1. Uncovered(t)
    BY DEF WithheldInv
  <2> SUFFICES ASSUME req[t].pc \in {"lookup", "write"}
               PROVE  /\ req[t].told \in 0..Len(trail')
                      /\ ~CoveredAt(req[t].told, HeadFinding(t).rule,
                                    req[t].event.source, req[t].at)'
    BY DEF Uncovered, HeadFinding
  <2>2. req[t].told \in 0..Len(trail)
    BY <2>1 DEF Uncovered
  <2>3. ~CoveredAt(req[t].told, HeadFinding(t).rule, req[t].event.source, req[t].at)
    BY <2>1 DEF Uncovered
  <2> QED
    BY <1>1, <2>2, <2>3, TrailGrows DEF WithheldInv, HeadFinding
<1>4. AnsweredAsTold'
  <2> SUFFICES ASSUME NEW h \in handled
               PROVE  /\ h.told \in 0..Len(trail')
                      /\ h.alert = 0 <=> CoveredAt(h.told, h.rule, h.event.source, h.at)'
    BY DEF AnsweredAsTold
  <2>1. /\ h.told \in 0..Len(trail)
        /\ h.alert = 0 <=> CoveredAt(h.told, h.rule, h.event.source, h.at)
    BY DEF WithheldInv, AnsweredAsTold
  <2> QED
    BY <1>1, <2>1, TrailGrows DEF WithheldInv
<1> QED
  BY <1>3, <1>4 DEF WithheldInv

LEMMA WithheldCreate ==
  ASSUME WithheldInv, CreateSuppression
  PROVE  WithheldInv'
<1>1. PICK rule \in workload.rules, source \in workload.scopes,
           expires \in (clock + 1)..(clock + MaxTerm) :
        LET s == [id |-> Len(trail) + 1, rule |-> rule, source |-> source,
                  expires |-> expires]
        IN supps' = supps \cup {s} /\ trail' = Append(trail, Told("created", s))
  BY DEF CreateSuppression
<1>0. PICK n \in Nat : n = Len(trail)
  BY Appended DEF WithheldInv, TrailInv
<1> DEFINE s == [id |-> n + 1, rule |-> rule, source |-> source, expires |-> expires]
           row == Told("created", s)
<1>2. /\ supps' = supps \cup {s} /\ trail' = Append(trail, row)
      /\ s.id = n + 1 /\ row.supp = s
  BY <1>0, <1>1 DEF Told
<1>3. \A x : row = Told("created", x) => x = s
  BY DEF Told
<1>4. \A x : row # Told("deleted", x)
  BY DEF Told
<1> HIDE DEF s, row
<1>5. TrailInv
  BY DEF WithheldInv
<1>6. /\ n = Len(trail) /\ Len(trail') = n + 1 /\ IsSequence(trail')
      /\ \A i \in 1..n : trail'[i] = trail[i]
      /\ trail'[n + 1] = row
  BY <1>0, <1>2, <1>5, Appended DEF TrailInv
<1>7. \A i \in 1..n : trail[i] # Told("deleted", s)
  <2> SUFFICES ASSUME NEW i \in 1..n, trail[i] = Told("deleted", s) PROVE FALSE
    OBVIOUS
  <2>1. trail[i].supp = s
    BY DEF Told
  <2> QED
    BY <1>2, <1>5, <1>6, <2>1 DEF TrailInv
<1>8. InForceIn(trail', s, n + 1)
  BY <1>2, <1>4, <1>6, <1>7, Told("created", s) = row DEF InForceIn, s, row
<1>9. ASSUME NEW x, InForceIn(trail, x, n) PROVE InForceIn(trail', x, n + 1)
  BY <1>4, <1>6, <1>9 DEF InForceIn, Told
<1>10. ASSUME NEW x, InForceIn(trail', x, n + 1) PROVE x = s \/ InForceIn(trail, x, n)
  BY <1>3, <1>6, <1>10 DEF InForceIn, Told
<1>11. TrailInv'
  <2>1. \A i \in 1..(n + 1) : trail'[i].supp.id \in 1..(n + 1)
    BY <1>2, <1>5, <1>6 DEF TrailInv
  <2>2. /\ deletion' = [o \in Operators |-> deletion'[o]]
        /\ \A o \in Operators : deletion'[o] # None => deletion'[o].id \in 1..(n + 1)
    BY <1>5, <1>6 DEF TrailInv, CreateSuppression
  <2>3. \A x \in supps' : InForceIn(trail', x, n + 1)
    BY <1>2, <1>5, <1>6, <1>8, <1>9 DEF TrailInv
  <2>4. ASSUME NEW i \in 1..(n + 1), InForceIn(trail', trail'[i].supp, n + 1)
        PROVE  trail'[i].supp \in supps'
    <3>1. CASE trail'[i].supp = s
      BY <1>2, <3>1
    <3>2. CASE trail'[i].supp # s
      <4>1. i \in 1..n /\ trail'[i] = trail[i]
        BY <1>2, <1>6, <3>2
      <4>2. InForceIn(trail, trail[i].supp, n)
        BY <1>10, <2>4, <3>2, <4>1
      <4> QED
        BY <1>2, <1>5, <1>6, <4>1, <4>2 DEF TrailInv
    <3> QED
      BY <3>1, <3>2
  <2> QED
    BY <1>6, <2>1, <2>2, <2>3, <2>4 DEF TrailInv
<1> QED
  BY <1>2, <1>11, TrailMoves DEF CreateSuppression

LEMMA WithheldUnsuppress ==
  ASSUME WithheldInv, NEW o \in Operators, Unsuppress(o)
  PROVE  WithheldInv'
<1>0. PICK n \in Nat : n = Len(trail)
  BY Appended DEF WithheldInv, TrailInv
<1> DEFINE d == deletion[o]
           row == Told("deleted", d)
<1>1. /\ d # None /\ supps' = supps \ {d} /\ trail' = Append(trail, row)
      /\ deletion' = [deletion EXCEPT ![o] = None]
      /\ UNCHANGED <<req, alerts, handled>>
  BY DEF Unsuppress
<1>2. TrailInv
  BY DEF WithheldInv
<1>3. /\ n = Len(trail) /\ Len(trail') = n + 1 /\ IsSequence(trail')
      /\ \A i \in 1..n : trail'[i] = trail[i]
      /\ trail'[n + 1] = row
  BY <1>0, <1>1, <1>2, Appended DEF TrailInv
<1>4. /\ row.supp = d /\ d.id \in 1..n
      /\ \A x : row # Told("created", x)
      /\ \A x : row = Told("deleted", x) <=> x = d
  BY <1>1, <1>2, <1>3 DEF TrailInv, Told
<1> HIDE DEF d, row
<1>5. ASSUME NEW x, InForceIn(trail, x, n), x # d PROVE InForceIn(trail', x, n + 1)
  <2>1. PICK i \in 1..n : trail[i] = Told("created", x)
    BY <1>5 DEF InForceIn
  <2>2. \E j \in 1..(n + 1) : trail'[j] = Told("created", x)
    BY <1>3, <2>1
  <2>3. ASSUME NEW j \in 1..(n + 1) PROVE trail'[j] # Told("deleted", x)
    <3>1. CASE j \in 1..n
      BY <1>3, <1>5, <3>1 DEF InForceIn
    <3>2. CASE j = n + 1
      BY <1>3, <1>4, <1>5, <3>2
    <3> QED
      BY <3>1, <3>2
  <2> QED
    BY <2>2, <2>3 DEF InForceIn
<1>6. ASSUME NEW x, InForceIn(trail', x, n + 1) PROVE x # d /\ InForceIn(trail, x, n)
  <2>1. \A i \in 1..n : trail[i] # Told("deleted", x)
    BY <1>3, <1>6 DEF InForceIn
  <2>2. x # d
    BY <1>3, <1>4, <1>6 DEF InForceIn
  <2>3. PICK i \in 1..(n + 1) : trail'[i] = Told("created", x)
    BY <1>6 DEF InForceIn
  <2>4. i # n + 1
    BY <1>3, <1>4, <2>3
  <2>5. i \in 1..n /\ trail[i] = Told("created", x)
    BY <1>3, <2>3, <2>4
  <2> QED
    BY <2>1, <2>2, <2>5 DEF InForceIn
<1>7. TrailInv'
  <2>1. \A i \in 1..(n + 1) : trail'[i].supp.id \in 1..(n + 1)
    BY <1>2, <1>3, <1>4 DEF TrailInv
  <2>2. /\ deletion' = [u \in Operators |-> deletion'[u]]
        /\ \A u \in Operators : deletion'[u] # None => deletion'[u].id \in 1..(n + 1)
    <3>1. deletion' = [u \in Operators |-> IF u = o THEN None ELSE deletion[u]]
      BY <1>1, <1>2 DEF TrailInv
    <3>2. \A u \in Operators : deletion[u] # None => deletion[u].id \in 1..n
      BY <1>2, <1>3 DEF TrailInv
    <3> QED
      BY <3>1, <3>2
  <2>3. \A x \in supps' : InForceIn(trail', x, n + 1)
    BY <1>1, <1>2, <1>3, <1>5 DEF TrailInv
  <2>4. ASSUME NEW i \in 1..(n + 1), InForceIn(trail', trail'[i].supp, n + 1)
        PROVE  trail'[i].supp \in supps'
    <3>1. trail'[i].supp # d /\ InForceIn(trail, trail'[i].supp, n)
      BY <1>6, <2>4
    <3>2. i \in 1..n /\ trail'[i] = trail[i]
      BY <1>3, <1>4, <3>1
    <3> QED
      BY <1>1, <1>2, <1>3, <3>1, <3>2 DEF TrailInv
  <2> QED
    BY <1>3, <2>1, <2>2, <2>3, <2>4 DEF TrailInv
<1> QED
  BY <1>1, <1>7, TrailMoves

(* The trail, the suppressions, the requests and the answers stay. *)
LEMMA WithheldElsewhere ==
  ASSUME WithheldInv,
         \/ \E o \in Operators : AskUnsuppress(o)
         \/ \E a \in DOMAIN alerts : Triage(a)
         \/ Tick
         \/ UNCHANGED vars
  PROVE  WithheldInv'
<1>1. UNCHANGED <<trail, supps, req, handled>>
  BY DEF AskUnsuppress, Triage, Tick, vars
<1>2. TrailInv'
  <2>1. CASE deletion' = deletion
    BY <1>1, <2>1 DEF WithheldInv, TrailInv, InForceIn
  <2>2. CASE \E o \in Operators : AskUnsuppress(o)
    <3>1. PICK o \in Operators, s \in supps : deletion' = [deletion EXCEPT ![o] = s]
      BY <2>2 DEF AskUnsuppress
    <3>2. PICK i \in 1..Len(trail) : trail[i] = Told("created", s)
      BY DEF WithheldInv, TrailInv, InForceIn
    <3>3. s.id \in 1..Len(trail)
      BY <3>2 DEF Told, WithheldInv, TrailInv
    <3>4. /\ deletion' = [u \in Operators |-> deletion'[u]]
          /\ \A u \in Operators : deletion'[u] # None => deletion'[u].id \in 1..Len(trail)
      BY <3>1, <3>3 DEF WithheldInv, TrailInv
    <3> QED
      BY <1>1, <3>4 DEF WithheldInv, TrailInv, InForceIn
  <2> QED
    BY <2>1, <2>2 DEF Triage, Tick, vars
<1>3. IsSequence(alerts') /\ DOMAIN alerts' = DOMAIN alerts
  <2>1. CASE alerts' = alerts
    BY <2>1 DEF WithheldInv
  <2>2. CASE \E a \in DOMAIN alerts : Triage(a)
    <3>1. PICK a \in DOMAIN alerts : Triage(a)
      BY <2>2
    <3>2. PICK status : alerts' = [alerts EXCEPT ![a].status = status]
      BY <3>1 DEF Triage
    <3> QED
      BY <3>2, Rewritten DEF WithheldInv
  <2> QED
    BY <2>1, <2>2 DEF AskUnsuppress, Tick, vars
<1>4. AnsweredAsTold'
  BY <1>1, AnswersSame DEF WithheldInv
<1>5. ASSUME NEW t \in Threads PROVE Uncovered(t)'
  BY <1>1 DEF WithheldInv, Uncovered, CoveredAt, InForceIn, HeadFinding
<1> QED
  BY <1>1, <1>2, <1>3, <1>4, <1>5 DEF WithheldInv

LEMMA WithheldNext == WithheldInv /\ [Next]_vars => WithheldInv'
<1> SUFFICES ASSUME WithheldInv, [Next]_vars PROVE WithheldInv'
  OBVIOUS
<1>1. ASSUME NEW t \in Threads,
             Ingest(t) \/ Evaluate(t) \/ Match(t) \/ Lookup(t) \/ WriteAlert(t) \/ CutOff(t)
      PROVE  WithheldInv'
  BY <1>1, WithheldIngest, WithheldEvaluate, WithheldMatch, WithheldLookup,
     WithheldWrite, WithheldCutOff
<1>2. CASE CreateSuppression
  BY <1>2, WithheldCreate
<1>3. ASSUME NEW o \in Operators, Unsuppress(o) PROVE WithheldInv'
  BY <1>3, WithheldUnsuppress
<1> QED
  BY <1>1, <1>2, <1>3, WithheldElsewhere DEF Next

(* For any number of requests and operators, however they cross: a finding is *)
(* withheld exactly when the suppression audit trail accounts for it.         *)
THEOREM TrailExplains == Spec => []WithheldAsTold
<1>1. WithheldInv => WithheldAsTold
  BY DEF WithheldInv, AnsweredAsTold, CoveredAt, InForceIn, WithheldAsTold, InForce
<1> QED
  BY <1>1, WithheldInit, WithheldNext, PTL DEF Spec

-----------------------------------------------------------------------------
(* A request that is about to insert an alert of a key nobody else worked on  *)
(* is still right that there is no open one.                                  *)
StillNone(t) ==
  /\ req[t].pc = "write" /\ req[t].found = 0 /\ CurrentKey(t) \notin forked
  => OpenAlerts(CurrentKey(t)) = {}

OpenInv == OneOpenAlert /\ \A t \in Threads : StillNone(t)

(* A request moves on without writing, or came to write an existing alert. *)
LEMMA NothingWritten ==
  ASSUME WithheldInv, OpenInv, NEW t \in Threads, NEW to,
         req' = [req EXCEPT ![t] = to], UNCHANGED <<alerts, forked>>,
         StillNone(t)'
  PROVE  OpenInv'
<1>1. OneOpenAlert'
  BY DEF OpenInv, OneOpenAlert
<1>2. ASSUME NEW u \in Threads, u # t PROVE StillNone(u)'
  <2>1. req'[u] = req[u]
    BY <1>2 DEF WithheldInv
  <2> QED
    BY <2>1 DEF OpenInv, StillNone, OpenAlerts, CurrentKey, HeadFinding
<1> QED
  BY <1>1, <1>2 DEF OpenInv

LEMMA OpenContinue ==
  ASSUME WithheldInv, NEW t \in Threads, NEW findings, Continue(t, findings)
  PROVE  \E to : req' = [req EXCEPT ![t] = to] /\ StillNone(t)'
<1>1. PICK to : req' = [req EXCEPT ![t] = to] /\ to.pc # "write"
  BY ContinueUncovered
<1>2. req'[t] = to
  BY <1>1 DEF WithheldInv
<1> QED
  BY <1>1, <1>2 DEF StillNone

LEMMA OpenLookup ==
  ASSUME WithheldInv, OpenInv, NEW t \in Threads, Lookup(t)
  PROVE  OpenInv'
<1> DEFINE open == OpenAlerts(CurrentKey(t))
<1>1. PICK a \in Latest(open) :
        req' = [req EXCEPT ![t] =
                  [pc |-> "write", event |-> req[t].event, todo |-> req[t].todo,
                   at |-> req[t].at, told |-> req[t].told, found |-> a]]
  BY DEF Lookup, LookupAmong
<1>2. /\ req'[t].found = a /\ req'[t].event = req[t].event /\ req'[t].todo = req[t].todo
      /\ UNCHANGED <<alerts, forked>>
  BY <1>1 DEF WithheldInv, Lookup, LookupAmong
<1>3. DOMAIN alerts \subseteq Nat \ {0}
  BY Appended DEF WithheldInv
<1>4. a = 0 => open = {}
  BY <1>3 DEF Latest, OpenAlerts
<1>5. OpenAlerts(CurrentKey(t))' = open
  BY <1>2 DEF OpenAlerts, CurrentKey, HeadFinding
<1>6. StillNone(t)'
  BY <1>2, <1>4, <1>5 DEF StillNone
<1> QED
  BY <1>1, <1>2, <1>6, NothingWritten

LEMMA OpenInsert ==
  ASSUME WithheldInv, OpenInv, NEW t \in Threads, WriteAlert(t), req[t].found = 0
  PROVE  OpenInv'
<1> DEFINE k == CurrentKey(t)
           n == Len(alerts)
<1>1. /\ alerts' = Append(alerts, NewAlert(t))
      /\ forked' = IF Crossed(t) THEN forked \cup {k} ELSE forked
      /\ NewAlert(t).key = k /\ StillNone(t) /\ req[t].pc = "write"
  BY DEF WriteAlert, NewAlert, OpenInv
<1>2. /\ n \in Nat /\ DOMAIN alerts = 1..n /\ DOMAIN alerts' = 1..(n + 1)
      /\ \A i \in 1..n : alerts'[i] = alerts[i]
      /\ alerts'[n + 1].key = k
  BY <1>1, Appended DEF WithheldInv
<1>3. ASSUME NEW a \in 1..n, NEW b \in 1..(n + 1), a # b,
             alerts'[a].key = alerts'[b].key,
             alerts'[a].status # "closed", alerts'[b].status # "closed"
      PROVE  alerts'[a].key \in forked'
  <2>1. CASE b \in 1..n
    BY <1>1, <1>2, <1>3, <2>1 DEF OpenInv, OneOpenAlert
  <2>2. CASE b = n + 1
    <3>1. alerts[a].key = k /\ alerts[a].status # "closed"
      BY <1>2, <1>3, <2>2
    <3>2. OpenAlerts(k) # {}
      BY <1>2, <3>1 DEF OpenAlerts
    <3>3. k \in forked
      BY <1>1, <3>2 DEF StillNone
    <3> QED
      BY <1>1, <1>2, <3>1, <3>3
  <2> QED
    BY <2>1, <2>2
<1>4. OneOpenAlert'
  <2> SUFFICES ASSUME NEW a \in 1..(n + 1), NEW b \in 1..(n + 1), a # b,
                      alerts'[a].key = alerts'[b].key,
                      alerts'[a].status # "closed", alerts'[b].status # "closed"
               PROVE  alerts'[a].key \in forked'
    BY <1>2 DEF OneOpenAlert
  <2>1. a \in 1..n \/ b \in 1..n
    BY <1>2
  <2> QED
    BY <1>3, <2>1
<1>5. ASSUME NEW u \in Threads PROVE StillNone(u)'
  <2>1. CASE u = t
    BY <2>1, OpenContinue DEF WriteAlert
  <2>2. CASE u # t
    <3>1. req'[u] = req[u]
      BY <2>2 DEF WriteAlert, Continue, WithheldInv
    <3>2. CurrentKey(u)' = CurrentKey(u)
      BY <3>1 DEF CurrentKey, HeadFinding
    <3> SUFFICES ASSUME req[u].pc = "write", req[u].found = 0, CurrentKey(u) \notin forked'
                 PROVE  OpenAlerts(CurrentKey(u))' = {}
      BY <3>1, <3>2 DEF StillNone
    <3>3. CurrentKey(u) # k
      BY <1>1, <2>2 DEF Crossed
    <3>4. OpenAlerts(CurrentKey(u)) = {}
      BY <1>1 DEF OpenInv, StillNone
    <3>5. ASSUME NEW a \in 1..(n + 1), alerts'[a].key = CurrentKey(u)
          PROVE  alerts'[a].status = "closed"
      BY <1>2, <3>3, <3>4, <3>5 DEF OpenAlerts
    <3> QED
      BY <1>2, <3>2, <3>5 DEF OpenAlerts
  <2> QED
    BY <2>1, <2>2
<1> QED
  BY <1>4, <1>5 DEF OpenInv

(* Alerts keep their keys, and an alert that opens forks its key. *)
LEMMA OpenRewrite ==
  ASSUME OpenInv, DOMAIN alerts' = DOMAIN alerts, forked \subseteq forked',
         \A a \in DOMAIN alerts :
           /\ alerts'[a].key = alerts[a].key
           /\ \/ alerts'[a].status # "closed" => alerts[a].status # "closed"
              \/ alerts[a].key \in forked',
         \A u \in Threads : \/ req'[u] = req[u]
                            \/ req'[u].pc # "write"
  PROVE  OpenInv'
<1>1. OneOpenAlert'
  BY DEF OpenInv, OneOpenAlert
<1>2. ASSUME NEW u \in Threads PROVE StillNone(u)'
  <2>1. CASE req'[u].pc # "write"
    BY <2>1 DEF StillNone
  <2>2. CASE req'[u] = req[u]
    <3>1. CurrentKey(u)' = CurrentKey(u)
      BY <2>2 DEF CurrentKey, HeadFinding
    <3>2. StillNone(u)
      BY DEF OpenInv
    <3> QED
      BY <2>2, <3>1, <3>2 DEF StillNone, OpenAlerts
  <2> QED
    BY <2>1, <2>2
<1> QED
  BY <1>1, <1>2 DEF OpenInv

LEMMA OpenUpdate ==
  ASSUME WithheldInv, OpenInv, NEW t \in Threads, WriteAlert(t), req[t].found # 0
  PROVE  OpenInv'
<1> DEFINE f == req[t].found
<1>1. f \in DOMAIN alerts /\ UNCHANGED forked
  BY DEF WriteAlert, WithheldInv
<1>2. alerts' = [alerts EXCEPT ![f] = AnotherOccurrence(@, t)]
  BY DEF WriteAlert
<1>3. \A a \in DOMAIN alerts : alerts'[a].key = alerts[a].key
                                /\ alerts'[a].status = alerts[a].status
  BY <1>2 DEF AnotherOccurrence
<1>4. \A u \in Threads : req'[u] = req[u] \/ req'[u].pc # "write"
  BY DEF WriteAlert, Continue, WithheldInv, Idle
<1> QED
  BY <1>1, <1>2, <1>3, <1>4, OpenRewrite

LEMMA OpenTriage ==
  ASSUME OpenInv, NEW a \in DOMAIN alerts, Triage(a)
  PROVE  OpenInv'
<1>1. PICK status :
        /\ alerts' = [alerts EXCEPT ![a].status = status]
        /\ forked' = IF alerts[a].status = "closed" THEN forked \cup {alerts[a].key} ELSE forked
  BY DEF Triage
<1>2. \A b \in DOMAIN alerts :
        /\ alerts'[b].key = alerts[b].key
        /\ \/ alerts'[b].status # "closed" => alerts[b].status # "closed"
           \/ alerts[b].key \in forked'
  BY <1>1
<1> QED
  BY <1>1, <1>2, OpenRewrite DEF Triage

LEMMA OpenNext == WithheldInv /\ OpenInv /\ [Next]_vars => OpenInv'
<1> SUFFICES ASSUME WithheldInv, OpenInv, [Next]_vars PROVE OpenInv'
  OBVIOUS
<1>1. ASSUME NEW t \in Threads, Ingest(t) \/ Evaluate(t) \/ Match(t) \/ CutOff(t)
      PROVE  OpenInv'
  <2>1. \E to : req' = [req EXCEPT ![t] = to] /\ to.pc # "write"
    <3>1. CASE Ingest(t)
      BY <3>1 DEF Ingest
    <3>2. CASE Evaluate(t)
      BY <3>2, ContinueUncovered DEF Evaluate
    <3>3. CASE Match(t)
      <4>1. CASE \E findings : Continue(t, findings)
        BY <4>1, ContinueUncovered
      <4>2. CASE ~\E findings : Continue(t, findings)
        BY <3>3, <4>2 DEF Match
      <4> QED
        BY <4>1, <4>2
    <3>4. CASE CutOff(t)
      <4>1. req' = [req EXCEPT ![t] = Idle] /\ Idle.pc # "write"
        BY <3>4 DEF CutOff, Idle
      <4> QED
        BY <4>1
    <3> QED
      BY <1>1, <3>1, <3>2, <3>3, <3>4
  <2> PICK to : req' = [req EXCEPT ![t] = to] /\ to.pc # "write"
    BY <2>1
  <2>2. req'[t] = to /\ UNCHANGED <<alerts, forked>>
    BY <1>1 DEF WithheldInv, Ingest, Evaluate, Match, CutOff
  <2>3. StillNone(t)'
    BY <2>2 DEF StillNone
  <2> QED
    BY <2>2, <2>3, NothingWritten
<1>2. ASSUME NEW t \in Threads, Lookup(t) PROVE OpenInv'
  BY <1>2, OpenLookup
<1>3. ASSUME NEW t \in Threads, WriteAlert(t) PROVE OpenInv'
  BY <1>3, OpenInsert, OpenUpdate
<1>4. ASSUME NEW a \in DOMAIN alerts, Triage(a) PROVE OpenInv'
  BY <1>4, OpenTriage
<1>5. CASE \/ CreateSuppression \/ Tick \/ UNCHANGED vars
           \/ \E o \in Operators : AskUnsuppress(o) \/ Unsuppress(o)
  <2>1. UNCHANGED <<alerts, forked, req>>
    BY <1>5 DEF CreateSuppression, Tick, vars, AskUnsuppress, Unsuppress
  <2> QED
    BY <2>1, OpenRewrite
<1> QED
  BY <1>1, <1>2, <1>3, <1>4, <1>5 DEF Next

(* For any number of requests: a second open alert for one rule, source and   *)
(* session exists only if two look-ups crossed or an operator reopened one.   *)
THEOREM AlertsMerge == Spec => []OneOpenAlert
<1>1. Init => OpenInv
  BY DEF Init, OpenInv, OneOpenAlert, StillNone, Idle
<1>2. OpenInv => OneOpenAlert
  BY DEF OpenInv
<1> QED
  BY <1>1, <1>2, WithheldInit, WithheldNext, OpenNext, PTL DEF Spec
-----------------------------------------------------------------------------
(* A non-empty set of natural numbers has a least element. *)
LEMMA LeastNumber ==
  ASSUME NEW S \in SUBSET Nat, S # {}
  PROVE  \E x \in S : \A y \in S : x <= y
<1>1. PICK x \in S : \A y \in S : ~ (<<y, x>> \in OpToRel(<, Nat))
  BY NatLessThanWellFounded, WFMin, Zenon
<1>2. \A y \in S : ~ (y < x)
  BY <1>1, Zenon DEF OpToRel
<1> QED
  BY <1>2

(* Nth counts through a finite set of numbers without a repetition. *)
UpToOf(S, i) == {j \in S : j <= i}

UpToCounts(S, n) ==
  /\ UpToOf(S, 0) = {} /\ UpToOf(S, n) = S
  /\ \A i \in 0..n : IsFiniteSet(UpToOf(S, i)) /\ Cardinality(UpToOf(S, i)) \in Nat
  /\ \A i \in 1..n :
       /\ i \in S => Cardinality(UpToOf(S, i)) = Cardinality(UpToOf(S, i - 1)) + 1
       /\ i \notin S => UpToOf(S, i) = UpToOf(S, i - 1)

LEMMA UpToSteps ==
  ASSUME NEW n \in Nat, NEW S \in SUBSET (1..n)
  PROVE  UpToCounts(S, n)
<1>0. \A j \in S : j \in Nat /\ 1 <= j /\ j <= n
  OBVIOUS
<1>1. UpToOf(S, 0) = {}
  <2> SUFFICES ASSUME NEW j \in S, j <= 0 PROVE FALSE
    BY Zenon DEF UpToOf
  <2> QED
    BY <1>0
<1>2. UpToOf(S, n) = S
  <2>1. \A j \in S : j <= n
    BY <1>0
  <2> QED
    BY <2>1, Zenon DEF UpToOf
<1>3. \A i \in 0..n : IsFiniteSet(UpToOf(S, i)) /\ Cardinality(UpToOf(S, i)) \in Nat
  <2>1. IsFiniteSet(1..n)
    <3>1. 1 \in Int /\ n \in Int
      OBVIOUS
    <3> QED
      BY <3>1, FS_Interval, Zenon
  <2>2. \A i : UpToOf(S, i) \subseteq 1..n
    BY DEF UpToOf
  <2> QED
    BY <2>1, <2>2, FS_Subset, FS_CardinalityType, Zenon
<1>4. ASSUME NEW i \in 1..n, i \notin S PROVE UpToOf(S, i) = UpToOf(S, i - 1)
  <2>1. \A j \in S : j <= i <=> j <= i - 1
    BY <1>0, <1>4
  <2> QED
    BY <2>1, Zenon DEF UpToOf
<1>5. ASSUME NEW i \in 1..n, i \in S
      PROVE  Cardinality(UpToOf(S, i)) = Cardinality(UpToOf(S, i - 1)) + 1
  <2>1. \A j \in S : j <= i <=> j <= i - 1 \/ j = i
    BY <1>0, <1>5
  <2>2. ~(i <= i - 1) /\ i - 1 \in 0..n
    OBVIOUS
  <2>3. UpToOf(S, i) = UpToOf(S, i - 1) \cup {i} /\ i \notin UpToOf(S, i - 1)
    BY <1>5, <2>1, <2>2, Zenon DEF UpToOf
  <2>4. IsFiniteSet(UpToOf(S, i - 1))
    BY <1>3, <2>2, Zenon
  <2> QED
    BY <2>3, <2>4, FS_AddElement, Zenon
<1> QED
  BY <1>1, <1>2, <1>3, <1>4, <1>5, Zenon DEF UpToCounts

LEMMA NthCounts ==
  ASSUME NEW n \in Nat, NEW S \in SUBSET (1..n), NEW k \in 1..Cardinality(S)
  PROVE  Nth(S, k) \in S /\ Cardinality({j \in S : j <= Nth(S, k)}) = k
<1> DEFINE c(i) == Cardinality(UpToOf(S, i))
           A == {i \in 0..n : c(i) >= k}
<1>1. /\ c(0) = 0 /\ c(n) = Cardinality(S)
      /\ \A i \in 0..n : c(i) \in Nat
      /\ \A i \in 1..n : c(i) = IF i \in S THEN c(i - 1) + 1 ELSE c(i - 1)
  <2>1. UpToCounts(S, n) /\ Cardinality({}) = 0
    BY UpToSteps, FS_EmptySet, Zenon
  <2> QED
    BY <2>1 DEF UpToCounts
<1>2. \A i \in S : c(i) = Cardinality({j \in S : j <= i})
  BY Zenon DEF UpToOf
<1> HIDE DEF c
<1>3. A \in SUBSET Nat /\ n \in A
  BY <1>1
<1>4. PICK m \in A : \A y \in A : m <= y
  <2> HIDE DEF A
  <2> QED
    BY <1>3, LeastNumber, Zenon
<1>5. m \in 1..n /\ m - 1 \in 0..n
  BY <1>1, <1>4
<1>6. ~(c(m - 1) >= k) /\ c(m) >= k
  BY <1>4, <1>5
<1>7. m \in S /\ c(m) = k
  BY <1>1, <1>5, <1>6
<1> QED
  BY <1>2, <1>7, Zenon DEF Nth

(* A rule gives at most one finding of an event. *)
DistinctRules(todo) ==
  /\ IsSequence(todo)
  /\ \A i, j \in 1..Len(todo) : todo[i].rule = todo[j].rule => i = j

LEMMA OrderDistinct ==
  \A i, j \in 1..11 : RuleOrder[i] = RuleOrder[j] => i = j
BY DEF RuleOrder

LEMMA FindingsDistinct ==
  ASSUME NEW stored, NEW event
  PROVE  DistinctRules(Findings(stored, event))
<1> DEFINE found == {i \in 1..11 : Matches(RuleOrder[i], stored, event)}
           n == Cardinality(found)
           row(k) == [rule |-> RuleOrder[Nth(found, k)],
                      evidence |-> Evidence(RuleOrder[Nth(found, k)], stored, event)]
           todo == [k \in 1..n |-> row(k)]
<1>1. Findings(stored, event) = todo
  BY Zenon DEF Findings
<1>2. found \in SUBSET (1..11)
  OBVIOUS
<1> HIDE DEF found
<1>3. n \in Nat
  <2>1. IsFiniteSet(1..11)
    <3>1. 1 \in Int /\ 11 \in Int
      OBVIOUS
    <3> QED
      BY <3>1, FS_Interval, Zenon
  <2> QED
    BY <1>2, <2>1, FS_Subset, FS_CardinalityType, Zenon
<1> HIDE DEF n
<1>4. \A k \in 1..n : Nth(found, k) \in 1..11 /\ Cardinality({j \in found : j <= Nth(found, k)}) = k
  BY <1>2, NthCounts DEF n
<1>5. ASSUME NEW i \in 1..n, NEW j \in 1..n, row(i).rule = row(j).rule PROVE i = j
  BY <1>4, <1>5, OrderDistinct
<1>6. \A i \in 1..n : todo[i] = row(i)
  OBVIOUS
<1>7. DOMAIN todo = 1..n
  OBVIOUS
<1> HIDE DEF row
<1>8. todo \in Seq({todo[i] : i \in 1..n}) /\ Len(todo) = n
  <2> DEFINE T == {todo[i] : i \in 1..n}
  <2>1. todo \in [1..n -> T]
    OBVIOUS
  <2> HIDE DEF T, todo
  <2>2. todo \in Seq(T)
    BY <1>3, <2>1, SeqDef
  <2>3. Len(todo) = n
    BY <1>3, <1>7, <2>2, LenProperties
  <2> QED
    BY <2>2, <2>3 DEF T
<1> HIDE DEF todo
<1> QED
  BY <1>1, <1>5, <1>6, <1>8 DEF DistinctRules, IsSequence

-----------------------------------------------------------------------------
(* An event belongs to one request at most, and once its request is over to   *)
(* none; a request has no outcome yet for the rules it still has to go        *)
(* through, and it adds to an alert of its own rule, source and session.      *)
Waiting(t) ==
  req[t].pc \in {"match", "lookup", "write"} =>
    /\ DistinctRules(req[t].todo) /\ req[t].todo # <<>>
    /\ \A h \in handled, i \in 1..Len(req[t].todo) :
         h.event = req[t].event => h.rule # req[t].todo[i].rule

Unanswered(t) ==
  /\ req[t].pc # "idle" => req[t].event \in Stored
  /\ req[t].pc = "stored" => \A h \in handled : h.event # req[t].event
  /\ Waiting(t)
  /\ req[t].pc = "write" /\ req[t].found # 0 => alerts[req[t].found].key = CurrentKey(t)

Apart ==
  \A t, u \in Threads :
    t # u /\ req[t].pc # "idle" /\ req[u].pc # "idle" => req[t].event # req[u].event

CountInv ==
  /\ IsSequence(log)
  /\ IsFiniteSet(handled)
  /\ \A h \in handled : h.event \in Stored /\ h.alert \in {0} \cup DOMAIN alerts
  /\ Apart
  /\ \A t \in Threads : Unanswered(t)
  /\ CountsAddUp

(* What a step of thread t does to everything this invariant is about, but    *)
(* for what it writes into alerts and handled.                                *)
LEMMA OthersWait ==
  ASSUME WithheldInv, CountInv, NEW t \in Threads, NEW to, NEW h,
         req' = [req EXCEPT ![t] = to], Stored \subseteq Stored',
         \/ to.pc = "idle"
         \/ req[t].pc # "idle" /\ to.event = req[t].event
         \/ to.event \notin Stored,
         \/ handled' = handled
         \/ handled' = handled \cup {h} /\ h.event = req[t].event /\ req[t].pc # "idle",
         DOMAIN alerts \subseteq DOMAIN alerts',
         \A a \in DOMAIN alerts : alerts'[a].key = alerts[a].key
  PROVE  Apart' /\ \A u \in Threads : u # t => Unanswered(u)'
<1>1. req'[t] = to /\ \A u \in Threads : u # t => req'[u] = req[u]
  BY DEF WithheldInv
<1>2. Apart'
  <2>1. \A u \in Threads : req[u].pc # "idle" => req[u].event \in Stored
    BY DEF CountInv, Unanswered
  <2>2. ASSUME NEW u \in Threads, u # t, to.pc # "idle", req[u].pc # "idle"
        PROVE  to.event # req[u].event
    BY <2>1, <2>2 DEF CountInv, Apart
  <2>3. ASSUME NEW u \in Threads, NEW v \in Threads, u # v, req'[u].pc # "idle", req'[v].pc # "idle"
        PROVE  req'[u].event # req'[v].event
    <3>1. CASE u = t
      BY <1>1, <2>2, <2>3, <3>1
    <3>2. CASE v = t
      BY <1>1, <2>2, <2>3, <3>2
    <3>3. CASE u # t /\ v # t
      BY <1>1, <2>3, <3>3 DEF CountInv, Apart
    <3> QED
      BY <3>1, <3>2, <3>3
  <2> QED
    BY <2>3 DEF Apart
<1>3. ASSUME NEW u \in Threads, u # t PROVE Unanswered(u)'
  <2>1. req'[u] = req[u] /\ Unanswered(u)
    BY <1>1, <1>3 DEF CountInv
  <2>2. ASSUME NEW g \in handled', req[u].pc # "idle", g.event = req[u].event
        PROVE  g \in handled
    BY <1>3, <2>2 DEF CountInv, Apart
  <2>3. CurrentKey(u)' = CurrentKey(u)
    BY <2>1 DEF CurrentKey, HeadFinding
  <2>4. Waiting(u)'
    BY <2>1, <2>2 DEF Unanswered, Waiting
  <2>5. req'[u].pc = "stored" => \A g \in handled' : g.event # req'[u].event
    BY <2>1, <2>2 DEF Unanswered
  <2>6. req[u].pc = "write" => req[u].found \in {0} \cup DOMAIN alerts
    BY DEF WithheldInv
  <2>7. req'[u].pc # "idle" => req'[u].event \in Stored'
    BY <2>1 DEF Unanswered
  <2>8. req'[u].pc = "write" /\ req'[u].found # 0 => alerts'[req'[u].found].key = CurrentKey(u)'
    BY <2>1, <2>3, <2>6 DEF Unanswered
  <2> QED
    BY <2>4, <2>5, <2>7, <2>8 DEF Unanswered
<1> QED
  BY <1>2, <1>3

(* Going on with what is left of the findings. *)
LEMMA TailDistinct ==
  ASSUME NEW todo, DistinctRules(todo), todo # <<>>
  PROVE  /\ Len(todo) \in Nat /\ 1 \in 1..Len(todo) /\ Head(todo) = todo[1]
         /\ DistinctRules(Tail(todo)) /\ Len(Tail(todo)) = Len(todo) - 1
         /\ \A i \in 1..(Len(todo) - 1) : Tail(todo)[i] = todo[i + 1]
         /\ \A i \in 1..(Len(todo) - 1) : Tail(todo)[i].rule # todo[1].rule
<1> DEFINE S == {todo[i] : i \in 1..Len(todo)}
           n == Len(todo)
           u == Tail(todo)
<1>1. todo \in Seq(S)
  BY DEF DistinctRules, IsSequence
<1> HIDE DEF S
<1>2. n \in Nat /\ n # 0 /\ Head(todo) = todo[1]
  BY <1>1, EmptySeq, HeadTailProperties
<1>3. u \in Seq(S) /\ Len(u) = n - 1 /\ \A i \in 1..(n - 1) : u[i] = todo[i + 1]
  BY <1>1, HeadTailProperties
<1>4. IsSequence(u)
  <2> DEFINE T == {u[i] : i \in 1..(n - 1)}
  <2>1. u \in [1..(n - 1) -> T] /\ n - 1 \in Nat
    BY <1>2, <1>3, LenProperties
  <2> HIDE DEF T, u, n
  <2>2. u \in Seq(T)
    BY <2>1, SeqDef
  <2> QED
    BY <1>3, <2>2 DEF T, IsSequence
<1>5. \A i, j \in 1..n : todo[i].rule = todo[j].rule => i = j
  BY DEF DistinctRules
<1> HIDE DEF u, n
<1>6. \A i, j \in 1..(n - 1) : u[i].rule = u[j].rule => i = j
  BY <1>2, <1>3, <1>5, SMTT(30)
<1>7. \A i \in 1..(n - 1) : u[i].rule # todo[1].rule
  BY <1>2, <1>3, <1>5
<1>8. DistinctRules(u)
  BY <1>3, <1>4, <1>6 DEF DistinctRules
<1> QED
  BY <1>2, <1>3, <1>7, <1>8 DEF u, n

(* The head of the findings is answered by h: the rest waits. *)
LEMMA GoesOn ==
  ASSUME WithheldInv, CountInv, NEW t \in Threads, Continue(t, Tail(req[t].todo)),
         req[t].pc \in {"match", "lookup", "write"}, NEW h,
         handled' = handled \cup {h}, h.event = req[t].event, h.rule = HeadFinding(t).rule,
         UNCHANGED log
  PROVE  Unanswered(t)' /\ h \notin handled
         /\ \E to : /\ req' = [req EXCEPT ![t] = to]
                    /\ to.pc = "idle" \/ (req[t].pc # "idle" /\ to.event = req[t].event)
<1> DEFINE todo == req[t].todo
           rest == Tail(todo)
           to == IF rest = <<>> THEN Idle
                 ELSE [pc |-> "match", event |-> req[t].event, todo |-> rest]
<1>1. req' = [req EXCEPT ![t] = to] /\ req'[t] = to
  BY DEF Continue, WithheldInv
<1>2. Waiting(t) /\ req[t].event \in Stored
  BY DEF CountInv, Unanswered
<1>3. /\ DistinctRules(todo) /\ todo # <<>>
      /\ \A g \in handled, i \in 1..Len(todo) : g.event = req[t].event => g.rule # todo[i].rule
  BY <1>2 DEF Waiting
<1>4. /\ Len(todo) \in Nat /\ 1 \in 1..Len(todo) /\ HeadFinding(t) = todo[1]
      /\ DistinctRules(rest) /\ Len(rest) = Len(todo) - 1
      /\ \A i \in 1..(Len(todo) - 1) : rest[i] = todo[i + 1] /\ rest[i].rule # todo[1].rule
  BY <1>3, TailDistinct DEF HeadFinding
<1>5. h \notin handled
  BY <1>3, <1>4
<1>6. to.pc = "idle" \/ (req[t].pc # "idle" /\ to.event = req[t].event)
  BY DEF Idle
<1>7. Stored' = Stored
  BY DEF Stored
<1>8. CASE rest = <<>>
  <2>1. req'[t].pc = "idle"
    BY <1>1, <1>8 DEF Idle
  <2>2. Unanswered(t)'
    BY <2>1 DEF Unanswered, Waiting
  <2> QED
    BY <1>1, <1>5, <1>6, <2>2
<1>9. CASE rest # <<>>
  <2>1. req'[t].pc = "match" /\ req'[t].event = req[t].event /\ req'[t].todo = rest
    BY <1>1, <1>9
  <2>2. ASSUME NEW g \in handled', NEW i \in 1..Len(rest), g.event = req[t].event
        PROVE  g.rule # rest[i].rule
    <3>1. i \in 1..(Len(todo) - 1) /\ i + 1 \in 1..Len(todo)
      BY <1>4
    <3>2. CASE g \in handled
      BY <1>3, <1>4, <2>2, <3>1, <3>2
    <3>3. CASE g = h
      BY <1>4, <3>1, <3>3
    <3> QED
      BY <3>2, <3>3
  <2> HIDE DEF rest, todo, to
  <2>3. Waiting(t)'
    BY <1>4, <1>9, <2>1, <2>2 DEF Waiting
  <2>4. Unanswered(t)'
    BY <1>2, <1>7, <2>1, <2>3 DEF Unanswered
  <2> QED
    BY <1>1, <1>5, <1>6, <2>4
<1> QED
  BY <1>8, <1>9

CountedBy(a) == {h \in handled : h.alert = a}

(* Alerts keep key and count, and no new outcome is of an alert. *)
LEMMA CountsStay ==
  ASSUME CountInv, DOMAIN alerts' = DOMAIN alerts, DOMAIN alerts \subseteq Nat \ {0},
         \A a \in DOMAIN alerts :
           alerts'[a].key = alerts[a].key /\ alerts'[a].count = alerts[a].count,
         NEW h, h.alert = 0, handled' \in {handled, handled \cup {h}}
  PROVE  CountsAddUp'
<1> SUFFICES ASSUME NEW a \in DOMAIN alerts
             PROVE  /\ alerts'[a].count = Cardinality(CountedBy(a)')
                    /\ \A g \in CountedBy(a)' : alerts'[a].key = <<g.rule, g.event.source, g.event.session>>
  BY DEF CountsAddUp, CountedBy
<1>1. CountedBy(a)' = CountedBy(a)
  BY DEF CountedBy
<1>2. /\ alerts[a].count = Cardinality(CountedBy(a))
      /\ \A g \in CountedBy(a) : alerts[a].key = <<g.rule, g.event.source, g.event.session>>
  BY DEF CountInv, CountsAddUp, CountedBy
<1> QED
  BY <1>1, <1>2

LEMMA AlertsNumbered ==
  ASSUME WithheldInv
  PROVE  /\ DOMAIN alerts \subseteq Nat \ {0}
         /\ Len(alerts) \in Nat /\ DOMAIN alerts = 1..Len(alerts)
BY Appended DEF WithheldInv

(* A request moves within its event without an answer. *)
LEMMA CountRequest ==
  ASSUME WithheldInv, CountInv, NEW t \in Threads, NEW to,
         req' = [req EXCEPT ![t] = to], UNCHANGED <<alerts, handled>>,
         Stored \subseteq Stored', IsSequence(log'),
         \/ to.pc = "idle"
         \/ req[t].pc # "idle" /\ to.event = req[t].event
         \/ to.event \notin Stored,
         Unanswered(t)'
  PROVE  CountInv'
<1>1. Apart' /\ \A u \in Threads : u # t => Unanswered(u)'
  BY OthersWait
<1>2. CountsAddUp'
  BY DEF CountInv, CountsAddUp
<1> QED
  BY <1>1, <1>2 DEF CountInv

LEMMA CountIngest ==
  ASSUME WithheldInv, CountInv, NEW t \in Threads, Ingest(t)
  PROVE  CountInv'
<1>1. PICK event \in workload.offered \ Stored :
        /\ log' = Append(log, event)
        /\ req' = [req EXCEPT ![t] = [pc |-> "stored", event |-> event]]
  BY DEF Ingest
<1>2. req'[t] = [pc |-> "stored", event |-> event] /\ UNCHANGED <<alerts, handled>>
  BY <1>1 DEF WithheldInv, Ingest
<1>3. Stored' = Stored \cup {event} /\ IsSequence(log')
  BY <1>1, Appended DEF CountInv, Stored
<1>4. Unanswered(t)'
  BY <1>1, <1>2, <1>3 DEF CountInv, Unanswered, Waiting
<1> QED
  BY <1>1, <1>2, <1>3, <1>4, CountRequest

LEMMA CountEvaluate ==
  ASSUME WithheldInv, CountInv, NEW t \in Threads, Evaluate(t)
  PROVE  CountInv'
<1>0. PICK findings : findings = Findings(Stored, req[t].event)
  OBVIOUS
<1> DEFINE to == IF findings = <<>> THEN Idle
                 ELSE [pc |-> "match", event |-> req[t].event, todo |-> findings]
<1>1. /\ req' = [req EXCEPT ![t] = to] /\ req'[t] = to
      /\ UNCHANGED <<alerts, handled, log>> /\ req[t].pc = "stored"
  BY <1>0 DEF Evaluate, Continue, WithheldInv
<1>2. /\ req[t].event \in Stored
      /\ \A h \in handled : h.event # req[t].event
  BY <1>1 DEF CountInv, Unanswered
<1>3. DistinctRules(findings)
  BY <1>0, FindingsDistinct
<1>4. Stored' = Stored /\ IsSequence(log')
  BY <1>1 DEF Stored, CountInv
<1>5. CASE findings = <<>>
  <2>1. req'[t].pc = "idle" /\ to.pc = "idle"
    BY <1>1, <1>5 DEF Idle
  <2>2. Unanswered(t)'
    BY <2>1 DEF Unanswered, Waiting
  <2> HIDE DEF to
  <2> QED
    BY <1>1, <1>4, <2>1, <2>2, CountRequest
<1>6. CASE findings # <<>>
  <2>1. /\ req'[t].pc = "match" /\ req'[t].event = req[t].event /\ req'[t].todo = findings
        /\ to.event = req[t].event
    BY <1>1, <1>6
  <2> HIDE DEF to
  <2>2. Unanswered(t)'
    BY <1>1, <1>2, <1>3, <1>4, <1>6, <2>1 DEF Unanswered, Waiting
  <2> QED
    BY <1>1, <1>4, <2>1, <2>2, CountRequest
<1> QED
  BY <1>5, <1>6

LEMMA CountMatch ==
  ASSUME WithheldInv, CountInv, NEW t \in Threads, Match(t)
  PROVE  CountInv'
<1>1. req[t].pc = "match" /\ UNCHANGED <<alerts, log>>
  BY DEF Match
<1>2. Stored' = Stored /\ IsSequence(log') /\ Unanswered(t)
  BY <1>1 DEF Stored, CountInv
<1>3. CASE \E s \in supps : Covers(s, HeadFinding(t).rule, req[t].event.source, clock)
  <2>1. PICK h : h = Outcome(t, 0, clock, Len(trail))
    OBVIOUS
  <2>2. /\ handled' = handled \cup {h} /\ Continue(t, Tail(req[t].todo))
        /\ h.event = req[t].event /\ h.rule = HeadFinding(t).rule /\ h.alert = 0
    BY <1>3, <2>1 DEF Match, Outcome
  <2>3. /\ Unanswered(t)' /\ h \notin handled
        /\ \E to : /\ req' = [req EXCEPT ![t] = to]
                   /\ to.pc = "idle" \/ (req[t].pc # "idle" /\ to.event = req[t].event)
    BY <1>1, <2>2, GoesOn
  <2>4. Apart' /\ \A u \in Threads : u # t => Unanswered(u)'
    BY <1>1, <1>2, <2>2, <2>3, OthersWait
  <2>5. CountsAddUp'
    BY <1>1, <2>2, AlertsNumbered, CountsStay
  <2>6. IsFiniteSet(handled')
    BY <2>2, FS_AddElement DEF CountInv
  <2>7. req[t].event \in Stored
    BY <1>1, <1>2 DEF Unanswered
  <2>8. \A g \in handled' : g.event \in Stored' /\ g.alert \in {0} \cup DOMAIN alerts'
    BY <1>1, <1>2, <2>2, <2>7 DEF CountInv
  <2> QED
    BY <1>2, <2>3, <2>4, <2>5, <2>6, <2>8 DEF CountInv
<1>4. CASE ~\E s \in supps : Covers(s, HeadFinding(t).rule, req[t].event.source, clock)
  <2>1. PICK to : to = [pc |-> "lookup", event |-> req[t].event, todo |-> req[t].todo,
                        at |-> clock, told |-> Len(trail)]
    OBVIOUS
  <2>2. /\ req' = [req EXCEPT ![t] = to] /\ req'[t] = to
        /\ to.pc = "lookup" /\ to.event = req[t].event /\ to.todo = req[t].todo
        /\ handled' = handled
    BY <1>4, <2>1 DEF Match, WithheldInv
  <2>3. Unanswered(t)'
    BY <1>1, <1>2, <2>2 DEF Unanswered, Waiting
  <2> QED
    BY <1>1, <1>2, <2>2, <2>3, CountRequest
<1> QED
  BY <1>3, <1>4

LEMMA CountLookup ==
  ASSUME WithheldInv, CountInv, NEW t \in Threads, Lookup(t)
  PROVE  CountInv'
<1>1. PICK a \in Latest(OpenAlerts(CurrentKey(t))) :
        req' = [req EXCEPT ![t] =
                  [pc |-> "write", event |-> req[t].event, todo |-> req[t].todo,
                   at |-> req[t].at, told |-> req[t].told, found |-> a]]
  BY DEF Lookup, LookupAmong
<1>2. PICK to : to = [pc |-> "write", event |-> req[t].event, todo |-> req[t].todo,
                      at |-> req[t].at, told |-> req[t].told, found |-> a]
  OBVIOUS
<1>3. /\ req' = [req EXCEPT ![t] = to] /\ req'[t] = to
      /\ to.pc = "write" /\ to.event = req[t].event /\ to.todo = req[t].todo /\ to.found = a
      /\ req[t].pc = "lookup" /\ UNCHANGED <<alerts, handled, log>>
  BY <1>1, <1>2 DEF WithheldInv, Lookup, LookupAmong
<1>4. Stored' = Stored /\ IsSequence(log') /\ Unanswered(t)
  BY <1>3 DEF Stored, CountInv
<1>5. a # 0 => alerts[a].key = CurrentKey(t)
  BY DEF Latest, OpenAlerts
<1>6. CurrentKey(t)' = CurrentKey(t)
  BY <1>3 DEF CurrentKey, HeadFinding
<1>7. Unanswered(t)'
  BY <1>3, <1>4, <1>5, <1>6 DEF Unanswered, Waiting
<1> QED
  BY <1>3, <1>4, <1>7, CountRequest

(* The alert that answers a finding, the same one or a new one, counts it.    *)
LEMMA CountWrite ==
  ASSUME WithheldInv, CountInv, NEW t \in Threads, WriteAlert(t)
  PROVE  CountInv'
<1>1. PICK b : b = IF req[t].found = 0 THEN Len(alerts) + 1 ELSE req[t].found
  OBVIOUS
<1>2. PICK h : h = Outcome(t, b, req[t].at, req[t].told)
  OBVIOUS
<1>3. /\ handled' = handled \cup {h} /\ Continue(t, Tail(req[t].todo)) /\ UNCHANGED log
      /\ h.event = req[t].event /\ h.rule = HeadFinding(t).rule /\ h.alert = b
      /\ req[t].pc = "write"
  BY <1>1, <1>2 DEF WriteAlert, Outcome
<1>4. /\ Unanswered(t)' /\ h \notin handled
      /\ \E to : /\ req' = [req EXCEPT ![t] = to]
                 /\ to.pc = "idle" \/ (req[t].pc # "idle" /\ to.event = req[t].event)
  BY <1>3, GoesOn
<1>5. /\ Stored' = Stored /\ IsSequence(log') /\ req[t].event \in Stored
      /\ req[t].found # 0 => alerts[req[t].found].key = CurrentKey(t)
  BY <1>3 DEF Stored, CountInv, Unanswered
<1>6. CurrentKey(t) = <<h.rule, h.event.source, h.event.session>>
  BY <1>3 DEF CurrentKey, Key
<1>7. PICK n \in Nat : n = Len(alerts) /\ DOMAIN alerts = 1..n
  BY AlertsNumbered
<1>8. /\ b \in 1..(n + 1) /\ DOMAIN alerts' = 1..n \cup {b}
      /\ \A a \in 1..n : a # b => alerts'[a] = alerts[a]
      /\ \A a \in 1..n : alerts'[a].key = alerts[a].key
      /\ alerts'[b].key = CurrentKey(t)
      /\ b \in 1..n => alerts'[b].count = alerts[b].count + 1
      /\ b \notin 1..n => alerts'[b].count = 1
  <2>1. CASE req[t].found = 0
    <3>1. alerts' = Append(alerts, NewAlert(t)) /\ b = n + 1
      BY <1>1, <1>7, <2>1 DEF WriteAlert
    <3>2. NewAlert(t).key = CurrentKey(t) /\ NewAlert(t).count = 1
      BY DEF NewAlert
    <3>3. /\ DOMAIN alerts' = 1..(n + 1)
          /\ \A i \in 1..n : alerts'[i] = alerts[i]
          /\ alerts'[n + 1] = NewAlert(t)
      BY <1>7, <3>1, Appended DEF WithheldInv
    <3> QED
      BY <1>7, <3>1, <3>2, <3>3
  <2>2. CASE req[t].found # 0
    <3>1. b \in 1..n /\ alerts' = [alerts EXCEPT ![b] = AnotherOccurrence(@, t)] /\ b = req[t].found
      BY <1>1, <1>3, <1>7, <2>2 DEF WriteAlert, WithheldInv
    <3>2. alerts'[b].key = alerts[b].key /\ alerts'[b].count = alerts[b].count + 1
      BY <1>7, <3>1 DEF AnotherOccurrence
    <3>3. DOMAIN alerts' = 1..n /\ \A a \in 1..n : a # b => alerts'[a] = alerts[a]
      BY <1>7, <3>1
    <3> QED
      BY <1>5, <2>2, <3>1, <3>2, <3>3
  <2> QED
    BY <2>1, <2>2
<1>9. Apart' /\ \A u \in Threads : u # t => Unanswered(u)'
  BY <1>3, <1>4, <1>5, <1>7, <1>8, OthersWait, ZenonT(60)
<1>10. IsFiniteSet(handled')
  BY <1>3, FS_AddElement DEF CountInv
<1>11. \A g \in handled : g.event \in Stored /\ g.alert \in 0..n
  BY <1>7 DEF CountInv
<1>12. \A g \in handled' : g.event \in Stored' /\ g.alert \in {0} \cup DOMAIN alerts'
  BY <1>3, <1>5, <1>8, <1>11
<1>13. ASSUME NEW a \in DOMAIN alerts'
       PROVE  /\ alerts'[a].count = Cardinality(CountedBy(a)')
              /\ \A g \in CountedBy(a)' : alerts'[a].key = <<g.rule, g.event.source, g.event.session>>
  <2>1. a \in 1..n =>
          /\ alerts[a].count = Cardinality(CountedBy(a))
          /\ \A g \in CountedBy(a) : alerts[a].key = <<g.rule, g.event.source, g.event.session>>
    BY <1>7 DEF CountInv, CountsAddUp, CountedBy
  <2>2. CASE a # b
    <3>1. CountedBy(a)' = CountedBy(a)
      BY <1>3, <2>2 DEF CountedBy
    <3>2. a \in 1..n /\ alerts'[a] = alerts[a]
      BY <1>8, <2>2
    <3> QED
      BY <2>1, <3>1, <3>2
  <2>3. CASE a = b
    <3>1. CountedBy(a)' = CountedBy(a) \cup {h} /\ h \notin CountedBy(a)
      BY <1>3, <1>4, <2>3 DEF CountedBy
    <3>2. IsFiniteSet(CountedBy(a))
      <4>1. CountedBy(a) \subseteq handled
        BY DEF CountedBy
      <4> QED
        BY <4>1, FS_Subset DEF CountInv
    <3>3. Cardinality(CountedBy(a)') = Cardinality(CountedBy(a)) + 1
      BY <3>1, <3>2, FS_AddElement, Zenon
    <3>4. CASE a \in 1..n
      <4>1. alerts[a].key = CurrentKey(t)
        BY <1>8, <2>3, <3>4
      <4> QED
        BY <1>6, <1>8, <2>1, <2>3, <3>1, <3>3, <3>4, <4>1
    <3>5. CASE a \notin 1..n
      <4>1. CountedBy(a) = {}
        BY <1>8, <1>11, <2>3, <3>5 DEF CountedBy
      <4>2. Cardinality(CountedBy(a)) = 0
        BY <4>1, FS_EmptySet
      <4> QED
        BY <1>6, <1>8, <2>3, <3>1, <3>3, <3>5, <4>1, <4>2
    <3> QED
      BY <3>4, <3>5
  <2> QED
    BY <2>2, <2>3
<1>14. CountsAddUp'
  BY <1>13 DEF CountsAddUp, CountedBy
<1> QED
  BY <1>4, <1>5, <1>9, <1>10, <1>12, <1>14 DEF CountInv

LEMMA CountCutOff ==
  ASSUME WithheldInv, CountInv, NEW t \in Threads, CutOff(t)
  PROVE  CountInv'
<1>1. /\ req' = [req EXCEPT ![t] = Idle] /\ req'[t] = Idle /\ Idle.pc = "idle"
      /\ UNCHANGED <<alerts, handled, log>>
  BY DEF CutOff, WithheldInv, Idle
<1>2. Stored' = Stored /\ IsSequence(log') /\ Unanswered(t)'
  BY <1>1 DEF Stored, CountInv, Unanswered, Waiting
<1> QED
  BY <1>1, <1>2, CountRequest

(* Steps of operators and of the clock. *)
LEMMA CountElsewhere ==
  ASSUME WithheldInv, CountInv, UNCHANGED <<log, req, handled>>,
         \/ alerts' = alerts
         \/ \E a \in DOMAIN alerts : Triage(a)
  PROVE  CountInv'
<1>1. /\ DOMAIN alerts' = DOMAIN alerts
      /\ \A a \in DOMAIN alerts :
           alerts'[a].key = alerts[a].key /\ alerts'[a].count = alerts[a].count
  <2>1. CASE alerts' = alerts
    BY <2>1
  <2>2. CASE \E a \in DOMAIN alerts : Triage(a)
    <3>1. PICK a \in DOMAIN alerts : Triage(a)
      BY <2>2
    <3>2. PICK status : alerts' = [alerts EXCEPT ![a].status = status]
      BY <3>1 DEF Triage
    <3> QED
      BY <3>2
  <2> QED
    BY <2>1, <2>2
<1>2. CountsAddUp'
  BY <1>1 DEF CountInv, CountsAddUp
<1>3. Stored' = Stored
  BY DEF Stored
<1>4. ASSUME NEW t \in Threads PROVE Unanswered(t)'
  <2>1. Unanswered(t) /\ (req[t].pc = "write" => req[t].found \in {0} \cup DOMAIN alerts)
    BY DEF CountInv, WithheldInv
  <2>2. CurrentKey(t)' = CurrentKey(t)
    BY DEF CurrentKey, HeadFinding
  <2>3. Waiting(t)'
    BY <2>1 DEF Unanswered, Waiting
  <2> QED
    BY <1>1, <1>3, <2>1, <2>2, <2>3 DEF Unanswered
<1> QED
  BY <1>1, <1>2, <1>3, <1>4 DEF CountInv, Apart

LEMMA CountNext == WithheldInv /\ CountInv /\ [Next]_vars => CountInv'
<1> SUFFICES ASSUME WithheldInv, CountInv, [Next]_vars PROVE CountInv'
  OBVIOUS
<1>1. ASSUME NEW t \in Threads,
             Ingest(t) \/ Evaluate(t) \/ Match(t) \/ Lookup(t) \/ WriteAlert(t) \/ CutOff(t)
      PROVE  CountInv'
  BY <1>1, CountIngest, CountEvaluate, CountMatch, CountLookup, CountWrite, CountCutOff
<1>2. CASE \/ \E a \in DOMAIN alerts : Triage(a)
           \/ CreateSuppression \/ Tick \/ UNCHANGED vars
           \/ \E o \in Operators : AskUnsuppress(o) \/ Unsuppress(o)
  <2>1. UNCHANGED <<log, req, handled>>
    BY <1>2 DEF Triage, CreateSuppression, Tick, vars, AskUnsuppress, Unsuppress
  <2>2. alerts' = alerts \/ \E a \in DOMAIN alerts : Triage(a)
    BY <1>2 DEF CreateSuppression, Tick, vars, AskUnsuppress, Unsuppress
  <2> QED
    BY <2>1, <2>2, CountElsewhere
<1> QED
  BY <1>1, <1>2 DEF Next

LEMMA CountInit == Init => CountInv
<1> SUFFICES ASSUME Init PROVE CountInv
  OBVIOUS
<1>1. IsSequence(log) /\ handled = {} /\ DOMAIN alerts = {}
  BY DEF Init, IsSequence
<1>2. CountsAddUp
  BY <1>1 DEF CountsAddUp
<1>3. IsFiniteSet(handled)
  BY <1>1, FS_EmptySet
<1> QED
  BY <1>1, <1>2, <1>3 DEF Init, CountInv, Apart, Unanswered, Waiting, Idle

(* For any number of requests and operators, however their look-ups cross and *)
(* wherever requests are cut off, an alert counts exactly the findings of its *)
(* rule, source and session that were recorded in it.                         *)
THEOREM AlertsCount == Spec => []CountsAddUp
<1>1. CountInv => CountsAddUp
  BY DEF CountInv
<1> QED
  BY <1>1, CountInit, WithheldInit, WithheldNext, CountNext, PTL DEF Spec
-----------------------------------------------------------------------------
(* The rules find what the documentation calls a burst, and nothing else.     *)
LEMMA RuleNames ==
  /\ SingleRules = {"honeytoken_reuse", "download_attempt", "command_staging_detected",
                    "suricata_high_severity"}
  /\ TemporalRules = {"multiple_auth_failures", "credential_bruteforce", "credential_reuse",
                      "web_scanning", "path_traversal_sequence", "rapid_port_sequence",
                      "recon_burst"}
<1>1. SingleRules = {RuleOrder[1], RuleOrder[2], RuleOrder[3], RuleOrder[4]}
  <2>1. 1..4 = {1, 2, 3, 4}
    OBVIOUS
  <2> QED
    BY <2>1 DEF SingleRules
<1>2. TemporalRules = {RuleOrder[5], RuleOrder[6], RuleOrder[7], RuleOrder[8], RuleOrder[9],
                       RuleOrder[10], RuleOrder[11]}
  <2>1. 5..11 = {5, 6, 7, 8, 9, 10, 11}
    OBVIOUS
  <2> QED
    BY <2>1 DEF TemporalRules
<1> QED
  BY <1>1, <1>2 DEF RuleOrder

(* What each temporal rule asks of the events it counts. *)
LEMMA WhatSuffices ==
  ASSUME NEW E
  PROVE  /\ Suffices("multiple_auth_failures", E) <=> Many("multiple_auth_failures", "attempts", E)
         /\ Suffices("credential_bruteforce", E) <=>
              /\ Many("credential_bruteforce", "attempts", E)
              /\ Distinct(E, "user") >= Threshold["credential_bruteforce"]["usernames"]
         /\ Suffices("credential_reuse", E) <=>
              /\ Many("credential_reuse", "events", E)
              /\ Distinct(E, "source") >= Threshold["credential_reuse"]["sources"]
         /\ Suffices("web_scanning", E) <=>
              Distinct(E, "path") >= Threshold["web_scanning"]["paths"]
         /\ Suffices("path_traversal_sequence", E) <=> Many("path_traversal_sequence", "events", E)
         /\ Suffices("rapid_port_sequence", E) <=>
              Distinct(E, "port") >= Threshold["rapid_port_sequence"]["ports"]
         /\ Suffices("recon_burst", E) <=>
              /\ Many("recon_burst", "events", E)
              /\ \/ Distinct(E, "service") >= Threshold["recon_burst"]["services"]
                 \/ Distinct(E, "port") >= Threshold["recon_burst"]["ports"]
<1>1. Suffices("multiple_auth_failures", E) <=> Many("multiple_auth_failures", "attempts", E)
  BY DEF Suffices, ThresholdNames, Reaches, Measure, Many
<1>2. Suffices("credential_bruteforce", E) <=>
              /\ Many("credential_bruteforce", "attempts", E)
              /\ Distinct(E, "user") >= Threshold["credential_bruteforce"]["usernames"]
  BY DEF Suffices, ThresholdNames, Reaches, Measure, Many
<1>3. Suffices("credential_reuse", E) <=>
              /\ Many("credential_reuse", "events", E)
              /\ Distinct(E, "source") >= Threshold["credential_reuse"]["sources"]
  BY DEF Suffices, ThresholdNames, Reaches, Measure, Many
<1>4. Suffices("web_scanning", E) <=>
              Distinct(E, "path") >= Threshold["web_scanning"]["paths"]
  BY DEF Suffices, ThresholdNames, Reaches, Measure
<1>5. Suffices("path_traversal_sequence", E) <=> Many("path_traversal_sequence", "events", E)
  BY DEF Suffices, ThresholdNames, Reaches, Measure, Many
<1>6. Suffices("rapid_port_sequence", E) <=>
              Distinct(E, "port") >= Threshold["rapid_port_sequence"]["ports"]
  BY DEF Suffices, ThresholdNames, Reaches, Measure
<1>7. Suffices("recon_burst", E) <=>
              /\ Many("recon_burst", "events", E)
              /\ \/ Distinct(E, "service") >= Threshold["recon_burst"]["services"]
                 \/ Distinct(E, "port") >= Threshold["recon_burst"]["ports"]
  BY DEF Suffices, Reaches, Measure, Many
<1> QED
  BY <1>1, <1>2, <1>3, <1>4, <1>5, <1>6, <1>7, Zenon

LEMMA ThresholdsAreNumbers ==
  /\ Threshold["multiple_auth_failures"]["attempts"] \in Nat
  /\ Threshold["credential_bruteforce"]["attempts"] \in Nat
  /\ Threshold["credential_bruteforce"]["usernames"] \in Nat
  /\ Threshold["credential_reuse"]["events"] \in Nat
  /\ Threshold["credential_reuse"]["sources"] \in Nat
  /\ Threshold["web_scanning"]["paths"] \in Nat
  /\ Threshold["path_traversal_sequence"]["events"] \in Nat
  /\ Threshold["rapid_port_sequence"]["ports"] \in Nat
  /\ Threshold["recon_burst"]["events"] \in Nat
  /\ Threshold["recon_burst"]["services"] \in Nat
  /\ Threshold["recon_burst"]["ports"] \in Nat
<1>1. \A rule \in TemporalRules : \A name \in ThresholdNames[rule] : Threshold[rule][name] \in Nat
  BY RulesAssumption
<1>2. /\ "attempts" \in ThresholdNames["multiple_auth_failures"]
      /\ {"attempts", "usernames"} \subseteq ThresholdNames["credential_bruteforce"]
      /\ {"events", "sources"} \subseteq ThresholdNames["credential_reuse"]
      /\ "paths" \in ThresholdNames["web_scanning"]
      /\ "events" \in ThresholdNames["path_traversal_sequence"]
      /\ "ports" \in ThresholdNames["rapid_port_sequence"]
      /\ {"events", "services", "ports"} \subseteq ThresholdNames["recon_burst"]
  BY DEF ThresholdNames
<1> QED
  BY <1>1, <1>2, RuleNames, Zenon

-----------------------------------------------------------------------------
(* Distinct values of a field and events that differ in it come to the same.  *)
FieldValues(E, field) == {e[field] : e \in E} \ {None}

LEMMA ValuesFinite ==
  ASSUME NEW E, IsFiniteSet(E), NEW field
  PROVE  IsFiniteSet(FieldValues(E, field)) /\ Distinct(E, field) \in Nat
         /\ Distinct(E, field) = Cardinality(FieldValues(E, field))
<1> DEFINE V == {e[field] : e \in E}
<1>1. IsFiniteSet(V)
  <2>1. [e \in E |-> e[field]] \in Surjection(E, V)
    BY DEF Surjection
  <2> HIDE DEF V
  <2> QED
    BY <2>1, FS_Surjection, Zenon
<1>2. FieldValues(E, field) \in SUBSET V
  BY DEF FieldValues
<1>3. Distinct(E, field) = Cardinality(FieldValues(E, field))
  BY DEF FieldValues, Distinct
<1> QED
  BY <1>1, <1>2, <1>3, FS_Subset, FS_CardinalityType, Zenon

LEMMA DistinctGrows ==
  ASSUME NEW E, IsFiniteSet(E), NEW S \in SUBSET E, NEW rule, NEW name, NEW field,
         Threshold[rule][name] \in Nat, AtLeast(rule, name, field, S)
  PROVE  Distinct(E, field) >= Threshold[rule][name]
<1>1. PICK T \in SUBSET S :
        /\ Cardinality(T) >= Threshold[rule][name]
        /\ \A e, f \in T : e[field] # None /\ (e # f => e[field] # f[field])
  BY DEF AtLeast
<1>2. [e \in T |-> e[field]] \in Injection(T, FieldValues(E, field))
  BY <1>1 DEF Injection, IsInjective, FieldValues
<1>3. Cardinality(T) <= Cardinality(FieldValues(E, field))
  BY <1>2, ValuesFinite, FS_Injection, Zenon
<1>4. T \in SUBSET E
  OBVIOUS
<1>5. Cardinality(T) \in Nat
  BY <1>4, FS_Subset, FS_CardinalityType, Zenon
<1>6. Distinct(E, field) = Cardinality(FieldValues(E, field)) /\ Distinct(E, field) \in Nat
  BY ValuesFinite, Zenon
<1> QED
  BY <1>1, <1>3, <1>5, <1>6

LEMMA DistinctShown ==
  ASSUME NEW E, IsFiniteSet(E), NEW rule, NEW name, NEW field,
         Distinct(E, field) >= Threshold[rule][name]
  PROVE  AtLeast(rule, name, field, E)
<1> DEFINE V == FieldValues(E, field)
           one(v) == CHOOSE e \in E : e[field] = v
           T == {one(v) : v \in V}
           f == [v \in V |-> one(v)]
<1>1. \A v \in V : one(v) \in E /\ one(v)[field] = v /\ v # None
  BY DEF FieldValues
<1> HIDE DEF one, V
<1>2. f \in Bijection(V, T)
  BY <1>1 DEF Bijection, Injection, Surjection, IsInjective
<1>3. IsFiniteSet(V) /\ Cardinality(V) = Distinct(E, field)
  BY ValuesFinite, Zenon DEF V
<1>4. ExistsBijection(V, T)
  BY <1>2 DEF ExistsBijection
<1>5. T \in SUBSET E /\ \A x, y \in T : x[field] # None /\ (x # y => x[field] # y[field])
  BY <1>1
<1> HIDE DEF T, f
<1>6. Cardinality(T) = Distinct(E, field)
  BY <1>3, <1>4, FS_Bijection, Zenon
<1> QED
  BY <1>5, <1>6 DEF AtLeast

-----------------------------------------------------------------------------
Timed(E) == \A e \in E : e.ts \in Int /\ e.id \in Int

(* The limit of a query leaves an event in when no more than the limit are as new. *)
LEMMA NewestKeeps ==
  ASSUME NEW limit \in Nat, NEW E, Timed(E), NEW e \in E, NEW B, IsFiniteSet(B),
         \A f \in E : f.ts >= e.ts => f \in B, Cardinality(B) <= limit
  PROVE  e \in Newest(limit, E)
<1> DEFINE newer == {f \in E : \/ f.ts > e.ts
                               \/ f.ts = e.ts /\ f.id > e.id}
<1>1. newer \in SUBSET (B \ {e}) /\ e \in B
  BY DEF Timed
<1> HIDE DEF newer
<1>2. IsFiniteSet(B \ {e}) /\ Cardinality(B \ {e}) = Cardinality(B) - 1 /\ Cardinality(B) \in Nat
  BY <1>1, FS_RemoveElement, FS_CardinalityType
<1>3. Cardinality(newer) <= Cardinality(B \ {e}) /\ Cardinality(newer) \in Nat
  BY <1>1, <1>2, FS_Subset, FS_CardinalityType, Zenon
<1>4. Cardinality(newer) < limit
  BY <1>2, <1>3
<1> QED
  BY <1>4 DEF Newest, newer

(* What the window of a rule holds. *)
LEMMA CountedHolds ==
  ASSUME NEW some, Timed(some), NEW event \in some, NEW rule \in TemporalRules
  PROVE  /\ Counted(rule, some, event) \in SUBSET some
         /\ \A e \in Counted(rule, some, event) :
              /\ e.ts <= event.ts /\ event.ts - e.ts <= Window[rule]
              /\ SameSource(rule, e, event) /\ Counts(rule, e, event)
<1>1. Context(some, event) \in SUBSET some
  BY DEF Context, OfSource, OfSecret, Newest, Before
<1>2. \A e \in Context(some, event) : e.ts <= event.ts
  BY DEF Context, OfSource, OfSecret, Newest, Before, Timed
<1> QED
  BY <1>1, <1>2 DEF Counted, Seen

(* A burst within reach lies in the window of its latest event. *)
LEMMA BurstIsSeen ==
  ASSUME IsFiniteSet(Stored), Timed(Stored), NEW some \in SUBSET Stored, NEW event \in some,
         NEW rule \in TemporalRules, NEW S \in SUBSET some, event \in S,
         \A e \in S : e.ts <= event.ts,
         Burst(rule, S, event), InReach(rule, S, event)
  PROVE  /\ S \subseteq Seen(rule, some, event)
         /\ event.source # None
<1>1. rule \notin SingleRules
  BY RuleNames
<1>2. Window[rule] \in Nat /\ Window[rule] <= Lookback /\ Lookback \in Nat
      /\ SourceLimit \in Nat /\ CredentialLimit \in Nat
  BY RulesAssumption
<1>3. Within(rule, S)
  BY <1>1 DEF Burst
<1>4. \A e \in S : event.ts - e.ts <= Window[rule]
  BY <1>3 DEF Within
<1>5. \A e \in S : e \in Before(some, event)
  BY <1>2, <1>4 DEF Before, Timed
<1>6. Timed(some)
  BY DEF Timed
<1>7. CASE rule # "credential_reuse"
  <2>1. OneSource(S)
    BY <1>1, <1>7 DEF Burst
  <2>2. event.source # None /\ \A e \in S : e.source = event.source
    BY <2>1 DEF OneSource
  <2> DEFINE E == {e \in Before(some, event) : event.source # None /\ e.source = event.source}
             B == {e \in Stored : /\ e.source = event.source /\ e.ts <= event.ts
                                  /\ \E f \in S : f.ts <= e.ts}
  <2>3. Cardinality(B) <= SourceLimit
    BY <1>7 DEF InReach
  <2>4. B \in SUBSET Stored
    OBVIOUS
  <2>5. IsFiniteSet(B)
    <3> HIDE DEF B
    <3> QED
      BY <2>4, FS_Subset, Zenon
  <2>6. Timed(E)
    BY <1>6 DEF Timed, Before
  <2>7. ASSUME NEW e \in S PROVE e \in OfSource(some, event)
    <3>1. e \in E
      BY <1>5, <2>2
    <3>2. \A f \in E : f.ts >= e.ts => f \in B
      <4> SUFFICES ASSUME NEW f \in E, f.ts >= e.ts PROVE f \in B
        OBVIOUS
      <4>1. f \in Stored /\ f.source = event.source /\ f.ts <= event.ts
        BY DEF Before
      <4>2. e.ts <= f.ts
        BY <2>6, <3>1 DEF Timed
      <4> QED
        BY <4>1, <4>2
    <3> HIDE DEF E, B
    <3>3. e \in Newest(SourceLimit, E)
      BY <1>2, <2>3, <2>5, <2>6, <3>1, <3>2, NewestKeeps, Zenon
    <3> QED
      BY <3>3 DEF OfSource, E
  <2> QED
    BY <1>4, <2>2, <2>7 DEF Seen, Context, SameSource
<1>8. CASE rule = "credential_reuse"
  <2>2. /\ event.source # None /\ event.secret # None
        /\ \A e \in S : e.secret = event.secret
    BY <1>1, <1>8 DEF Burst
  <2> DEFINE E == {e \in Before(some, event) : event.secret # None /\ e.secret = event.secret}
             B == {e \in Stored : /\ e.secret = event.secret /\ e.ts <= event.ts
                                  /\ \E f \in S : f.ts <= e.ts}
  <2>3. Cardinality(B) <= CredentialLimit
    BY <1>8 DEF InReach
  <2>4. B \in SUBSET Stored
    OBVIOUS
  <2>5. IsFiniteSet(B)
    <3> HIDE DEF B
    <3> QED
      BY <2>4, FS_Subset, Zenon
  <2>6. Timed(E)
    BY <1>6 DEF Timed, Before
  <2>7. ASSUME NEW e \in S PROVE e \in OfSecret(some, event)
    <3>1. e \in E
      BY <1>5, <2>2
    <3>2. \A f \in E : f.ts >= e.ts => f \in B
      <4> SUFFICES ASSUME NEW f \in E, f.ts >= e.ts PROVE f \in B
        OBVIOUS
      <4>1. f \in Stored /\ f.secret = event.secret /\ f.ts <= event.ts
        BY DEF Before
      <4>2. e.ts <= f.ts
        BY <2>6, <3>1 DEF Timed
      <4> QED
        BY <4>1, <4>2
    <3> HIDE DEF E, B
    <3>3. e \in Newest(CredentialLimit, E)
      BY <1>2, <2>3, <2>5, <2>6, <3>1, <3>2, NewestKeeps, Zenon
    <3> QED
      BY <3>3 DEF OfSecret, E
  <2> QED
    BY <1>4, <1>8, <2>2, <2>7 DEF Seen, Context, SameSource
<1> QED
  BY <1>7, <1>8


(* Every burst within reach is found with its latest event. *)
LEMMA BurstIsFound ==
  ASSUME IsFiniteSet(Stored), Timed(Stored), NEW some \in SUBSET Stored, NEW event \in some,
         NEW rule \in Enabled, NEW S \in SUBSET some, event \in S,
         \A e \in S : e.ts <= event.ts,
         Burst(rule, S, event), InReach(rule, S, event)
  PROVE  Matches(rule, some, event)
<1> DEFINE C == Counted(rule, some, event)
<1>1. rule \in SingleRules \/ rule \in TemporalRules
  BY RulesAssumption DEF Rules
<1>2. CASE rule \in SingleRules
  BY <1>2, RuleNames DEF Matches, Burst
<1>3. CASE rule \in TemporalRules
  <2>1. S \subseteq Seen(rule, some, event) /\ event.source # None
    BY <1>3, BurstIsSeen
  <2>2. rule \notin SingleRules
    BY <1>3, RuleNames
  <2>3. IsFiniteSet(C) /\ \A T \in SUBSET C : Cardinality(T) <= Cardinality(C)
                                              /\ Cardinality(T) \in Nat /\ Cardinality(C) \in Nat
    <3>1. Timed(some)
      BY DEF Timed
    <3>2. C \in SUBSET Stored
      BY <1>3, <3>1, CountedHolds
    <3> HIDE DEF C
    <3> QED
      BY <3>2, FS_Subset, FS_CardinalityType, Zenon
  <2>4. ASSUME \A e \in S : Counts(rule, e, event)
        PROVE  /\ S \in SUBSET C
               /\ \A name : Threshold[rule][name] \in Nat /\ Many(rule, name, S) => Many(rule, name, C)
               /\ \A name, field : Threshold[rule][name] \in Nat /\ AtLeast(rule, name, field, S) =>
                    Distinct(C, field) >= Threshold[rule][name]
    <3>1. S \in SUBSET C
      BY <2>1, <2>4 DEF Counted
    <3>2. \A name : Threshold[rule][name] \in Nat /\ Many(rule, name, S) => Many(rule, name, C)
      BY <2>3, <3>1 DEF Many
    <3> HIDE DEF C
    <3>3. \A name, field : Threshold[rule][name] \in Nat /\ AtLeast(rule, name, field, S) =>
                    Distinct(C, field) >= Threshold[rule][name]
      BY <2>3, <3>1, DistinctGrows, Zenon
    <3> QED
      BY <3>1, <3>2, <3>3
  <2>5. SUFFICES Triggers(rule, event) /\ Suffices(rule, C)
    BY <2>2 DEF Matches
  <2> HIDE DEF C
  <2>6. CASE rule = "multiple_auth_failures"
    <3>1. \A e \in S : Counts(rule, e, event)
      BY <2>2, <2>6 DEF Burst, Counts, AllCredentials
    <3>2. Triggers(rule, event)
      BY <2>1, <2>2, <2>6, <3>1 DEF Triggers, Burst
    <3>3. Suffices(rule, C)
      BY <2>2, <2>4, <2>6, <3>1, WhatSuffices, ThresholdsAreNumbers DEF Burst
    <3> QED
      BY <3>2, <3>3
  <2>7. CASE rule = "credential_bruteforce"
    <3>1. \A e \in S : Counts(rule, e, event)
      BY <2>2, <2>7 DEF Burst, Counts, AllCredentials
    <3>2. Triggers(rule, event)
      BY <2>1, <2>2, <2>7, <3>1 DEF Triggers, Burst
    <3>3. Suffices(rule, C)
      BY <2>2, <2>4, <2>7, <3>1, WhatSuffices, ThresholdsAreNumbers DEF Burst
    <3> QED
      BY <3>2, <3>3
  <2>8. CASE rule = "credential_reuse"
    <3>1. \A e \in S : Counts(rule, e, event)
      BY <2>2, <2>8 DEF Burst, Counts, AllCredentials
    <3>2. Triggers(rule, event)
      BY <2>1, <2>2, <2>8, <3>1 DEF Triggers, Burst
    <3>3. Suffices(rule, C)
      BY <2>2, <2>4, <2>8, <3>1, WhatSuffices, ThresholdsAreNumbers DEF Burst
    <3> QED
      BY <3>2, <3>3
  <2>9. CASE rule = "web_scanning"
    <3>1. \A e \in S : Counts(rule, e, event)
      BY <2>2, <2>9 DEF Burst, Counts, AllCredentials
    <3>2. Triggers(rule, event)
      BY <2>1, <2>2, <2>9, <3>1 DEF Triggers, Burst
    <3>3. Suffices(rule, C)
      BY <2>2, <2>4, <2>9, <3>1, WhatSuffices, ThresholdsAreNumbers DEF Burst
    <3> QED
      BY <3>2, <3>3
  <2>10. CASE rule = "path_traversal_sequence"
    <3>1. \A e \in S : Counts(rule, e, event)
      BY <2>2, <2>10 DEF Burst, Counts, AllCredentials
    <3>2. Triggers(rule, event)
      BY <2>1, <2>2, <2>10, <3>1 DEF Triggers, Burst
    <3>3. Suffices(rule, C)
      BY <2>2, <2>4, <2>10, <3>1, WhatSuffices, ThresholdsAreNumbers DEF Burst
    <3> QED
      BY <3>2, <3>3
  <2>11. CASE rule = "rapid_port_sequence"
    <3>1. \A e \in S : Counts(rule, e, event)
      BY <2>2, <2>11 DEF Burst, Counts, AllCredentials
    <3>2. Triggers(rule, event)
      BY <2>1, <2>2, <2>11, <3>1 DEF Triggers, Burst
    <3>3. Suffices(rule, C)
      BY <2>2, <2>4, <2>11, <3>1, WhatSuffices, ThresholdsAreNumbers DEF Burst
    <3> QED
      BY <3>2, <3>3
  <2>12. CASE rule = "recon_burst"
    <3>1. \A e \in S : Counts(rule, e, event)
      BY <2>2, <2>12 DEF Burst, Counts, AllCredentials
    <3>2. Triggers(rule, event)
      BY <2>1, <2>2, <2>12, <3>1 DEF Triggers, Burst
    <3>3. Suffices(rule, C)
      BY <2>2, <2>4, <2>12, <3>1, WhatSuffices, ThresholdsAreNumbers DEF Burst
    <3> QED
      BY <3>2, <3>3
  <2> QED
    BY <1>3, <2>6, <2>7, <2>8, <2>9, <2>10, <2>11, <2>12, RuleNames
<1> QED
  BY <1>1, <1>2, <1>3


(* References are kept up to a limit: none is left out below it. *)
Ahead(E, e, some, event) == {g \in E : Precedes(g, e, some, event)}

LEMMA AllAreReferred ==
  ASSUME NEW E, IsFiniteSet(E), Timed(E), Cardinality(E) <= EvidenceLimit,
         NEW some, NEW event, NEW e \in E
  PROVE  Cardinality(Ahead(E, e, some, event)) < EvidenceLimit
<1> DEFINE before == {g \in E : Precedes(g, e, some, event)}
<1>1. ~Precedes(e, e, some, event)
  BY DEF Precedes, Rank, Timed
<1>2. before \in SUBSET (E \ {e})
  BY <1>1
<1> HIDE DEF before
<1>3. IsFiniteSet(E \ {e}) /\ Cardinality(E \ {e}) = Cardinality(E) - 1 /\ Cardinality(E) \in Nat
  BY FS_RemoveElement, FS_CardinalityType
<1>4. Cardinality(before) <= Cardinality(E \ {e}) /\ Cardinality(before) \in Nat
  BY <1>2, <1>3, FS_Subset, FS_CardinalityType, Zenon
<1>5. EvidenceLimit \in Nat
  BY RulesAssumption
<1> QED
  BY <1>3, <1>4, <1>5 DEF before, Ahead

(* What a rule finds in an event is a burst, and its references are those of one. *)
LEMMA FoundIsBurst ==
  ASSUME IsFiniteSet(Stored), Timed(Stored), NEW some \in SUBSET Stored, NEW event \in some,
         NEW rule \in Rules, Matches(rule, some, event), AllReferred(rule, event)
  PROVE  \E S \in SUBSET Stored :
           /\ event \in S /\ Burst(rule, S, event)
           /\ \A e \in S : e.ts <= event.ts /\ e.id \in Evidence(rule, some, event)
<1> DEFINE C == Counted(rule, some, event)
<1>0. EvidenceLimit \in Nat \ {0}
  BY RulesAssumption
<1>1. CASE rule \in SingleRules
  <2>1. Burst(rule, {event}, event)
    BY <1>1 DEF Matches, Burst
  <2>2. IsFiniteSet({event}) /\ Cardinality({event}) = 1 /\ Timed({event})
    BY FS_Singleton DEF Timed
  <2>3. Cardinality({event}) <= EvidenceLimit
    BY <1>0, <2>2
  <2>4. Cardinality({g \in {event} : Precedes(g, event, some, event)}) < EvidenceLimit
    BY <2>2, <2>3, AllAreReferred DEF Ahead
  <2>5. event.id \in Evidence(rule, some, event)
    BY <1>1, <2>4, Zenon DEF Evidence
  <2>6. event.ts <= event.ts
    BY DEF Timed
  <2> WITNESS {event} \in SUBSET Stored
  <2> QED
    BY <2>1, <2>5, <2>6
<1>2. CASE rule \in TemporalRules
  <2>1. rule \notin SingleRules
    BY <1>2, RuleNames
  <2>2. Timed(some)
    BY DEF Timed
  <2>3. /\ C \in SUBSET some
        /\ \A e \in C : /\ e.ts <= event.ts /\ event.ts - e.ts <= Window[rule]
                        /\ SameSource(rule, e, event) /\ Counts(rule, e, event)
    BY <1>2, <2>2, CountedHolds
  <2>4. Triggers(rule, event) /\ Suffices(rule, C)
    BY <2>1 DEF Matches
  <2>5. Window[rule] \in Nat
    BY <1>2, RulesAssumption
  <2>6. event \in C
    BY <2>2, <2>4, <2>5 DEF Counted, Seen, Context, SameSource, Triggers, Timed
  <2>7. IsFiniteSet(C) /\ Timed(C) /\ C \in SUBSET Stored
    <3>1. C \in SUBSET Stored
      BY <2>3
    <3> HIDE DEF C
    <3> QED
      BY <3>1, FS_Subset, Zenon DEF Timed
  <2>8. Within(rule, C)
    BY <2>2, <2>3, <2>5 DEF Within, Timed
  <2>9. rule # "credential_reuse" => OneSource(C)
    BY <2>3, <2>4, <2>6 DEF OneSource, SameSource, Triggers
  <2>10. \A name, field : Distinct(C, field) >= Threshold[rule][name] => AtLeast(rule, name, field, C)
    <3> HIDE DEF C
    <3> QED
      BY <2>7, DistinctShown, Zenon
  <2>11. \A e \in C : e.id \in Evidence(rule, some, event)
    <3> DEFINE W == {e \in Stored : /\ SameSource(rule, e, event)
                                    /\ e.ts <= event.ts /\ event.ts - e.ts <= Window[rule]}
    <3>1. C \in SUBSET W /\ W \in SUBSET Stored
      BY <2>3
    <3>2. Cardinality(W) <= EvidenceLimit
      BY <2>1 DEF AllReferred
    <3> HIDE DEF W
    <3>3. IsFiniteSet(W) /\ Cardinality(W) \in Nat
      BY <3>1, FS_Subset, FS_CardinalityType, Zenon
    <3>4. Cardinality(C) <= Cardinality(W) /\ Cardinality(C) \in Nat
      <4> HIDE DEF C
      <4> QED
        BY <3>1, <3>3, <2>7, FS_Subset, FS_CardinalityType, Zenon
    <3>5. Cardinality(C) <= EvidenceLimit
      BY <1>0, <3>2, <3>3, <3>4
    <3>6. \A e \in C : Cardinality({g \in C : Precedes(g, e, some, event)}) < EvidenceLimit
      <4> HIDE DEF C
      <4>1. \A e \in C : Cardinality(Ahead(C, e, some, event)) < EvidenceLimit
        BY <2>7, <3>5, AllAreReferred, Zenon
      <4> QED
        BY <4>1 DEF Ahead
    <3> QED
      BY <2>1, <3>6, Zenon DEF Evidence
  <2>12. Burst(rule, C, event)
    <3> HIDE DEF C
    <3>1. CASE rule = "multiple_auth_failures"
      BY <1>2, <2>1, <2>3, <2>4, <2>8, <2>9, <2>10, <3>1, WhatSuffices
         DEF Burst, Counts, Triggers, AllCredentials
    <3>2. CASE rule = "credential_bruteforce"
      BY <1>2, <2>1, <2>3, <2>4, <2>8, <2>9, <2>10, <3>2, WhatSuffices
         DEF Burst, Counts, Triggers, AllCredentials
    <3>3. CASE rule = "credential_reuse"
      BY <1>2, <2>1, <2>3, <2>4, <2>8, <2>9, <2>10, <3>3, WhatSuffices
         DEF Burst, Counts, Triggers, AllCredentials
    <3>4. CASE rule = "web_scanning"
      BY <1>2, <2>1, <2>3, <2>4, <2>8, <2>9, <2>10, <3>4, WhatSuffices
         DEF Burst, Counts, Triggers, AllCredentials
    <3>5. CASE rule = "path_traversal_sequence"
      BY <1>2, <2>1, <2>3, <2>4, <2>8, <2>9, <2>10, <3>5, WhatSuffices
         DEF Burst, Counts, Triggers, AllCredentials
    <3>6. CASE rule = "rapid_port_sequence"
      BY <1>2, <2>1, <2>3, <2>4, <2>8, <2>9, <2>10, <3>6, WhatSuffices
         DEF Burst, Counts, Triggers, AllCredentials
    <3>7. CASE rule = "recon_burst"
      BY <1>2, <2>1, <2>3, <2>4, <2>8, <2>9, <2>10, <3>7, WhatSuffices
         DEF Burst, Counts, Triggers, AllCredentials
    <3> QED
      BY <1>2, <3>1, <3>2, <3>3, <3>4, <3>5, <3>6, <3>7, RuleNames
  <2> QED
    BY <2>3, <2>6, <2>7, <2>11, <2>12
<1> QED
  BY <1>1, <1>2 DEF Rules


-----------------------------------------------------------------------------
(* Nth leaves no number of the set out. *)
LEMMA NthReaches ==
  ASSUME NEW n \in Nat, NEW S \in SUBSET (1..n), NEW i \in S
  PROVE  \E k \in 1..Cardinality(S) : Nth(S, k) = i
<1>0. UpToCounts(S, n) /\ IsFiniteSet(S) /\ Cardinality(S) \in Nat
  <2>1. UpToCounts(S, n)
    BY UpToSteps, Zenon
  <2>2. n \in 0..n
    OBVIOUS
  <2> QED
    BY <2>1, <2>2, Zenon DEF UpToCounts
<1>1. PICK k : k = Cardinality(UpToOf(S, i))
  OBVIOUS
<1>2. IsFiniteSet(UpToOf(S, i)) /\ k \in Nat
  <2>1. i \in 0..n
    OBVIOUS
  <2> QED
    BY <1>0, <1>1, <2>1, Zenon DEF UpToCounts
<1>3. k <= Cardinality(S)
  <2>1. UpToOf(S, i) \in SUBSET S
    BY DEF UpToOf
  <2> QED
    BY <1>0, <1>1, <2>1, FS_Subset, Zenon
<1>4. k # 0
  <2>1. i \in UpToOf(S, i)
    BY DEF UpToOf
  <2> QED
    BY <1>1, <1>2, <2>1, FS_EmptySet, Zenon
<1>5. k \in 1..Cardinality(S)
  BY <1>0, <1>2, <1>3, <1>4
<1>6. PICK m \in S : m = Nth(S, k) /\ Cardinality(UpToOf(S, m)) = k
  BY <1>5, NthCounts, Zenon DEF UpToOf
<1>7. IsFiniteSet(UpToOf(S, m))
  <2>1. m \in 0..n
    OBVIOUS
  <2> QED
    BY <1>0, <2>1, Zenon DEF UpToCounts
<1>8. CASE m <= i
  <2>1. UpToOf(S, m) \in SUBSET UpToOf(S, i)
    <3>1. \A j \in S : j \in Int /\ (j <= m => j <= i)
      BY <1>8
    <3> QED
      BY <3>1, Zenon DEF UpToOf
  <2>2. UpToOf(S, i) = UpToOf(S, m)
    BY <1>1, <1>2, <1>6, <2>1, FS_Subset, Zenon
  <2>3. i <= m
    BY <2>2 DEF UpToOf
  <2> QED
    BY <1>5, <1>6, <1>8, <2>3
<1>9. CASE i <= m
  <2>1. UpToOf(S, i) \in SUBSET UpToOf(S, m)
    <3>1. \A j \in S : j \in Int /\ (j <= i => j <= m)
      BY <1>9
    <3> QED
      BY <3>1, Zenon DEF UpToOf
  <2>2. UpToOf(S, m) = UpToOf(S, i)
    BY <1>1, <1>6, <1>7, <2>1, FS_Subset, Zenon
  <2>3. m <= i
    BY <2>2 DEF UpToOf
  <2> QED
    BY <1>5, <1>6, <1>9, <2>3
<1>10. m <= i \/ i <= m
  OBVIOUS
<1> QED
  BY <1>8, <1>9, <1>10

(* The findings of an event are the rules that match it, with their evidence. *)
LEMMA FindingsMatch ==
  ASSUME NEW stored, NEW event, NEW todo, todo = Findings(stored, event)
  PROVE  /\ \A k \in 1..Len(todo) :
              /\ todo[k].rule \in Rules /\ Matches(todo[k].rule, stored, event)
              /\ todo[k].evidence = Evidence(todo[k].rule, stored, event)
         /\ \A rule \in Rules :
              Matches(rule, stored, event) => \E k \in 1..Len(todo) : todo[k].rule = rule
<1> DEFINE found == {i \in 1..11 : Matches(RuleOrder[i], stored, event)}
           n == Cardinality(found)
           row(k) == [rule |-> RuleOrder[Nth(found, k)],
                      evidence |-> Evidence(RuleOrder[Nth(found, k)], stored, event)]
<1>1. todo = [k \in 1..n |-> row(k)]
  BY Zenon DEF Findings
<1>2. found \in SUBSET (1..11) /\ 11 \in Nat
  OBVIOUS
<1>3. \A i \in 1..11 : RuleOrder[i] \in Rules
  <2>1. \A i \in 1..11 : i \in 1..4 \/ i \in 5..11
    OBVIOUS
  <2> QED
    BY <2>1, Zenon DEF Rules, SingleRules, TemporalRules
<1>4. \A rule \in Rules : \E i \in 1..11 : RuleOrder[i] = rule
  BY DEF Rules, SingleRules, TemporalRules
<1>5. n \in Nat /\ Len(todo) \in Nat /\ DOMAIN todo = 1..Len(todo) /\ DOMAIN todo = 1..n
  <2>1. IsSequence(todo)
    BY FindingsDistinct DEF DistinctRules
  <2>2. IsFiniteSet(1..11)
    <3>1. 1 \in Int /\ 11 \in Int
      OBVIOUS
    <3> QED
      BY <3>1, FS_Interval, Zenon
  <2>3. n \in Nat
    <3> HIDE DEF found
    <3> QED
      BY <1>2, <2>2, FS_Subset, FS_CardinalityType, Zenon
  <2> HIDE DEF row, n
  <2> QED
    BY <1>1, <2>1, <2>3, Appended
<1>6. Len(todo) = n
  <2> HIDE DEF n
  <2>1. PICK a \in Nat, b \in Nat : a = n /\ b = Len(todo)
    BY <1>5
  <2>2. \A i : i \in 1..a <=> i \in 1..b
    BY <1>5, <2>1, Zenon
  <2>3. (a # 0 => a \in 1..b) /\ (b # 0 => b \in 1..a)
    BY <2>2
  <2> QED
    BY <2>1, <2>3
<1>7. \A k \in 1..n : Nth(found, k) \in found
  <2> HIDE DEF found
  <2> QED
    BY <1>2, NthCounts, Zenon
<1>8. \A i \in found : \E k \in 1..n : Nth(found, k) = i
  <2> HIDE DEF found
  <2> QED
    BY <1>2, NthReaches, Zenon
<1>9. ASSUME NEW k \in 1..n
      PROVE  /\ todo[k].rule = RuleOrder[Nth(found, k)]
             /\ todo[k].evidence = Evidence(RuleOrder[Nth(found, k)], stored, event)
  <2> HIDE DEF n, found
  <2> QED
    BY <1>1
<1>10. \A k \in 1..n : RuleOrder[Nth(found, k)] \in Rules
                       /\ Matches(RuleOrder[Nth(found, k)], stored, event)
  BY <1>3, <1>7, Zenon
<1>11. ASSUME NEW rule \in Rules, Matches(rule, stored, event)
       PROVE  \E k \in 1..n : todo[k].rule = rule
  <2>1. PICK i \in 1..11 : RuleOrder[i] = rule
    BY <1>4
  <2>2. i \in found
    BY <1>11, <2>1, Zenon
  <2>3. PICK k \in 1..n : Nth(found, k) = i
    BY <1>8, <2>2, Zenon
  <2> QED
    BY <1>9, <2>1, <2>3, Zenon
<1> HIDE DEF n, found, row
<1> QED
  BY <1>6, <1>9, <1>10, <1>11


-----------------------------------------------------------------------------
(* What was stored when the n-th event had been; the rules may have looked at *)
(* an event at any such time since its own commit.                            *)
Upto(n) == {log[i] : i \in 1..n}

LookedAt(event, n) == n \in 1..Len(log) /\ event \in Upto(n)

FoundAt(event, rule, evidence) ==
  /\ rule \in Rules
  /\ \E n : /\ LookedAt(event, n) /\ Matches(rule, Upto(n), event)
            /\ evidence = Evidence(rule, Upto(n), event)

MissedAt(event, rule) == \E n : LookedAt(event, n) /\ ~Matches(rule, Upto(n), event)

Answered(event, rule) == \E h \in handled : h.event = event /\ h.rule = rule

Underway(t) == req[t].pc \in {"match", "lookup", "write"}

Todo(t) == req[t].todo

Pending(t, event, rule) ==
  /\ req[t].pc # "idle" /\ req[t].event = event
  /\ Underway(t) => \E i \in 1..Len(Todo(t)) : Todo(t)[i].rule = rule

LogOK ==
  /\ workload \in Workloads /\ IsSequence(log)
  /\ \A i \in 1..Len(log) : log[i] \in workload.offered
  /\ \A i, j \in 1..Len(log) : log[i] = log[j] => i = j

Carried(t) ==
  Underway(t) =>
    \A i \in 1..Len(Todo(t)) : FoundAt(req[t].event, Todo(t)[i].rule, Todo(t)[i].evidence)

AnsweredWell ==
  \A h \in handled :
    h.alert # 0 =>
      \E evidence : /\ FoundAt(h.event, h.rule, evidence)
                    /\ evidence \subseteq alerts[h.alert].evidence

(* Of an event whose request was not cut off, every rule's finding has its    *)
(* answer or waits for it, or the rule found nothing.                         *)
NoneOverlooked ==
  \A event \in Stored \ cut, rule \in Enabled :
    \/ Answered(event, rule)
    \/ \E t \in Threads : Pending(t, event, rule)
    \/ MissedAt(event, rule)

BurstInv ==
  /\ LogOK
  /\ \A t \in Threads : Carried(t)
  /\ AnsweredWell
  /\ NoneOverlooked

(* The log only grows, and what was found in it stays found. *)
LEMMA LogStays ==
  ASSUME LogOK, log' = log \/ \E event : log' = Append(log, event)
  PROVE  /\ \A e, r, v : FoundAt(e, r, v) => FoundAt(e, r, v)'
         /\ \A e, r : MissedAt(e, r) => MissedAt(e, r)'
<1>1. /\ Len(log) \in Nat /\ Len(log') \in Nat /\ Len(log) <= Len(log')
      /\ \A i \in 1..Len(log) : log'[i] = log[i]
  BY Appended DEF LogOK
<1>2. \A n \in 1..Len(log) : Upto(n)' = Upto(n) /\ n \in 1..Len(log')
  BY <1>1 DEF Upto
<1>3. \A e, n : LookedAt(e, n) => LookedAt(e, n)' /\ Upto(n)' = Upto(n)
  BY <1>2 DEF LookedAt
<1>4. \A e, r, v : FoundAt(e, r, v) => FoundAt(e, r, v)'
  BY <1>3, Zenon DEF FoundAt
<1>5. \A e, r : MissedAt(e, r) => MissedAt(e, r)'
  BY <1>3, Zenon DEF MissedAt
<1> QED
  BY <1>4, <1>5

(* Alerts keep their references, and what is answered anew was found. *)
RefersIn(rows, h) ==
  h.alert # 0 =>
    \E evidence : /\ FoundAt(h.event, h.rule, evidence)
                  /\ evidence \subseteq rows[h.alert].evidence

LEMMA AnswersStay ==
  ASSUME LogOK, AnsweredWell, log' = log \/ \E event : log' = Append(log, event),
         \A h \in handled : h.alert \in {0} \cup DOMAIN alerts,
         \A a \in DOMAIN alerts : alerts[a].evidence \subseteq alerts'[a].evidence,
         NEW g, handled' \in {handled, handled \cup {g}}, RefersIn(alerts', g)
  PROVE  AnsweredWell'
<1> SUFFICES ASSUME NEW h \in handled', h.alert # 0
             PROVE  \E evidence : /\ FoundAt(h.event, h.rule, evidence)'
                                  /\ evidence \subseteq alerts'[h.alert].evidence
  BY Zenon DEF AnsweredWell
<1>1. PICK evidence : FoundAt(h.event, h.rule, evidence) /\ evidence \subseteq alerts'[h.alert].evidence
  <2>1. CASE h \in handled
    <3>1. h.alert \in DOMAIN alerts
      BY <2>1
    <3>2. PICK evidence : /\ FoundAt(h.event, h.rule, evidence)
                          /\ evidence \subseteq alerts[h.alert].evidence
      BY <2>1, Zenon DEF AnsweredWell
    <3>3. evidence \subseteq alerts'[h.alert].evidence
      BY <3>1, <3>2
    <3> QED
      BY <3>2, <3>3, Zenon
  <2>2. CASE h = g
    BY <2>2, Zenon DEF RefersIn
  <2>3. h \in handled \/ h = g
    OBVIOUS
  <2> QED
    BY <2>1, <2>2, <2>3, Zenon
<1>2. FoundAt(h.event, h.rule, evidence)'
  BY <1>1, LogStays, Zenon
<1> QED
  BY <1>1, <1>2, Zenon

(* Other requests wait as they did. *)
LEMMA OthersCarry ==
  ASSUME BurstInv, log' = log \/ \E event : log' = Append(log, event),
         NEW u \in Threads, req'[u] = req[u]
  PROVE  Carried(u)' /\ \A e, r : Pending(u, e, r) => Pending(u, e, r)'
<1>1. Underway(u)' = Underway(u) /\ Todo(u)' = Todo(u)
  BY DEF Underway, Todo
<1>2. Carried(u)
  BY DEF BurstInv
<1>3. \A e, r, v : FoundAt(e, r, v) => FoundAt(e, r, v)'
  BY LogStays DEF BurstInv
<1>4. Carried(u)'
  BY <1>1, <1>2, <1>3 DEF Carried
<1>5. \A e, r : Pending(u, e, r) => Pending(u, e, r)'
  BY <1>1 DEF Pending
<1> QED
  BY <1>4, <1>5

(* A request's step overlooks nothing if it overlooks nothing of its own. *)
LEMMA OverlookStays ==
  ASSUME BurstInv, log' = log, cut \subseteq cut', handled \subseteq handled',
         NEW t \in Threads, \A u \in Threads : u # t => req'[u] = req[u],
         \A event \in Stored \ cut', rule \in Enabled :
           Pending(t, event, rule) =>
             Answered(event, rule)' \/ Pending(t, event, rule)' \/ MissedAt(event, rule)
  PROVE  NoneOverlooked'
<1> SUFFICES ASSUME NEW event \in Stored' \ cut', NEW rule \in Enabled
             PROVE  \/ Answered(event, rule)'
                    \/ \E u \in Threads : Pending(u, event, rule)'
                    \/ MissedAt(event, rule)'
  BY Zenon DEF NoneOverlooked
<1>1. event \in Stored \ cut /\ event \in Stored \ cut'
  BY DEF Stored
<1>2. \A e, r : MissedAt(e, r) => MissedAt(e, r)'
  BY LogStays DEF BurstInv
<1>3. CASE Answered(event, rule)
  BY <1>3 DEF Answered
<1>4. CASE MissedAt(event, rule)
  BY <1>2, <1>4
<1>5. ASSUME NEW u \in Threads, Pending(u, event, rule)
      PROVE  \/ Answered(event, rule)'
             \/ \E v \in Threads : Pending(v, event, rule)'
             \/ MissedAt(event, rule)'
  <2>1. CASE u # t
    <3>1. Pending(u, event, rule)'
      BY <1>5, <2>1, OthersCarry
    <3> QED
      BY <3>1
  <2>2. CASE u = t
    BY <1>1, <1>2, <1>5, <2>2, Zenon
  <2> QED
    BY <2>1, <2>2
<1>6. \/ Answered(event, rule) \/ MissedAt(event, rule)
      \/ \E u \in Threads : Pending(u, event, rule)
  BY <1>1, Zenon DEF BurstInv, NoneOverlooked
<1> QED
  BY <1>3, <1>4, <1>5, <1>6, Zenon

LEMMA BurstIngest ==
  ASSUME WithheldInv, CountInv, BurstInv, NEW t \in Threads, Ingest(t)
  PROVE  BurstInv'
<1>1. PICK event \in workload.offered \ Stored :
        /\ log' = Append(log, event)
        /\ req' = [req EXCEPT ![t] = [pc |-> "stored", event |-> event]]
  BY DEF Ingest
<1>2. /\ req'[t] = [pc |-> "stored", event |-> event]
      /\ \A u \in Threads : u # t => req'[u] = req[u]
      /\ UNCHANGED <<workload, alerts, handled, cut>> /\ req[t].pc = "idle"
  BY <1>1 DEF WithheldInv, Ingest
<1>3. PICK n \in Nat :
        /\ n = Len(log) /\ Len(log') = n + 1 /\ IsSequence(log') /\ DOMAIN log = 1..n
        /\ DOMAIN log' = 1..(n + 1) /\ log'[n + 1] = event
        /\ \A i \in 1..n : log'[i] = log[i]
  BY <1>1, Appended DEF CountInv
<1>4. LogOK'
  <2>1. \A i \in 1..n : log[i] # event
    BY <1>3 DEF Stored
  <2> QED
    BY <1>2, <1>3, <2>1 DEF BurstInv, LogOK
<1>5. \A u \in Threads : Carried(u)'
  <2>1. Carried(t)'
    BY <1>2 DEF Carried, Underway
  <2>2. \A u \in Threads : u # t => Carried(u)'
    BY <1>1, <1>2, OthersCarry
  <2> QED
    BY <2>1, <2>2
<1>6. AnsweredWell'
  <2>1. \A h \in handled : h.alert \in {0} \cup DOMAIN alerts
    BY DEF CountInv
  <2>2. PICK g : g = [alert |-> 0]
    OBVIOUS
  <2>3. g.alert = 0
    BY <2>2
  <2> QED
    BY <1>1, <1>2, <2>1, <2>3, AnswersStay DEF BurstInv, RefersIn
<1>7. NoneOverlooked'
  <2> SUFFICES ASSUME NEW e \in Stored' \ cut', NEW rule \in Enabled
               PROVE  \/ Answered(e, rule)'
                      \/ \E u \in Threads : Pending(u, e, rule)'
                      \/ MissedAt(e, rule)'
    BY Zenon DEF NoneOverlooked
  <2>1. Stored' = Stored \cup {event}
    BY <1>3 DEF Stored
  <2>2. CASE e = event
    <3>1. Pending(t, e, rule)'
      BY <1>2, <2>2 DEF Pending, Underway
    <3> QED
      BY <3>1
  <2>3. CASE e \in Stored
    <3>1. \/ Answered(e, rule) \/ MissedAt(e, rule)
          \/ \E u \in Threads : Pending(u, e, rule)
      BY <1>2, <2>3 DEF BurstInv, NoneOverlooked
    <3>2. CASE Answered(e, rule)
      BY <1>2, <3>2 DEF Answered
    <3>3. CASE MissedAt(e, rule)
      <4>1. MissedAt(e, rule)'
        BY <1>1, <3>3, LogStays DEF BurstInv
      <4> QED
        BY <4>1
    <3>4. ASSUME NEW u \in Threads, Pending(u, e, rule) PROVE Pending(u, e, rule)'
      <4>1. u # t
        BY <1>2, <3>4 DEF Pending
      <4> QED
        BY <1>1, <1>2, <3>4, <4>1, OthersCarry
    <3> QED
      BY <3>1, <3>2, <3>3, <3>4, Zenon
  <2> QED
    BY <2>1, <2>2, <2>3
<1> QED
  BY <1>4, <1>5, <1>6, <1>7 DEF BurstInv


(* No alert changes and nothing is answered. *)
LEMMA SameAnswers ==
  ASSUME CountInv, BurstInv, UNCHANGED <<log, handled>>,
         \A a \in DOMAIN alerts : alerts[a].evidence \subseteq alerts'[a].evidence
  PROVE  AnsweredWell'
<1>1. \A h \in handled : h.alert \in {0} \cup DOMAIN alerts
  BY DEF CountInv
<1>2. PICK g : g = [alert |-> 0]
  OBVIOUS
<1>3. g.alert = 0
  BY <1>2
<1> QED
  BY <1>1, <1>3, AnswersStay DEF BurstInv, RefersIn

LEMMA BurstEvaluate ==
  ASSUME WithheldInv, CountInv, BurstInv, NEW t \in Threads, Evaluate(t)
  PROVE  BurstInv'
<1>0. PICK findings : findings = Findings(Stored, req[t].event)
  OBVIOUS
<1> DEFINE to == IF findings = <<>> THEN Idle
                 ELSE [pc |-> "match", event |-> req[t].event, todo |-> findings]
           own == req[t].event
<1>1. /\ req'[t] = to /\ \A u \in Threads : u # t => req'[u] = req[u]
      /\ UNCHANGED <<workload, alerts, handled, log, cut>> /\ req[t].pc = "stored"
  BY <1>0 DEF Evaluate, Continue, WithheldInv
<1>2. own \in Stored
  BY <1>1 DEF CountInv, Unanswered
<1>3. PICK n \in Nat : n = Len(log) /\ DOMAIN log = 1..n
  BY Appended DEF CountInv
<1>4. LookedAt(own, n) /\ Upto(n) = Stored
  BY <1>2, <1>3 DEF LookedAt, Upto, Stored
<1>5. /\ \A k \in 1..Len(findings) :
           /\ findings[k].rule \in Rules /\ Matches(findings[k].rule, Stored, own)
           /\ findings[k].evidence = Evidence(findings[k].rule, Stored, own)
      /\ \A rule \in Rules :
           Matches(rule, Stored, own) => \E k \in 1..Len(findings) : findings[k].rule = rule
  BY <1>0, FindingsMatch
<1>6. \A k \in 1..Len(findings) : FoundAt(own, findings[k].rule, findings[k].evidence)
  BY <1>4, <1>5 DEF FoundAt
<1>7. ASSUME NEW rule \in Rules, ~\E k \in 1..Len(findings) : findings[k].rule = rule
      PROVE  MissedAt(own, rule)
  BY <1>4, <1>5, <1>7 DEF MissedAt
<1>8. /\ to.pc = "idle" \/ (to.pc = "match" /\ to.event = own /\ to.todo = findings)
      /\ to.pc = "idle" => findings = <<>>
  BY DEF Idle
<1> HIDE DEF to
<1>9. Carried(t)'
  <2>1. \A e, r, v : FoundAt(e, r, v) => FoundAt(e, r, v)'
    BY <1>1, LogStays DEF BurstInv
  <2> QED
    BY <1>1, <1>6, <1>8, <2>1 DEF Carried, Underway, Todo
<1>10. \A u \in Threads : Carried(u)'
  BY <1>1, <1>9, OthersCarry
<1>11. ASSUME NEW event \in Stored \ cut', NEW rule \in Enabled, Pending(t, event, rule)
       PROVE  Pending(t, event, rule)' \/ MissedAt(event, rule)
  <2>1. event = own /\ rule \in Rules
    BY <1>11, RulesAssumption DEF Pending
  <2>2. CASE \E k \in 1..Len(findings) : findings[k].rule = rule
    <3>1. to.pc # "idle"
      <4> SUFFICES ASSUME findings = <<>> PROVE FALSE
        BY <1>8
      <4> QED
        BY <2>2
    <3> QED
      BY <1>1, <1>8, <2>1, <2>2, <3>1 DEF Pending, Underway, Todo
  <2>3. CASE ~\E k \in 1..Len(findings) : findings[k].rule = rule
    BY <1>7, <2>1, <2>3
  <2> QED
    BY <2>2, <2>3
<1>12. NoneOverlooked'
  BY <1>1, <1>11, OverlookStays
<1>13. AnsweredWell' /\ LogOK'
  BY <1>1, SameAnswers DEF BurstInv, LogOK
<1> QED
  BY <1>10, <1>12, <1>13 DEF BurstInv

(* The first of the findings is answered by h. *)
LEMMA BurstGoesOn ==
  ASSUME WithheldInv, CountInv, BurstInv, NEW t \in Threads, Continue(t, Tail(req[t].todo)),
         req[t].pc \in {"match", "lookup", "write"}, NEW h,
         handled' = handled \cup {h}, h.event = req[t].event, h.rule = HeadFinding(t).rule,
         UNCHANGED <<workload, log, cut>>
  PROVE  /\ LogOK' /\ NoneOverlooked' /\ \A u \in Threads : Carried(u)'
         /\ FoundAt(h.event, h.rule, HeadFinding(t).evidence)
<1>0. PICK todo, rest : todo = req[t].todo /\ rest = Tail(todo)
  OBVIOUS
<1> DEFINE to == IF rest = <<>> THEN Idle
                 ELSE [pc |-> "match", event |-> req[t].event, todo |-> rest]
<1>1. req'[t] = to /\ \A u \in Threads : u # t => req'[u] = req[u]
  BY <1>0 DEF Continue, WithheldInv
<1>2. DistinctRules(todo) /\ todo # <<>>
  BY <1>0 DEF CountInv, Unanswered, Waiting
<1>3. /\ Len(todo) \in Nat /\ 1 \in 1..Len(todo) /\ HeadFinding(t) = todo[1]
      /\ Len(rest) = Len(todo) - 1
      /\ \A i \in 1..(Len(todo) - 1) : rest[i] = todo[i + 1]
  BY <1>0, <1>2, TailDistinct DEF HeadFinding
<1>4. \A i \in 1..Len(todo) : FoundAt(h.event, todo[i].rule, todo[i].evidence)
  BY <1>0 DEF BurstInv, Carried, Underway, Todo
<1>5. /\ to.pc = "idle" \/ (to.pc = "match" /\ to.event = req[t].event /\ to.todo = rest)
      /\ to.pc = "idle" => rest = <<>>
  BY DEF Idle
<1> HIDE DEF to
<1>6. Carried(t)'
  <2>1. \A e, r, v : FoundAt(e, r, v) => FoundAt(e, r, v)'
    BY LogStays DEF BurstInv
  <2>2. \A i \in 1..(Len(todo) - 1) : i + 1 \in 1..Len(todo)
    BY <1>3
  <2>3. \A i \in 1..Len(rest) : FoundAt(h.event, rest[i].rule, rest[i].evidence)'
    BY <1>3, <1>4, <2>1, <2>2
  <2> QED
    BY <1>1, <1>5, <2>3 DEF Carried, Underway, Todo
<1>7. \A u \in Threads : Carried(u)'
  BY <1>1, <1>6, OthersCarry
<1>8. ASSUME NEW event \in Stored \ cut', NEW rule \in Enabled, Pending(t, event, rule)
      PROVE  Answered(event, rule)' \/ Pending(t, event, rule)'
  <2>1. event = req[t].event /\ \E i \in 1..Len(todo) : todo[i].rule = rule
    BY <1>0, <1>8 DEF Pending, Underway, Todo
  <2>2. PICK i \in 1..Len(todo) : todo[i].rule = rule
    BY <2>1
  <2>3. CASE i = 1
    <3>1. h.event = event /\ h.rule = rule
      BY <1>3, <2>1, <2>2, <2>3
    <3> QED
      BY <3>1 DEF Answered
  <2>4. CASE i # 1
    <3>1. i - 1 \in 1..Len(rest) /\ rest[i - 1].rule = rule
      BY <1>3, <2>2, <2>4
    <3>2. to.pc # "idle"
      <4> SUFFICES ASSUME rest = <<>> PROVE FALSE
        BY <1>5
      <4> QED
        BY <3>1
    <3> QED
      BY <1>1, <1>5, <2>1, <3>1, <3>2 DEF Pending, Underway, Todo
  <2> QED
    BY <2>3, <2>4
<1>9. NoneOverlooked'
  BY <1>1, <1>8, OverlookStays
<1>10. LogOK'
  BY DEF BurstInv, LogOK
<1>11. FoundAt(h.event, h.rule, HeadFinding(t).evidence)
  BY <1>3, <1>4
<1> QED
  BY <1>7, <1>9, <1>10, <1>11

(* A request moves on with the same findings. *)
LEMMA BurstSameTodo ==
  ASSUME WithheldInv, CountInv, BurstInv, NEW t \in Threads,
         Underway(t), Underway(t)', req'[t].event = req[t].event, Todo(t)' = Todo(t),
         \A u \in Threads : u # t => req'[u] = req[u],
         UNCHANGED <<workload, alerts, handled, log, cut>>
  PROVE  BurstInv'
<1>1. Carried(t)'
  <2>1. \A e, r, v : FoundAt(e, r, v) => FoundAt(e, r, v)'
    BY LogStays DEF BurstInv
  <2>2. Carried(t)
    BY DEF BurstInv
  <2> QED
    BY <2>1, <2>2 DEF Carried
<1>2. \A e, r : Pending(t, e, r) => Pending(t, e, r)'
  BY DEF Pending, Underway
<1>3. NoneOverlooked'
  BY <1>2, OverlookStays
<1>4. \A u \in Threads : Carried(u)'
  BY <1>1, OthersCarry
<1>5. AnsweredWell' /\ LogOK'
  BY SameAnswers DEF BurstInv, LogOK
<1> QED
  BY <1>3, <1>4, <1>5 DEF BurstInv

LEMMA BurstMatch ==
  ASSUME WithheldInv, CountInv, BurstInv, NEW t \in Threads, Match(t)
  PROVE  BurstInv'
<1>1. req[t].pc = "match" /\ UNCHANGED <<workload, alerts, log, cut>>
  BY DEF Match
<1>2. CASE \E s \in supps : Covers(s, HeadFinding(t).rule, req[t].event.source, clock)
  <2>1. PICK h : h = Outcome(t, 0, clock, Len(trail))
    OBVIOUS
  <2>2. /\ handled' = handled \cup {h} /\ Continue(t, Tail(req[t].todo))
        /\ h.event = req[t].event /\ h.rule = HeadFinding(t).rule /\ h.alert = 0
    BY <1>2, <2>1 DEF Match, Outcome
  <2>3. /\ LogOK' /\ NoneOverlooked' /\ \A u \in Threads : Carried(u)'
    BY <1>1, <2>2, BurstGoesOn
  <2>4. \A g \in handled : g.alert \in {0} \cup DOMAIN alerts
    BY DEF CountInv
  <2>5. AnsweredWell'
    BY <1>1, <2>2, <2>4, AnswersStay DEF BurstInv, RefersIn
  <2> QED
    BY <2>3, <2>5 DEF BurstInv
<1>3. CASE ~\E s \in supps : Covers(s, HeadFinding(t).rule, req[t].event.source, clock)
  <2>1. PICK to : to = [pc |-> "lookup", event |-> req[t].event, todo |-> req[t].todo,
                        at |-> clock, told |-> Len(trail)]
    OBVIOUS
  <2>2. /\ req'[t] = to /\ \A u \in Threads : u # t => req'[u] = req[u]
        /\ to.pc = "lookup" /\ to.event = req[t].event /\ to.todo = req[t].todo
        /\ handled' = handled
    BY <1>3, <2>1 DEF Match, WithheldInv
  <2> QED
    BY <1>1, <2>2, BurstSameTodo DEF Underway, Todo
<1> QED
  BY <1>2, <1>3

LEMMA BurstLookup ==
  ASSUME WithheldInv, CountInv, BurstInv, NEW t \in Threads, Lookup(t)
  PROVE  BurstInv'
<1>1. PICK a \in Latest(OpenAlerts(CurrentKey(t))) :
        req' = [req EXCEPT ![t] =
                  [pc |-> "write", event |-> req[t].event, todo |-> req[t].todo,
                   at |-> req[t].at, told |-> req[t].told, found |-> a]]
  BY DEF Lookup, LookupAmong
<1>2. PICK to : to = [pc |-> "write", event |-> req[t].event, todo |-> req[t].todo,
                      at |-> req[t].at, told |-> req[t].told, found |-> a]
  OBVIOUS
<1>3. /\ req'[t] = to /\ \A u \in Threads : u # t => req'[u] = req[u]
      /\ to.pc = "write" /\ to.event = req[t].event /\ to.todo = req[t].todo
      /\ req[t].pc = "lookup" /\ UNCHANGED <<workload, alerts, handled, log, cut>>
  BY <1>1, <1>2 DEF WithheldInv, Lookup, LookupAmong
<1> QED
  BY <1>3, BurstSameTodo DEF Underway, Todo

LEMMA BurstWrite ==
  ASSUME WithheldInv, CountInv, BurstInv, NEW t \in Threads, WriteAlert(t)
  PROVE  BurstInv'
<1>1. PICK b : b = IF req[t].found = 0 THEN Len(alerts) + 1 ELSE req[t].found
  OBVIOUS
<1>2. PICK h : h = Outcome(t, b, req[t].at, req[t].told)
  OBVIOUS
<1>3. /\ handled' = handled \cup {h} /\ Continue(t, Tail(req[t].todo))
      /\ UNCHANGED <<workload, log, cut>>
      /\ h.event = req[t].event /\ h.rule = HeadFinding(t).rule /\ h.alert = b
      /\ req[t].pc = "write"
  BY <1>1, <1>2 DEF WriteAlert, Outcome
<1>4. PICK ev : ev = HeadFinding(t).evidence
  OBVIOUS
<1>5. /\ LogOK' /\ NoneOverlooked' /\ \A u \in Threads : Carried(u)'
      /\ FoundAt(h.event, h.rule, ev)
  BY <1>3, <1>4, BurstGoesOn
<1>6. PICK n \in Nat : n = Len(alerts) /\ DOMAIN alerts = 1..n
  BY AlertsNumbered
<1>7. /\ \A a \in 1..n : alerts[a].evidence \subseteq alerts'[a].evidence
      /\ ev \subseteq alerts'[b].evidence
  <2>1. CASE req[t].found = 0
    <3>1. alerts' = Append(alerts, NewAlert(t)) /\ b = n + 1
      BY <1>1, <1>6, <2>1 DEF WriteAlert
    <3>2. NewAlert(t).evidence = ev
      BY <1>4 DEF NewAlert
    <3>3. alerts'[n + 1] = NewAlert(t) /\ \A i \in 1..n : alerts'[i] = alerts[i]
      BY <1>6, <3>1, Appended DEF WithheldInv
    <3> QED
      BY <3>1, <3>2, <3>3
  <2>2. CASE req[t].found # 0
    <3>1. b \in 1..n /\ alerts' = [alerts EXCEPT ![b] = AnotherOccurrence(@, t)]
      BY <1>1, <1>3, <1>6, <2>2 DEF WriteAlert, WithheldInv
    <3>2. alerts'[b].evidence = alerts[b].evidence \cup ev
      BY <1>4, <1>6, <3>1 DEF AnotherOccurrence
    <3>3. \A a \in 1..n : a # b => alerts'[a] = alerts[a]
      BY <1>6, <3>1
    <3> QED
      BY <3>2, <3>3
  <2> QED
    BY <2>1, <2>2
<1>8. \A g \in handled : g.alert \in {0} \cup DOMAIN alerts
  BY DEF CountInv
<1>9. AnsweredWell'
  <2>1. FoundAt(h.event, h.rule, ev) /\ ev \subseteq alerts'[h.alert].evidence
    BY <1>3, <1>5, <1>7
  <2>2. LogOK /\ AnsweredWell
    BY DEF BurstInv
  <2>0. log' = log
    BY <1>3
  <2>3. /\ \A a \in DOMAIN alerts : alerts[a].evidence \subseteq alerts'[a].evidence
        /\ handled' \in {handled, handled \cup {h}}
    BY <1>3, <1>6, <1>7
  <2>4. RefersIn(alerts', h)
    BY <2>1 DEF RefersIn
  <2> QED
    BY <1>8, <2>0, <2>2, <2>3, <2>4, AnswersStay
<1> QED
  BY <1>5, <1>9 DEF BurstInv

LEMMA BurstCutOff ==
  ASSUME WithheldInv, CountInv, BurstInv, NEW t \in Threads, CutOff(t)
  PROVE  BurstInv'
<1>1. /\ req'[t].pc = "idle" /\ \A u \in Threads : u # t => req'[u] = req[u]
      /\ UNCHANGED <<workload, alerts, handled, log>> /\ cut' = cut \cup {req[t].event}
  BY DEF CutOff, WithheldInv, Idle
<1>2. \A event \in Stored \ cut', rule \in Enabled : ~Pending(t, event, rule)
  BY <1>1 DEF Pending
<1>3. NoneOverlooked'
  BY <1>1, <1>2, OverlookStays
<1>4. Carried(t)'
  BY <1>1 DEF Carried, Underway
<1>5. \A u \in Threads : Carried(u)'
  BY <1>1, <1>4, OthersCarry
<1>6. AnsweredWell' /\ LogOK'
  BY <1>1, SameAnswers DEF BurstInv, LogOK
<1> QED
  BY <1>3, <1>5, <1>6 DEF BurstInv

LEMMA BurstElsewhere ==
  ASSUME CountInv, BurstInv, UNCHANGED <<workload, log, req, handled, cut>>,
         \/ alerts' = alerts
         \/ \E a \in DOMAIN alerts : Triage(a)
  PROVE  BurstInv'
<1>1. \A a \in DOMAIN alerts : alerts[a].evidence \subseteq alerts'[a].evidence
  <2>1. CASE \E a \in DOMAIN alerts : Triage(a)
    <3>1. PICK a \in DOMAIN alerts : Triage(a)
      BY <2>1
    <3>2. PICK status : alerts' = [alerts EXCEPT ![a].status = status]
      BY <3>1 DEF Triage
    <3> QED
      BY <3>2
  <2> QED
    BY <2>1
<1>2. AnsweredWell' /\ LogOK'
  BY <1>1, SameAnswers DEF BurstInv, LogOK
<1>3. \A u \in Threads : Carried(u)' /\ \A e, r : Pending(u, e, r) => Pending(u, e, r)'
  BY OthersCarry
<1>4. NoneOverlooked'
  <2>1. Stored' = Stored /\ \A e, r : Answered(e, r)' <=> Answered(e, r)
    BY DEF Stored, Answered
  <2>2. \A e, r : MissedAt(e, r) => MissedAt(e, r)'
    BY LogStays DEF BurstInv
  <2>3. NoneOverlooked
    BY DEF BurstInv
  <2> QED
    BY <1>3, <2>1, <2>2, <2>3, Zenon DEF NoneOverlooked
<1> QED
  BY <1>2, <1>3, <1>4 DEF BurstInv

LEMMA BurstNext == WithheldInv /\ CountInv /\ BurstInv /\ [Next]_vars => BurstInv'
<1> SUFFICES ASSUME WithheldInv, CountInv, BurstInv, [Next]_vars PROVE BurstInv'
  OBVIOUS
<1>1. ASSUME NEW t \in Threads,
             Ingest(t) \/ Evaluate(t) \/ Match(t) \/ Lookup(t) \/ WriteAlert(t) \/ CutOff(t)
      PROVE  BurstInv'
  BY <1>1, BurstIngest, BurstEvaluate, BurstMatch, BurstLookup, BurstWrite, BurstCutOff
<1>2. CASE \/ \E a \in DOMAIN alerts : Triage(a)
           \/ CreateSuppression \/ Tick \/ UNCHANGED vars
           \/ \E o \in Operators : AskUnsuppress(o) \/ Unsuppress(o)
  <2>1. UNCHANGED <<workload, log, req, handled, cut>>
    BY <1>2 DEF Triage, CreateSuppression, Tick, vars, AskUnsuppress, Unsuppress
  <2>2. alerts' = alerts \/ \E a \in DOMAIN alerts : Triage(a)
    BY <1>2 DEF CreateSuppression, Tick, vars, AskUnsuppress, Unsuppress
  <2> QED
    BY <2>1, <2>2, BurstElsewhere
<1> QED
  BY <1>1, <1>2 DEF Next

(* What the invariant says of the log and the answers, and the two lemmas on  *)
(* bursts, give the property.                                                 *)
LEMMA BurstsFollow ==
  ASSUME WithheldInv, CountInv, BurstInv
  PROVE  BurstsAreAlerts
<1>1. PICK n \in Nat : n = Len(log) /\ DOMAIN log = 1..n
  BY Appended DEF CountInv
<1>2. Timed(Stored)
  BY <1>1, PipelineAssumption DEF BurstInv, LogOK, Stored, Timed
<1>3. IsFiniteSet(Stored)
  <2>1. [i \in 1..n |-> log[i]] \in Surjection(1..n, Stored)
    BY <1>1 DEF Stored, Surjection
  <2>2. IsFiniteSet(1..n)
    <3>1. 1 \in Int /\ n \in Int
      OBVIOUS
    <3> QED
      BY <3>1, FS_Interval, Zenon
  <2> QED
    BY <2>1, <2>2, FS_Surjection, Zenon
<1>5. \A e, m : LookedAt(e, m) => Upto(m) \in SUBSET Stored /\ e \in Upto(m) /\ UpTo(e) \subseteq Upto(m)
  <2> SUFFICES ASSUME NEW e, NEW m \in 1..n, e \in Upto(m)
               PROVE  Upto(m) \in SUBSET Stored /\ UpTo(e) \subseteq Upto(m)
    BY <1>1 DEF LookedAt
  <2>1. Upto(m) \in SUBSET Stored
    BY <1>1 DEF Upto, Stored
  <2>2. PICK k \in 1..m : log[k] = e
    BY DEF Upto
  <2>3. \A i \in 1..n : log[i] = e => i = k
    BY <1>1, <2>2 DEF BurstInv, LogOK
  <2>4. ASSUME NEW f \in UpTo(e) PROVE f \in Upto(m)
    <3>1. PICK i \in DOMAIN log : log[i] = e /\ \E j \in 1..i : log[j] = f
      BY DEF UpTo
    <3>2. i = k
      BY <1>1, <2>3, <3>1
    <3>3. PICK j \in 1..k : log[j] = f
      BY <3>1, <3>2
    <3> QED
      BY <3>3 DEF Upto
  <2> QED
    BY <2>1, <2>4
<1>6. FoundBursts
  <2> SUFFICES ASSUME NEW event \in Finished, NEW rule \in Enabled, Overlooked(event, rule),
                      NEW S \in SUBSET UpTo(event), event \in S, Burst(rule, S, event),
                      InReach(rule, S, event)
               PROVE  FALSE
    BY Zenon DEF FoundBursts
  <2>1. event \in Stored \ cut /\ \A t \in Threads : req[t] = Idle \/ req[t].event # event
    BY DEF Finished
  <2>2. ~Answered(event, rule)
    BY DEF Overlooked, Answered
  <2>3. ~\E t \in Threads : Pending(t, event, rule)
    BY <2>1 DEF Pending, Idle
  <2>4. MissedAt(event, rule)
    BY <2>1, <2>2, <2>3, Zenon DEF BurstInv, NoneOverlooked
  <2>5. PICK m : LookedAt(event, m) /\ ~Matches(rule, Upto(m), event)
    BY <2>4, Zenon DEF MissedAt
  <2>6. Upto(m) \in SUBSET Stored /\ event \in Upto(m) /\ S \in SUBSET Upto(m)
    BY <1>5, <2>5
  <2>7. \A e \in S : e.ts <= event.ts
    BY DEF UpTo
  <2> QED
    BY <1>2, <1>3, <2>5, <2>6, <2>7, BurstIsFound
<1>7. BackedAlerts
  <2> SUFFICES ASSUME NEW h \in handled, h.alert # 0, AllReferred(h.rule, h.event)
               PROVE  \E S \in SUBSET {e \in Stored : /\ e.id \in alerts[h.alert].evidence
                                                      /\ e.ts <= h.event.ts} :
                        h.event \in S /\ Burst(h.rule, S, h.event)
    BY Zenon DEF BackedAlerts
  <2>1. PICK evidence : /\ FoundAt(h.event, h.rule, evidence)
                        /\ evidence \subseteq alerts[h.alert].evidence
    BY Zenon DEF BurstInv, AnsweredWell
  <2>2. PICK m : /\ LookedAt(h.event, m) /\ Matches(h.rule, Upto(m), h.event)
                 /\ evidence = Evidence(h.rule, Upto(m), h.event)
    BY <2>1, Zenon DEF FoundAt
  <2>3. h.rule \in Rules /\ Upto(m) \in SUBSET Stored /\ h.event \in Upto(m)
    BY <1>5, <2>1, <2>2 DEF FoundAt
  <2>4. PICK S \in SUBSET Stored :
          /\ h.event \in S /\ Burst(h.rule, S, h.event)
          /\ \A e \in S : e.ts <= h.event.ts /\ e.id \in Evidence(h.rule, Upto(m), h.event)
    BY <1>2, <1>3, <2>2, <2>3, FoundIsBurst
  <2>5. S \in SUBSET {e \in Stored : e.id \in alerts[h.alert].evidence /\ e.ts <= h.event.ts}
    BY <2>1, <2>2, <2>4
  <2> QED
    BY <2>4, <2>5
<1> QED
  BY <1>6, <1>7 DEF BurstsAreAlerts

(* For any thresholds, windows and limits, any events in any order and any    *)
(* number of requests: every burst whose latest event comes last is found,    *)
(* unless the context's limits or a cut-off request hide it, and every alert  *)
(* refers to a burst for each occurrence it counts.                           *)
THEOREM BurstsAreFound == Spec => []BurstsAreAlerts
<1>1. Init => CountInv /\ BurstInv
  <2> SUFFICES ASSUME Init PROVE CountInv /\ BurstInv
    OBVIOUS
  <2>1. CountInv
    BY CountInit
  <2>2. IsSequence(log) /\ Len(log) = 0 /\ Stored = {} /\ handled = {} /\ workload \in Workloads
    BY DEF Init, IsSequence, Stored
  <2>3. LogOK
    BY <2>2 DEF LogOK
  <2>4. \A t \in Threads : Carried(t)
    BY DEF Init, Carried, Underway, Idle
  <2> QED
    BY <2>1, <2>2, <2>3, <2>4 DEF BurstInv, AnsweredWell, NoneOverlooked
<1> QED
  BY <1>1, BurstsFollow, WithheldInit, WithheldNext, CountNext, BurstNext, PTL DEF Spec

=============================================================================
