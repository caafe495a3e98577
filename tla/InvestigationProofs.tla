------------------------- MODULE InvestigationProofs -------------------------
(***************************************************************************)
(* Proofs about Listing and Investigation: for any workload, lists are     *)
(* exact, losses are disclosed, findings rest on what was stored and are   *)
(* found again, stored links are those of one analysis, and threat context *)
(* only gets older.                                                        *)
(***************************************************************************)
EXTENDS Investigation, FiniteSetTheorems, SequenceTheorems, NaturalsInduction, WellFoundedInduction, TLAPS

(* The order of a list is strict and total. *)
LEMMA Order ==
  ASSUME NEW a \in Row, NEW b \in Row, NEW c \in Row
  PROVE  /\ ~Precedes(a, a)
         /\ Precedes(a, b) => ~Precedes(b, a)
         /\ Precedes(a, b) /\ Precedes(b, c) => Precedes(a, c)
         /\ a = b \/ Precedes(a, b) \/ Precedes(b, a)
<1>1. /\ a.at \in Int /\ b.at \in Int /\ c.at \in Int
      /\ a.id \in Int /\ b.id \in Int /\ c.id \in Int
  BY ListingAssumption DEF Row
<1>2. a.at = b.at /\ a.id = b.id => a = b
  BY DEF Row
<1> QED
  BY <1>1, <1>2 DEF Precedes

(* A page leaves no row out that comes before one it shows. *)
LEMMA PageIsPrefix ==
  ASSUME NEW s \in SUBSET Row, IsFiniteSet(s), NEW n \in Int,
         NEW r \in Page(s, n), NEW o \in s, Precedes(o, r)
  PROVE  o \in Page(s, n)
<1> DEFINE Before(x) == {y \in s : Precedes(y, x)}
<1>1. r \in s /\ Cardinality(Before(r)) < n
  BY DEF Page
<1>2. Before(o) \subseteq Before(r)
  BY <1>1, Order
<1>3. IsFiniteSet(Before(r))
  BY FS_Subset
<1>4. /\ Cardinality(Before(o)) <= Cardinality(Before(r))
      /\ Cardinality(Before(o)) \in Int /\ Cardinality(Before(r)) \in Int
  BY <1>2, <1>3, FS_Subset, FS_CardinalityType
<1> QED
  BY <1>1, <1>4 DEF Page

LEMMA PageIsSubset ==
  ASSUME NEW s, NEW n
  PROVE  Page(s, n) \subseteq s
BY DEF Page

-----------------------------------------------------------------------------
RowsOK(rs) == rs \in SUBSET Row /\ IsFiniteSet(rs)

ListingOK ==
  \/ /\ listing.phase = "idle"
  \/ /\ listing.phase = "done" /\ listing.since \in Int
  \/ /\ listing.phase \in {"paging", "capped"} /\ listing.since \in Int
     /\ listing.cursor \in Row /\ listing.left \in Int

(***************************************************************************)
(* The invariant behind PagesExact: what was given lies at or before the   *)
(* cursor, so that the next page, which lies after it, repeats nothing;    *)
(* and what stayed still is in the period the reader asked for.            *)
(***************************************************************************)
ListingInv ==
  /\ RowsOK(rows) /\ ListingOK
  /\ steady \subseteq rows
  /\ seen \subseteq Row /\ repeated = {}
  /\ listing.phase = "idle" => seen = {} /\ steady = {}
  /\ listing.phase # "idle" => \A r \in steady : r.at >= listing.since
  /\ listing.phase \in {"paging", "capped"} =>
       \A r \in seen : ~Precedes(listing.cursor, r)
  /\ \A r \in steady : Passed(r) => r \in seen

(* One page, of the rows after those already given. *)
LEMMA ReturnSafe ==
  ASSUME ListingInv, NEW since \in Int, NEW left \in Int,
         NEW eligible \in SUBSET InPeriod(since),
         Return(eligible, since, left),
         \A r \in seen, o \in eligible : Precedes(r, o),
         NEW still \in SUBSET InPeriod(since),
         \A r \in still : r \in seen \/ r \in eligible,
         steady' = still
  PROVE  ListingInv'
<1> DEFINE n == Take(left)
           page == Page(eligible, n)
<1>1. RowsOK(rows) /\ seen \subseteq Row /\ repeated = {}
  BY DEF ListingInv
<1>2. eligible \in SUBSET Row /\ IsFiniteSet(eligible) /\ InPeriod(since) \subseteq rows
  <2>1. eligible \subseteq rows /\ InPeriod(since) \subseteq rows
    BY DEF InPeriod
  <2> QED
    BY <1>1, <2>1, FS_Subset DEF RowsOK
<1>3. n \in Int
  BY ListingAssumption DEF Take
<1>4. page \subseteq eligible
  BY PageIsSubset
<1>5. Cardinality(page) \in Int
  BY <1>2, <1>4, FS_Subset, FS_CardinalityType
<1> HIDE DEF n
<1>6. /\ seen' = seen \cup page /\ rows' = rows
      /\ repeated' = repeated \cup (page \cap seen)
  BY DEF Return, n
<1>7. repeated' = {}
  <2>1. page \cap seen = {}
    BY <1>1, <1>4, Order
  <2> QED
    BY <1>1, <1>6, <2>1
<1>8. /\ RowsOK(rows)' /\ seen' \subseteq Row /\ steady' \subseteq rows'
      /\ \A r \in steady' : r.at >= since
  BY <1>1, <1>2, <1>4, <1>6 DEF RowsOK, InPeriod
<1>9. CASE /\ page = eligible
           /\ listing' = [phase |-> "done", since |-> since, all |-> TRUE]
  <2>1. /\ listing'.phase = "done" /\ listing'.since = since
    BY <1>9
  <2>2. \A r \in steady' : r \in seen'
    BY <1>6, <1>9
  <2> QED
    BY <1>7, <1>8, <2>1, <2>2 DEF ListingInv, ListingOK
<1>10. CASE \E last \in page :
              /\ page # eligible
              /\ IsLast(last, page)
              /\ listing' = [phase |-> IF left - Cardinality(page) > 0 THEN "paging" ELSE "capped",
                             since |-> since, cursor |-> last,
                             left |-> left - Cardinality(page)]
  <2>1. PICK last \in page :
          /\ IsLast(last, page)
          /\ listing' = [phase |-> IF left - Cardinality(page) > 0 THEN "paging" ELSE "capped",
                         since |-> since, cursor |-> last,
                         left |-> left - Cardinality(page)]
    BY <1>10
  <2>2. /\ listing'.phase \in {"paging", "capped"} /\ listing'.since = since
        /\ listing'.cursor = last /\ listing'.left \in Int
    BY <1>5, <2>1
  <2>3. last \in Row /\ last \in eligible
    BY <1>2, <1>4
  <2>4. \A r \in seen' : ~Precedes(last, r)
    <3>1. \A r \in seen : ~Precedes(last, r)
      BY <1>1, <2>3, Order
    <3>2. \A r \in page : ~Precedes(last, r)
      <4> SUFFICES ASSUME NEW r \in page PROVE ~Precedes(last, r)
        OBVIOUS
      <4>1. r = last \/ Precedes(r, last)
        BY <2>1 DEF IsLast
      <4>2. r \in Row
        BY <1>2, <1>4
      <4> QED
        BY <2>3, <4>1, <4>2, Order
    <3> QED
      BY <1>6, <3>1, <3>2
  <2>5. ASSUME NEW r \in steady', ~Precedes(last, r)
        PROVE  r \in seen'
    <3>1. CASE r \in seen
      BY <1>6, <3>1
    <3>2. CASE r \in eligible
      <4>1. r = last \/ Precedes(r, last)
        BY <1>2, <2>3, <2>5, <3>2, Order
      <4>2. r \in page
        BY <1>2, <1>3, <3>2, <4>1, PageIsPrefix
      <4> QED
        BY <1>6, <4>2
    <3> QED
      BY <3>1, <3>2
  <2> QED
    BY <1>7, <1>8, <2>2, <2>3, <2>4, <2>5 DEF ListingInv, ListingOK, Passed
<1> QED
  BY <1>9, <1>10 DEF Return, n

-----------------------------------------------------------------------------
LEMMA OpenSafe ==
  ASSUME ListingInv, NEW since \in Int, NEW cap \in Caps, Open(since, cap)
  PROVE  ListingInv'
<1>1. seen = {} /\ cap \in Int /\ steady' = InPeriod(since)
  BY ListingAssumption DEF ListingInv, Open
<1>2. Return(InPeriod(since), since, cap)
  BY DEF Open
<1> QED
  BY <1>1, <1>2, ReturnSafe

LEMMA MoreSafe ==
  ASSUME ListingInv, More
  PROVE  ListingInv'
<1> DEFINE since == listing.since
           cursor == listing.cursor
           eligible == After(cursor, InPeriod(since))
<1>1. /\ listing.phase = "paging" /\ since \in Int /\ cursor \in Row
      /\ listing.left \in Int
  BY DEF ListingInv, ListingOK, More
<1>2. Return(eligible, since, listing.left) /\ steady' = steady
  BY DEF More
<1>3. eligible \subseteq InPeriod(since) /\ eligible \subseteq Row
  BY DEF After, InPeriod, ListingInv, RowsOK
<1>4. \A r \in seen, o \in eligible : Precedes(r, o)
  <2> SUFFICES ASSUME NEW r \in seen, NEW o \in eligible
               PROVE  Precedes(r, o)
    OBVIOUS
  <2>1. Precedes(cursor, o) /\ ~Precedes(cursor, r) /\ r \in Row /\ o \in Row
    BY <1>1, <1>3 DEF After, ListingInv
  <2> QED
    BY <1>1, <2>1, Order
<1>5. steady \subseteq InPeriod(since)
  BY <1>1 DEF ListingInv, InPeriod
<1>6. \A r \in steady : r \in seen \/ r \in eligible
  BY <1>1, <1>5 DEF ListingInv, Passed, After
<1> HIDE DEF since, eligible
<1> QED
  BY <1>1, <1>2, <1>3, <1>4, <1>5, <1>6, ReturnSafe

LEMMA ChangeSafe ==
  ASSUME ListingInv, NEW new \in SUBSET Row, IsFiniteSet(new), Change(new)
  PROVE  ListingInv'
BY DEF ListingInv, ListingOK, RowsOK, Change, Passed

LEMMA ListingSafe ==
  ASSUME ListingInv, [ListingNext]_listingVars
  PROVE  ListingInv'
<1>1. CASE \E since \in Int, cap \in Caps : Open(since, cap)
  BY <1>1, OpenSafe
<1>2. CASE More
  BY <1>2, MoreSafe
<1>3. CASE \E new \in SUBSET Row : IsFiniteSet(new) /\ Change(new)
  BY <1>3, ChangeSafe
<1>4. CASE UNCHANGED listingVars
  BY <1>4 DEF listingVars, ListingInv, ListingOK, RowsOK, Passed
<1> QED
  BY <1>1, <1>2, <1>3, <1>4 DEF ListingNext

(***************************************************************************)
(* Whatever rows there are, however many fit on a page, and whatever comes,*)
(* goes or moves between two pages, a reader is given every row that       *)
(* stayed where it was, up to its cursor, and none twice.                  *)
(***************************************************************************)
THEOREM ListIsExact == ListingSpec => []PagesExact
<1>1. ListingInit => ListingInv
  BY FS_EmptySet DEF ListingInit, ListingInv, ListingOK, RowsOK, Passed
<1>2. ListingInv /\ [ListingNext]_listingVars => ListingInv'
  BY ListingSafe
<1>3. ListingInv => PagesExact
  BY DEF ListingInv, PagesExact
<1> QED
  BY <1>1, <1>2, <1>3, PTL DEF ListingSpec

-----------------------------------------------------------------------------
(* A non-empty set of natural numbers has a least element. *)
LEMMA LeastNumber ==
  ASSUME NEW S \in SUBSET Nat, S # {}
  PROVE  \E x \in S : \A y \in S : x <= y
<1>1. PICK x \in S : \A y \in S : ~ (<<y, x>> \in OpToRel(<, Nat))
  BY NatLessThanWellFounded, WFMin, Zenon
<1>2. \A y \in S : ~ (y < x)
  BY <1>1, Zenon DEF OpToRel
<1> QED
  BY <1>2

(* What is above a place above a path. *)
LEMMA AboveIs ==
  ASSUME NEW p \in Seq(Nat), NEW k \in 0..Len(p)
  PROVE  /\ Above(p, k) \in Seq(Nat) /\ Len(Above(p, k)) = k
         /\ \A j \in 1..k : Above(p, k)[j] = p[j]
         /\ \A j \in 0..k : Above(Above(p, k), j) = Above(p, j)
<1>1. Above(p, k) = [i \in 1..k |-> p[i]] /\ Len(p) \in Nat /\ DOMAIN p = 1..Len(p)
  BY DEF Above
<1>2. Above(p, k) \in Seq(Nat) /\ Len(Above(p, k)) = k
  BY DEF Above
<1>3. \A j \in 1..k : Above(p, k)[j] = p[j]
  BY <1>1
<1>4. ASSUME NEW j \in 0..k PROVE Above(Above(p, k), j) = Above(p, j)
  <2>1. Above(Above(p, k), j) = [i \in 1..j |-> Above(p, k)[i]]
    BY <1>2 DEF Above
  <2>2. Above(p, j) = [i \in 1..j |-> p[i]]
    BY DEF Above
  <2> QED
    BY <1>3, <2>1, <2>2
<1> QED
  BY <1>2, <1>3, <1>4

(* A node that is not reached is below a member of a collection that is, one *)
(* the limits cut or whose key is dropped.                                   *)
LEMMA FirstCut ==
  ASSUME NEW t, IsTree(t), NEW p \in DOMAIN t, ~Reached(t, p)
  PROVE  \E q \in Members(t) : ~(FirstItems(q, Len(q)) /\ IsSafe(t, q))
<1> DEFINE cuts == {k \in 1..Len(p) : ~(FirstItems(p, k) /\ IsSafe(t, Above(p, k)))}
<1>1. p \in Seq(Nat) /\ Len(p) \in Nat
  BY DEF IsTree
<1>2. cuts \in SUBSET Nat /\ cuts # {}
  BY <1>1 DEF Reached
<1>3. PICK k \in cuts : \A j \in cuts : k <= j
  <2> HIDE DEF cuts
  <2> QED
    BY <1>2, LeastNumber
<1> DEFINE q == Above(p, k)
<1>4. k \in 1..Len(p) /\ k \in 0..Len(p) /\ k - 1 \in 0..k
  BY <1>1
<1>5. /\ q \in Seq(Nat) /\ Len(q) = k /\ q \in DOMAIN t /\ q[k] = p[k]
      /\ \A j \in 0..k : Above(q, j) = Above(p, j)
  <2>1. q \in DOMAIN t /\ k \in 1..k
    BY <1>4 DEF IsTree
  <2> QED
    BY <1>1, <1>4, <2>1, AboveIs
<1>6. Reached(t, Above(q, k - 1))
  <2>1. /\ Len(Above(q, k - 1)) = k - 1
        /\ \A j \in 1..(k - 1) : Above(q, k - 1)[j] = q[j]
        /\ \A j \in 0..(k - 1) : Above(Above(q, k - 1), j) = Above(q, j)
    BY <1>4, <1>5, AboveIs
  <2>2. \A j \in 1..k : q[j] = p[j]
    BY <1>1, <1>4, AboveIs
  <2> SUFFICES ASSUME NEW j \in 1..(k - 1)
               PROVE  FirstItems(Above(q, k - 1), j) /\ IsSafe(t, Above(Above(q, k - 1), j))
    BY <2>1 DEF Reached
  <2>3. j \in 1..k /\ j \in 0..k /\ j \in 0..(k - 1) /\ j \notin cuts /\ j \in 1..Len(p)
    BY <1>1, <1>3, <1>4
  <2>4. FirstItems(p, j) /\ IsSafe(t, Above(p, j))
    BY <2>3
  <2> HIDE DEF q
  <2>5. Above(q, k - 1)[j] = p[j] /\ Above(Above(q, k - 1), j) = Above(p, j)
    BY <1>5, <2>1, <2>2, <2>3
  <2> QED
    BY <2>4, <2>5 DEF FirstItems
<1>7. q \in Members(t)
  <2> HIDE DEF q
  <2> QED
    BY <1>4, <1>5, <1>6 DEF Members
<1>8. Above(q, k) = q /\ FirstItems(q, k) = FirstItems(p, k) /\ Above(p, k) = q
  BY <1>4, <1>5 DEF FirstItems
<1>9. ~(FirstItems(q, k) /\ IsSafe(t, q))
  BY <1>8
<1> HIDE DEF q
<1> QED
  BY <1>5, <1>7, <1>9

(* The last step to a node that is reached is one of those that reach it. *)
LEMMA LastStep ==
  ASSUME NEW t, IsTree(t), NEW p \in DOMAIN t, Len(p) > 0, Reached(t, p)
  PROVE  FirstItems(p, Len(p)) /\ IsSafe(t, p)
<1>1. p \in Seq(Nat) /\ Len(p) \in Nat
  BY DEF IsTree
<1>2. Len(p) \in 1..Len(p) /\ Above(p, Len(p)) = p
  BY <1>1 DEF Above
<1> QED
  BY <1>2 DEF Reached

(* Nothing is lost exactly when the value stays as it is. *)
LEMMA LossShows ==
  ASSUME NEW t, IsTree(t)
  PROVE  Lost(t) # {} <=> Bounded(t) # t
<1> DEFINE u == Bounded(t)
<1>0. /\ DOMAIN u = Visited(t) /\ Visited(t) \subseteq DOMAIN t
      /\ \A p \in Visited(t) : u[p] = IF CutText(t[p]) THEN [t[p] EXCEPT !.length = MaxString] ELSE t[p]
  BY DEF Bounded, Visited
<1>1. CASE Lost(t) = {}
  <2>1. /\ \A q \in Members(t) : FirstItems(q, Len(q)) /\ IsSafe(t, q)
        /\ \A p \in Visited(t) : ~CutText(t[p])
    BY <1>1 DEF Lost, CutItems, DroppedKeys, CutTexts
  <2>2. Visited(t) = DOMAIN t
    BY <2>1, FirstCut DEF Visited
  <2>3. \A p \in DOMAIN t : u[p] = t[p]
    BY <1>0, <2>1, <2>2
  <2>4. t = [p \in DOMAIN t |-> t[p]] /\ u = [p \in DOMAIN t |-> u[p]]
    <3>1. t \in [DOMAIN t -> Nodes]
      BY DEF IsTree
    <3>2. u = [p \in Visited(t) |-> u[p]]
      BY DEF Bounded
    <3> QED
      BY <2>2, <3>1, <3>2
  <2> QED
    BY <1>1, <2>3, <2>4
<1>2. CASE CutTexts(t) # {}
  <2>1. PICK p \in Visited(t) : CutText(t[p])
    BY <1>2 DEF CutTexts
  <2>2. t[p] \in Nodes /\ t[p].length > MaxString /\ MaxString \in Nat
    BY <1>0, <2>1, LimitsAssumption DEF CutText, IsTree
  <2>3. u[p].length = MaxString
    BY <1>0, <2>1, <2>2 DEF Nodes
  <2>4. u # t
    BY <2>2, <2>3
  <2> QED
    BY <1>2, <2>4 DEF Lost
<1>3. CASE CutItems(t) # {} \/ DroppedKeys(t) # {}
  <2>1. PICK q \in Members(t) : ~(FirstItems(q, Len(q)) /\ IsSafe(t, q))
    BY <1>3 DEF CutItems, DroppedKeys
  <2>2. q \in DOMAIN t /\ q \notin Visited(t)
    BY <2>1, LastStep DEF Members, Visited
  <2>3. u # t
    BY <1>0, <2>2
  <2> QED
    BY <1>3, <2>3 DEF Lost
<1> QED
  BY <1>1, <1>2, <1>3 DEF Lost

(* What is kept is within the limits: nothing more would be lost of it. *)
LEMMA KeptIsWithin ==
  ASSUME NEW t, IsTree(t)
  PROVE  Lost(Bounded(t)) = {}
<1> DEFINE u == Bounded(t)
<1>0. /\ DOMAIN u = Visited(t) /\ Visited(t) \subseteq DOMAIN t
      /\ \A p \in Visited(t) : u[p] = IF CutText(t[p]) THEN [t[p] EXCEPT !.length = MaxString] ELSE t[p]
  BY DEF Bounded, Visited
<1>1. ASSUME NEW p \in Visited(t)
      PROVE  ~CutText(u[p]) /\ u[p].safe = t[p].safe
  <2>1. t[p] \in Nodes /\ MaxString \in Nat
    BY <1>0, LimitsAssumption DEF IsTree
  <2>2. u[p] = IF CutText(t[p]) THEN [t[p] EXCEPT !.length = MaxString] ELSE t[p]
    BY <1>0
  <2> HIDE DEF u
  <2> QED
    BY <2>1, <2>2 DEF CutText, Nodes
<1> HIDE DEF u
<1>2. CutTexts(u) = {}
  BY <1>0, <1>1 DEF CutTexts, Visited
<1>3. ASSUME NEW q \in Members(u)
      PROVE  FirstItems(q, Len(q)) /\ IsSafe(u, q)
  <2>1. q \in Visited(t) /\ Len(q) > 0
    BY <1>0 DEF Members
  <2>2. q \in DOMAIN t /\ Reached(t, q)
    BY <2>1 DEF Visited
  <2>3. FirstItems(q, Len(q)) /\ IsSafe(t, q)
    BY <2>1, <2>2, LastStep
  <2> QED
    BY <1>1, <2>1, <2>3 DEF IsSafe
<1>4. CutItems(u) = {} /\ DroppedKeys(u) = {}
  BY <1>3 DEF CutItems, DroppedKeys
<1> QED
  BY <1>2, <1>4 DEF Lost, u

-----------------------------------------------------------------------------
(* Analyses. *)

Grounded(f, e, past) ==
  /\ f.analytic = "novel" => \A o \in past : f.about[2] \notin Dimensions(o)[f.about[1]]
  /\ f.analytic = "rare_command" => Cardinality(SameCommand(past, e)) <= Policy.rare
  /\ f.evidence \subseteq {e.id} \cup {o.id : o \in past}

LEMMA OldestAreGiven ==
  ASSUME NEW items, NEW n
  PROVE  OldestIds(items, n) \subseteq {o.id : o \in items}
BY DEF OldestIds, FirstIds

(* Findings that are neither of a novelty nor of a rare command only have to *)
(* rest on the events they were given.                                       *)
LEMMA PlainFinding ==
  ASSUME NEW analytic, analytic \notin {"novel", "rare_command"}, NEW about, NEW e,
         NEW past, NEW items \in SUBSET past
  PROVE  /\ Grounded(Finding(analytic, about, e, items), e, past)
         /\ Grounded(FindingInOrder(analytic, about, e, items), e, past)
BY OldestAreGiven DEF Grounded, Finding, FindingInOrder

LEMMA WindowIsOf ==
  ASSUME NEW h, NEW e, NEW length
  PROVE  Window(h, e, length) \subseteq h
BY DEF Window

LEMMA NoveltyGrounded ==
  ASSUME NEW e, NEW past, Window(past, e, Policy.month) = past, NEW f \in Novelties(e, past)
  PROVE  Grounded(f, e, past)
<1>1. PICK d \in DOMAIN Dimensions(e) :
        \E v \in Dimensions(e)[d] \ UNION {Dimensions(o)[d] : o \in past} :
          f = Finding("novel", <<d, v>>, e, {})
  BY DEF Novelties
<1>2. PICK v \in Dimensions(e)[d] \ UNION {Dimensions(o)[d] : o \in past} :
        f = Finding("novel", <<d, v>>, e, {})
  BY <1>1
<1>3. /\ f.analytic = "novel" /\ f.about[1] = d /\ f.about[2] = v
      /\ f.evidence = {e.id} \cup OldestIds({}, Policy.evidence - 1)
  BY <1>2 DEF Finding
<1>4. \A o \in past : v \notin Dimensions(o)[d]
  OBVIOUS
<1>5. OldestIds({}, Policy.evidence - 1) = {}
  BY OldestAreGiven
<1> QED
  BY <1>3, <1>4, <1>5 DEF Grounded

LEMMA RareGrounded ==
  ASSUME NEW e, NEW past, Window(past, e, Policy.month) = past, NEW f \in RareCommand(e, past)
  PROVE  Grounded(f, e, past)
<1> DEFINE before == SameCommand(past, e)
<1>1. Cardinality(before) <= Policy.rare /\ f = Finding("rare_command", e.command, e, before)
  BY DEF RareCommand
<1>2. /\ f.analytic = "rare_command"
      /\ f.evidence = {e.id} \cup OldestIds(before, Policy.evidence - 1)
  BY <1>1 DEF Finding
<1>3. before \subseteq past
  BY DEF SameCommand
<1>4. OldestIds(before, Policy.evidence - 1) \subseteq {o.id : o \in past}
  BY <1>3, OldestAreGiven
<1> QED
  BY <1>1, <1>2, <1>4 DEF Grounded

LEMMA SpikeGrounded ==
  ASSUME NEW e, NEW past, NEW f \in CommandSpike(e, past)
  PROVE  Grounded(f, e, past)
<1> DEFINE today == SameCommand(Window(past, e, Policy.day), e)
<1>1. f = Finding("command_frequency_spike", e.command, e, today)
  BY DEF CommandSpike
<1>2. today \in SUBSET past
  BY DEF SameCommand, Window
<1> QED
  BY <1>1, <1>2, PlainFinding

LEMMA LoginGrounded ==
  ASSUME NEW e, NEW past, NEW f \in LoginBurst(e, past)
  PROVE  Grounded(f, e, past)
<1> DEFINE recent == Logins(FromSource(Window(past, e, Policy.minutes), e))
<1>1. f = Finding("authentication_attempt_burst", e.source, e, recent)
  BY DEF LoginBurst
<1>2. recent \in SUBSET past
  BY DEF Logins, FromSource, Window
<1> QED
  BY <1>1, <1>2, PlainFinding

LEMMA EventsGrounded ==
  ASSUME NEW e, NEW past, NEW f \in EventBurst(e, past)
  PROVE  Grounded(f, e, past)
<1> DEFINE recent == FromSource(Window(past, e, Policy.minutes), e)
<1>1. f = FindingInOrder("event_rate_recon_burst", e.source, e, recent)
  BY DEF EventBurst
<1>2. recent \in SUBSET past
  BY DEF FromSource, Window
<1> QED
  BY <1>1, <1>2, PlainFinding

LEMMA SessionGrounded ==
  ASSUME NEW e, NEW past, NEW f \in LongSession(e, past)
  PROVE  Grounded(f, e, past)
<1> DEFINE own == {o \in Window(past, e, Policy.month) : o.session = e.session}
<1>1. f = FindingInOrder("unusual_session_duration", e.session, e, own)
  BY DEF LongSession
<1>2. own \in SUBSET past
  BY DEF Window
<1> QED
  BY <1>1, <1>2, PlainFinding

LEMMA ClusterGrounded ==
  ASSUME NEW e, NEW past, NEW f \in Cluster(e, past)
  PROVE  Grounded(f, e, past)
<1> DEFINE related(s) == {o \in Window(past, e, Policy.month) :
                            o.source = s /\ Tokens(o) \cap Tokens(e) # {}}
           shared(s) == UNION {Tokens(o) \cap Tokens(e) : o \in related(s)}
           sources == {s \in {o.source : o \in past} \ {e.source, Absent} : Cardinality(shared(s)) >= 2}
           items == UNION {related(s) : s \in sources}
<1> DEFINE first(s) == CHOOSE o \in related(s) : \A p \in related(s) : p = o \/ Earlier(o, p)
           before(i) == {j \in items : IF i.source = j.source THEN Earlier(j, i)
                                       ELSE Earlier(first(j.source), first(i.source))}
           oldest == FirstIds(items, Policy.evidence - 1, [i \in items |-> before(i)])
<1>1. f = [analytic |-> "campaign_cluster_hypothesis", about |-> sources,
           evidence |-> {e.id} \cup oldest]
  BY Zenon DEF Cluster
<1>2. items \in SUBSET past
  BY DEF Window
<1>3. oldest \subseteq {o.id : o \in items}
  BY DEF FirstIds
<1> HIDE DEF items, sources, oldest
<1> QED
  BY <1>1, <1>2, <1>3 DEF Grounded

(* All that is found against a whole month rests on it. *)
LEMMA EvaluateGrounded ==
  ASSUME NEW e, NEW past, Window(past, e, Policy.month) = past, NEW truncated,
         NEW f \in Evaluate(e, past, truncated)
  PROVE  Grounded(f, e, past)
<1>1. \/ f \in Novelties(e, past) \/ f \in RareCommand(e, past) \/ f \in CommandSpike(e, past)
      \/ f \in LoginBurst(e, past) \/ f \in EventBurst(e, past) \/ f \in Cluster(e, past)
      \/ f \in LongSession(e, past)
  BY DEF Evaluate
<1> QED
  BY <1>1, NoveltyGrounded, RareGrounded, SpikeGrounded, LoginGrounded, EventsGrounded,
     ClusterGrounded, SessionGrounded

(* The newest n of no more than n are all of them. *)
LEMMA NewestAreAll ==
  ASSUME NEW items, IsFiniteSet(items), NEW n \in Nat, Cardinality(items) <= n,
         \A o \in items : o.timestamp \in Int /\ o.id \in Int
  PROVE  NewestOf(items, n) = items
<1> SUFFICES ASSUME NEW e \in items
             PROVE  Cardinality({o \in items : \/ o.timestamp > e.timestamp
                                               \/ o.timestamp = e.timestamp /\ o.id > e.id}) < n
  BY DEF NewestOf
<1> DEFINE newer == {o \in items : \/ o.timestamp > e.timestamp
                                   \/ o.timestamp = e.timestamp /\ o.id > e.id}
<1>1. newer \in SUBSET (items \ {e})
  OBVIOUS
<1> HIDE DEF newer
<1>2. /\ IsFiniteSet(items \ {e}) /\ Cardinality(items \ {e}) = Cardinality(items) - 1
      /\ Cardinality(items) \in Nat
  BY FS_RemoveElement, FS_CardinalityType
<1>3. Cardinality(newer) <= Cardinality(items \ {e}) /\ Cardinality(newer) \in Nat
  BY <1>1, <1>2, FS_Subset, FS_CardinalityType
<1> QED
  BY <1>2, <1>3 DEF newer

Events == {EventOf(i) : i \in DOMAIN Offers}

FoundIn(e, stored) ==
  LET past == History(e, stored)
  IN Evaluate(e, NewestOf(past, AnalysisLimit), Cardinality(past) > AnalysisLimit)

AnalysesOK ==
  \A a \in analyses :
    /\ \E i \in DOMAIN Offers : a.event = EventOf(i)
    /\ a.stored \subseteq Events /\ IsFiniteSet(a.stored)
    /\ a.findings = FoundIn(a.event, a.stored)

LEMMA EventsTyped ==
  ASSUME workload \in Workloads, NEW i \in DOMAIN Offers
  PROVE  /\ EventOf(i).id = i /\ EventOf(i).timestamp \in Int
         /\ EventOf(i).timestamp = Offers[i].timestamp
         /\ EventOf(i).session = Offers[i].session /\ EventOf(i).session \in Ids
         /\ i \in Ids /\ i \in Int /\ IsOffer(Offers[i])
<1>1. /\ EventOf(i).id = i /\ EventOf(i).timestamp = Offers[i].timestamp
      /\ EventOf(i).session = Offers[i].session
  BY DEF EventOf
<1>2. IsOffer(Offers[i]) /\ i \in Ids
  BY WorkloadsAssumption DEF Offers
<1> QED
  BY <1>1, <1>2, ListingAssumption DEF IsOffer

(* What is found in a history rests on all of it. *)
LEMMA FoundGrounded ==
  ASSUME workload \in Workloads, NEW i \in DOMAIN Offers, NEW stored \in SUBSET Events,
         IsFiniteSet(stored), NEW f \in FoundIn(EventOf(i), stored)
  PROVE  Grounded(f, EventOf(i), History(EventOf(i), stored))
<1> DEFINE e == EventOf(i)
           past == History(e, stored)
           truncated == Cardinality(past) > AnalysisLimit
<1>1. past \in SUBSET stored /\ Window(past, e, Policy.month) = past
  BY DEF History, Window
<1>2. IsFiniteSet(past) /\ \A o \in past : o.timestamp \in Int /\ o.id \in Int
  BY <1>1, FS_Subset, EventsTyped DEF Events
<1> HIDE DEF e, past
<1>3. f \in Evaluate(e, NewestOf(past, AnalysisLimit), truncated)
  BY DEF FoundIn, e, past
<1>4. ~truncated
  BY <1>3 DEF Evaluate, Ready
<1>5. Cardinality(past) <= AnalysisLimit /\ AnalysisLimit \in Nat
  BY <1>2, <1>4, FS_CardinalityType, WorkloadsAssumption
<1>6. NewestOf(past, AnalysisLimit) = past
  BY <1>2, <1>5, NewestAreAll
<1> QED
  BY <1>1, <1>3, <1>6, EvaluateGrounded DEF e, past

LEMMA AnalysesGrounded ==
  ASSUME workload \in Workloads, AnalysesOK
  PROVE  FindingsGrounded
<1> SUFFICES ASSUME NEW a \in analyses, NEW f \in a.findings
             PROVE  Grounded(f, a.event, History(a.event, a.stored))
  BY DEF FindingsGrounded, Grounded
<1>1. PICK i \in DOMAIN Offers : a.event = EventOf(i)
  BY DEF AnalysesOK
<1> QED
  BY <1>1, FoundGrounded DEF AnalysesOK

(* Events after one that is measured are not in its past. *)
LEMMA AnalysesRepeat ==
  ASSUME workload \in Workloads, AnalysesOK
  PROVE  AnalysisRepeatable
<1> SUFFICES ASSUME NEW a \in analyses, NEW b \in analyses, a.event = b.event,
                    a.stored \subseteq b.stored,
                    \A o \in b.stored \ a.stored : o.timestamp > a.event.timestamp
             PROVE  a.findings = b.findings
  BY DEF AnalysisRepeatable
<1>1. PICK i \in DOMAIN Offers : a.event = EventOf(i)
  BY DEF AnalysesOK
<1>2. a.event.timestamp \in Int /\ \A o \in b.stored : o.timestamp \in Int
  BY <1>1, EventsTyped DEF AnalysesOK, Events
<1>3. \A o \in b.stored \ a.stored : ~(o.timestamp <= a.event.timestamp)
  BY <1>2
<1>4. History(a.event, a.stored) = History(a.event, b.stored)
  BY <1>3 DEF History, Window
<1> QED
  BY <1>4 DEF AnalysesOK, FoundIn

-----------------------------------------------------------------------------
(* Ages. *)

LEMMA Division ==
  ASSUME NEW a \in Nat, NEW b \in Nat, b > 0
  PROVE  /\ a \div b \in Nat /\ a % b \in 0..(b - 1)
         /\ a = b * (a \div b) + (a % b)
<1>1. a = b * (a \div b) + (a % b)
  BY SMTT(30)
<1>2. a % b \in 0..(b - 1)
  OBVIOUS
<1>3. a \div b \in Nat
  OBVIOUS
<1> QED
  BY <1>1, <1>2, <1>3, Zenon

LEMMA DivisionOrdered ==
  ASSUME NEW a \in Nat, NEW c \in Nat, NEW b \in Nat, b > 0, a <= c
  PROVE  a \div b <= c \div b
<1>1. /\ a = b * (a \div b) + (a % b) /\ c = b * (c \div b) + (c % b)
      /\ a \div b \in Nat /\ c \div b \in Nat /\ a % b \in 0..(b - 1) /\ c % b \in 0..(b - 1)
  BY Division
<1> SUFFICES ASSUME c \div b <= a \div b - 1 PROVE FALSE
  BY <1>1
<1> QED
  BY <1>1

(* Rounding keeps the order, and the bounds it has.                          *)
LEMMA RoundedIs ==
  ASSUME NEW a \in Nat, NEW b \in Nat, b > 0
  PROVE  /\ a \div b \in Nat /\ Rounded(a, b) \in Nat
         /\ a \div b <= Rounded(a, b) /\ Rounded(a, b) <= (a \div b) + 1
BY Division DEF Rounded

LEMMA RoundedOrdered ==
  ASSUME NEW a \in Nat, NEW c \in Nat, NEW b \in Nat, b > 0, a <= c
  PROVE  Rounded(a, b) <= Rounded(c, b)
<1>1. /\ a = b * (a \div b) + (a % b) /\ c = b * (c \div b) + (c % b)
      /\ a \div b \in Nat /\ c \div b \in Nat /\ a % b \in 0..(b - 1) /\ c % b \in 0..(b - 1)
  BY Division
<1>2. a \div b <= c \div b
  BY DivisionOrdered
<1>3. CASE a \div b < c \div b
  <2>1. /\ Rounded(a, b) <= (a \div b) + 1 /\ c \div b <= Rounded(c, b)
        /\ Rounded(a, b) \in Nat /\ Rounded(c, b) \in Nat
    BY RoundedIs, Zenon
  <2>2. PICK m \in Nat, n \in Nat : m = a \div b /\ n = c \div b
    BY <1>1
  <2> QED
    BY <1>3, <2>1, <2>2
<1>4. CASE a \div b = c \div b
  <2>1. a % b <= c % b
    BY <1>1, <1>4
  <2> QED
    BY <1>1, <1>4, <2>1 DEF Rounded
<1> QED
  BY <1>1, <1>2, <1>3, <1>4

LEMMA RoundedWhole ==
  ASSUME NEW n \in Nat, NEW b \in Nat, b > 0
  PROVE  Rounded(n * b, b) = n
<1>1. /\ n * b = b * ((n * b) \div b) + ((n * b) % b) /\ n * b \in Nat
      /\ (n * b) \div b \in Nat /\ (n * b) % b \in 0..(b - 1)
  BY Division
<1>2. (n * b) \div b = n /\ (n * b) % b = 0
  BY <1>1
<1> QED
  BY <1>2 DEF Rounded

LEMMA FreshnessFalls ==
  ASSUME NEW young \in Nat, NEW old \in Nat, young <= old
  PROVE  Freshness(old) <= Freshness(young)
<1> DEFINE b == AgedAfter - StaleAfter
           left(age) == 100 * (AgedAfter - age)
<1>1. AgedAfter \in Nat /\ StaleAfter \in Nat /\ b \in Nat /\ b > 0
  BY AgingAssumption
<1>2. ASSUME NEW age \in Nat, StaleAfter <= age, age < AgedAfter
      PROVE  /\ left(age) \in Nat /\ left(age) <= 100 * b
             /\ Freshness(age) = Rounded(left(age), b) /\ Freshness(age) \in 0..100
  <2>1. left(age) \in Nat /\ left(age) <= 100 * b /\ 100 * b \in Nat
    BY <1>1, <1>2
  <2>2. Freshness(age) = Rounded(left(age), b)
    BY <1>1, <1>2 DEF Freshness
  <2> HIDE DEF b, left
  <2>3. Rounded(left(age), b) <= Rounded(100 * b, b) /\ Rounded(left(age), b) \in Nat
    BY <1>1, <2>1, RoundedOrdered, RoundedIs
  <2>4. Rounded(100 * b, b) = 100
    BY <1>1, RoundedWhole
  <2> QED
    BY <2>1, <2>2, <2>3, <2>4
<1>3. CASE old < StaleAfter
  BY <1>1, <1>3 DEF Freshness
<1>4. CASE old >= AgedAfter
  <2>1. Freshness(old) = 0
    BY <1>1, <1>4 DEF Freshness
  <2>2. Freshness(young) \in 0..100
    BY <1>1, <1>2 DEF Freshness
  <2> QED
    BY <2>1, <2>2
<1>5. CASE StaleAfter <= old /\ old < AgedAfter
  <2>1. CASE young < StaleAfter
    BY <1>1, <1>2, <1>5, <2>1 DEF Freshness
  <2>2. CASE StaleAfter <= young
    <3>1. left(old) <= left(young) /\ young < AgedAfter
      BY <1>1, <1>5
    <3> HIDE DEF b, left
    <3> QED
      BY <1>1, <1>2, <1>5, <2>2, <3>1, RoundedOrdered
  <2> QED
    BY <1>1, <2>1, <2>2
<1> QED
  BY <1>1, <1>3, <1>4, <1>5

ContextOf(i, day, feed) ==
  [event |-> i, day |-> day, feed |-> feed,
   matches |-> Context(feed, Offers[i].source,
                       WithArtifacts(Offers[i].iocs, Offers[i].artifacts), Offers[i].own, day)]

Given == {ContextOf(i, day, feed) : i \in DOMAIN Offers, day \in Nat, feed \in workload.feeds}

LEMMA ContextsAge ==
  ASSUME workload \in Workloads, contexts \in Seq(Given)
  PROVE  ContextAges
<1> SUFFICES ASSUME NEW j \in DOMAIN contexts, NEW k \in DOMAIN contexts,
                    contexts[j].feed = contexts[k].feed, contexts[j].day <= contexts[k].day,
                    Offers[contexts[j].event].own = NoContext, Offers[contexts[k].event].own = NoContext,
                    NEW m \in contexts[j].matches, NEW n \in contexts[k].matches,
                    m.item = n.item, m.aging # NoContext
             PROVE  n.aging.score <= m.aging.score
  BY DEF ContextAges
<1> DEFINE feed == contexts[j].feed
           item == feed.items[m.item]
           aged(day) == Aging(item, feed, day)
<1>1. ASSUME NEW x \in DOMAIN contexts, Offers[contexts[x].event].own = NoContext,
             NEW y \in contexts[x].matches
      PROVE  /\ contexts[x].day \in Nat /\ contexts[x].feed \in workload.feeds
             /\ y.item \in 1..Len(contexts[x].feed.items)
             /\ y.aging = Aging(contexts[x].feed.items[y.item], contexts[x].feed, contexts[x].day)
  <2>1. PICK i \in DOMAIN Offers, day \in Nat, f \in workload.feeds : contexts[x] = ContextOf(i, day, f)
    <3>1. contexts[x] \in Given
      OBVIOUS
    <3> QED
      BY <3>1 DEF Given
  <2>2. /\ contexts[x].day = day /\ contexts[x].feed = f /\ contexts[x].event = i
        /\ contexts[x].matches = Matches(f, Offers[i].source,
             WithArtifacts(Offers[i].iocs, Offers[i].artifacts), day)
    BY <1>1, <2>1 DEF ContextOf, Context
  <2>3. PICK p \in (1..Len(Candidates(Offers[i].source,
                              WithArtifacts(Offers[i].iocs, Offers[i].artifacts)))) \X Index(f) :
          y = [item |-> p[2], aging |-> Aging(f.items[p[2]], f, day)]
    BY <1>1, <2>2 DEF Matches
  <2>4. p[2] \in 1..Len(f.items)
    BY <2>3 DEF Index, Items
  <2> QED
    BY <2>2, <2>3, <2>4
<1>2. /\ contexts[j].day \in Nat /\ contexts[k].day \in Nat /\ IsFeed(feed) /\ m.item \in 1..Len(feed.items)
      /\ m.aging = aged(contexts[j].day) /\ n.aging = aged(contexts[k].day)
  BY <1>1, WorkloadsAssumption
<1> DEFINE stamp == Reference(item, feed)
<1>3. stamp \in Int
  <2>1. stamp # NoContext
    BY <1>2 DEF Aging
  <2> QED
    BY <1>2, <2>1 DEF Reference, IsFeed
<1>4. ASSUME NEW day \in Nat
      PROVE  Age(stamp, day) \in Nat /\ (stamp # NoContext => aged(day).score = Freshness(Age(stamp, day)))
  <2>1. Age(stamp, day) \in Nat
    BY <1>3 DEF Age
  <2> QED
    BY <2>1 DEF Aging
<1>5. stamp # NoContext
  BY <1>2 DEF Aging
<1> HIDE DEF item, feed, stamp
<1>6. Age(stamp, contexts[j].day) <= Age(stamp, contexts[k].day)
  BY <1>2, <1>3 DEF Age
<1> HIDE DEF aged
<1> QED
  BY <1>2, <1>4, <1>5, <1>6, FreshnessFalls

-----------------------------------------------------------------------------
(* Scores. *)

(* The family that a score takes next. *)
Pick(s) == CHOOSE x \in s : TRUE

(* What a family leaves of what was left, and g what all of a set leave.     *)
Leaves(f, acc) == (acc * (100 - Weight[f])) \div 100

LeftOver(g, D) ==
  g = [s \in D |-> IF s = {} THEN Whole ELSE Leaves(Pick(s), g[s \ {Pick(s)}])]

LEMMA PickedOff ==
  ASSUME NEW S, IsFiniteSet(S), NEW s \in SUBSET S, s # {}
  PROVE  /\ Pick(s) \in s /\ s \ {Pick(s)} \in SUBSET S
         /\ Cardinality(s) \in Nat
         /\ Cardinality(s \ {Pick(s)}) = Cardinality(s) - 1
<1>1. Pick(s) \in s
  BY DEF Pick
<1>2. IsFiniteSet(s)
  BY FS_Subset
<1> QED
  BY <1>1, <1>2, FS_RemoveElement, FS_CardinalityType

LEMMA SmallestSubset ==
  ASSUME NEW S, IsFiniteSet(S), NEW Bad \in SUBSET (SUBSET S), Bad # {}
  PROVE  \E u \in Bad : \A w \in Bad : Cardinality(u) <= Cardinality(w)
<1> DEFINE sizes == {Cardinality(u) : u \in Bad}
<1>1. \A u \in Bad : Cardinality(u) \in Nat
  BY FS_Subset, FS_CardinalityType
<1>2. sizes \in SUBSET Nat /\ sizes # {}
  BY <1>1
<1> HIDE DEF sizes
<1>3. PICK n \in sizes : \A m \in sizes : n <= m
  BY <1>2, LeastNumber
<1> QED
  BY <1>3 DEF sizes

(* The fold of a score is well defined: from the sets of up to n families it *)
(* extends to those of n + 1.                                                *)
LEMMA LeftOverExists ==
  ASSUME NEW S, IsFiniteSet(S)
  PROVE  \E g : LeftOver(g, SUBSET S)
<1> DEFINE small(n) == {s \in SUBSET S : Cardinality(s) <= n}
           Bad == {n \in Nat : ~ \E g : LeftOver(g, small(n))}
<1>1. ASSUME NEW n \in Nat, NEW g, LeftOver(g, small(n))
      PROVE  \E h : LeftOver(h, small(n + 1))
  <2> DEFINE h == [s \in small(n + 1) |-> IF s = {} THEN Whole ELSE Leaves(Pick(s), g[s \ {Pick(s)}])]
  <2>1. ASSUME NEW s \in small(n) PROVE s \in small(n + 1) /\ h[s] = g[s]
    <3>1. Cardinality(s) \in Nat
      BY FS_Subset, FS_CardinalityType
    <3>2. s \in small(n + 1)
      BY <3>1
    <3>3. g[s] = IF s = {} THEN Whole ELSE Leaves(Pick(s), g[s \ {Pick(s)}])
      BY <1>1 DEF LeftOver
    <3> HIDE DEF small
    <3> QED
      BY <3>2, <3>3
  <2>2. ASSUME NEW s \in small(n + 1), s # {}
        PROVE  h[s \ {Pick(s)}] = g[s \ {Pick(s)}]
    <3>1. s \ {Pick(s)} \in SUBSET S /\ Cardinality(s \ {Pick(s)}) <= n
      BY <2>2, PickedOff
    <3>2. s \ {Pick(s)} \in small(n)
      BY <3>1
    <3> HIDE DEF h, small
    <3> QED
      BY <2>1, <3>2
  <2> HIDE DEF small
  <2>3. h = [s \in small(n + 1) |-> IF s = {} THEN Whole ELSE Leaves(Pick(s), h[s \ {Pick(s)}])]
    <3>1. \A s \in small(n + 1) :
            h[s] = IF s = {} THEN Whole ELSE Leaves(Pick(s), g[s \ {Pick(s)}])
      OBVIOUS
    <3>2. h = [s \in small(n + 1) |-> h[s]]
      OBVIOUS
    <3> HIDE DEF h
    <3> QED
      BY <2>2, <3>1, <3>2
  <2> QED
    BY <2>3 DEF LeftOver
<1>2. \E g : LeftOver(g, small(0))
  <2> DEFINE g == [s \in small(0) |-> Whole]
  <2>1. ASSUME NEW s \in small(0) PROVE s = {}
    <3>1. IsFiniteSet(s) /\ Cardinality(s) \in Nat /\ Cardinality(s) <= 0
      BY FS_Subset, FS_CardinalityType
    <3> QED
      BY <3>1, FS_EmptySet
  <2>2. LeftOver(g, small(0))
    BY <2>1 DEF LeftOver
  <2> QED
    BY <2>2
<1>3. Bad = {}
  <2> SUFFICES ASSUME Bad # {} PROVE FALSE
    OBVIOUS
  <2>1. PICK n \in Bad : \A m \in Bad : n <= m
    <3>1. Bad \in SUBSET Nat
      OBVIOUS
    <3> HIDE DEF Bad
    <3> QED
      BY <3>1, LeastNumber
  <2>2. n \in Nat /\ n # 0 /\ ~ \E g : LeftOver(g, small(n))
    BY <1>2
  <2>3. n - 1 \in Nat /\ n - 1 \notin Bad
    <3>1. n - 1 \in Nat /\ ~ (n <= n - 1)
      BY <2>2
    <3> HIDE DEF Bad
    <3> QED
      BY <2>1, <3>1
  <2>4. PICK g : LeftOver(g, small(n - 1))
    BY <2>3
  <2>5. (n - 1) + 1 = n
    BY <2>2
  <2> HIDE DEF small, Bad
  <2>6. \E h : LeftOver(h, small((n - 1) + 1))
    BY <1>1, <2>3, <2>4
  <2> QED
    BY <2>2, <2>5, <2>6
<1>4. Cardinality(S) \in Nat
  BY FS_CardinalityType
<1>5. SUBSET S = small(Cardinality(S))
  BY FS_Subset
<1> QED
  BY <1>3, <1>4, <1>5

LEMMA WholeIsNumber == Whole \in Nat
BY SMT DEF Whole

LEMMA LeavesAPart ==
  ASSUME NEW acc \in 0..Whole, NEW f \in DOMAIN Weight
  PROVE  Leaves(f, acc) \in 0..Whole
<1>1. PICK w \in 0..100 : w = 100 - Weight[f]
  BY WeightAssumption
<1>2. Whole \in Nat /\ acc \in Nat /\ acc <= Whole
  BY WholeIsNumber
<1>3. acc * w \in Nat /\ acc * w <= acc * 100
  BY <1>2
<1>4. PICK x \in Nat : x = acc * w /\ x <= 100 * Whole
  BY <1>2, <1>3
<1>5. x \div 100 \in 0..Whole
  BY <1>2, <1>4
<1> QED
  BY <1>1, <1>4, <1>5 DEF Leaves

(* A score stays within 1000, whatever two sessions share.                   *)
LEMMA ScoreBounded ==
  ASSUME NEW shared, \A x \in shared : x[1] \in DOMAIN Weight
  PROVE  Score(shared) \in 0..1000
<1> DEFINE S == {x[1] : x \in shared}
           g == CHOOSE g : LeftOver(g, SUBSET S)
<1>1. S \subseteq DOMAIN Weight /\ IsFiniteSet(S)
  <2>1. S \subseteq DOMAIN Weight
    OBVIOUS
  <2> QED
    BY <2>1, FS_Subset, WeightAssumption
<1>2. LeftOver(g, SUBSET S)
  BY <1>1, LeftOverExists
<1>3. Score(shared) = (Whole - g[S] + 500) \div 1000
  BY Zenon DEF Score, FoldSet, MapThenFoldSet, LeftOver, Leaves, Pick
<1> HIDE DEF g, S
<1> DEFINE Bad == {s \in SUBSET S : g[s] \notin 0..Whole}
<1>4. Bad = {}
  <2> SUFFICES ASSUME Bad # {} PROVE FALSE
    OBVIOUS
  <2>1. PICK u \in Bad : \A w \in Bad : Cardinality(u) <= Cardinality(w)
    <3>1. Bad \in SUBSET (SUBSET S)
      OBVIOUS
    <3> HIDE DEF Bad
    <3> QED
      BY <1>1, <3>1, SmallestSubset
  <2>2. u \in SUBSET S /\ g[u] = IF u = {} THEN Whole ELSE Leaves(Pick(u), g[u \ {Pick(u)}])
    BY <1>2 DEF LeftOver
  <2>3. u # {}
    BY <2>2, WholeIsNumber
  <2>4. /\ Pick(u) \in DOMAIN Weight /\ u \ {Pick(u)} \in SUBSET S
        /\ ~(Cardinality(u) <= Cardinality(u \ {Pick(u)}))
    <3>1. /\ Pick(u) \in u /\ u \ {Pick(u)} \in SUBSET S /\ Cardinality(u) \in Nat
          /\ Cardinality(u \ {Pick(u)}) = Cardinality(u) - 1
      BY <1>1, <2>2, <2>3, PickedOff, Zenon
    <3> QED
      BY <1>1, <2>2, <3>1
  <2>5. g[u \ {Pick(u)}] \in 0..Whole
    BY <2>1, <2>4
  <2>6. g[u] \in 0..Whole
    BY <2>2, <2>3, <2>4, <2>5, LeavesAPart
  <2> QED
    BY <2>6
<1>5. g[S] \in 0..Whole
  BY <1>4
<1>6. PICK rest \in Nat : rest = g[S] /\ rest <= Whole
  BY <1>5, WholeIsNumber
<1>7. (Whole - rest + 500) \div 1000 \in 0..1000
  BY <1>6, SMT DEF Whole
<1> QED
  BY <1>3, <1>6, <1>7, ZenonT(60)

(* Every overlap leads to another session, with a score that is one.         *)
LEMMA OverlapsAre ==
  ASSUME NEW events, NEW s, NEW minimum, NEW absent, NEW limit,
         NEW l \in Selected(Overlaps(events, s, minimum, absent), limit)
  PROVE  l.session # s /\ l.score \in 0..1000
<1> DEFINE own == {e \in events : e.session = s}
           candidates == NewestOf(Around(events \ own, Latest(own)), LinkEvents)
           of(t) == {e \in candidates : e.session = t}
           shared(t) == FeaturesOf(own, absent) \cap FeaturesOf(of(t), absent)
<1>1. l \in Overlaps(events, s, minimum, absent)
  BY DEF Selected
<1>2. \E t \in {e.session : e \in candidates} :
        l = [session |-> t, score |-> Score(shared(t)), basis |-> shared(t),
             last |-> Latest(of(t)).timestamp]
  BY <1>1, Zenon DEF Overlaps
<1>3. PICK t \in {e.session : e \in candidates} :
        l = [session |-> t, score |-> Score(shared(t)), basis |-> shared(t),
             last |-> Latest(of(t)).timestamp]
  BY <1>2
<1>4. l.session = t /\ l.score = Score(shared(t))
  BY <1>3
<1>5. candidates \subseteq events \ own
  BY DEF NewestOf, Around
<1>6. t # s
  BY <1>5
<1>7. \A x \in shared(t) : x[1] \in DOMAIN Weight
  <2>1. \A e : \A x \in Features(e) : x[1] \in DOMAIN Weight
    BY DEF Features
  <2> QED
    BY <2>1 DEF FeaturesOf
<1> HIDE DEF shared
<1> QED
  BY <1>4, <1>6, <1>7, ScoreBounded

-----------------------------------------------------------------------------
(* The invariant of Investigation.                                           *)

Typed ==
  /\ workload \in Workloads /\ now \in Nat
  /\ arrived \in Seq(DOMAIN Offers) /\ dropped \in 0..Len(arrived)
  /\ loaded \in workload.feeds
  /\ reading \in {0} \cup DOMAIN Offers

(* A table with a row for each of S.                                         *)
IsTable(f, S) == f = [s \in S |-> f[s]]

(* Links are stored as a request selected them, and so are those that wait.  *)
LinksOK ==
  /\ \A m \in made : \A l \in m.items : l.session # m.session /\ l.score \in 0..1000
  /\ IsTable(linking, Analysts)
  /\ \A a \in Analysts : linking[a].phase = "selected" =>
       \E m \in made : m.session = linking[a].session /\ m.items = linking[a].items
  /\ IsTable(links, Ids)
  /\ LinksOfOneAnalysis

InvestigationInv ==
  /\ Typed /\ ListingInv /\ AnalysesOK /\ LinksOK
  /\ contexts \in Seq(Given)

(* What is stored is finite, and was offered.                                *)
LEMMA StoredAre ==
  ASSUME Typed, NEW gone \in Nat, gone >= dropped
  PROVE  /\ StoredIds(arrived, gone) \subseteq StoredIds(arrived, dropped)
         /\ StoredIds(arrived, gone) \subseteq DOMAIN Offers
         /\ EventsOf(StoredIds(arrived, gone)) \subseteq Events
         /\ IsFiniteSet(EventsOf(StoredIds(arrived, gone)))
<1> DEFINE places == (gone + 1)..Len(arrived)
           stored == StoredIds(arrived, gone)
           events == EventsOf(stored)
<1>1. Len(arrived) \in Nat /\ dropped \in Nat /\ \A k \in 1..Len(arrived) : arrived[k] \in DOMAIN Offers
  BY DEF Typed
<1>2. \A k \in places : k \in (dropped + 1)..Len(arrived) /\ arrived[k] \in DOMAIN Offers
  BY <1>1
<1>3. stored \subseteq StoredIds(arrived, dropped) /\ stored \subseteq DOMAIN Offers
  BY <1>2 DEF StoredIds
<1>4. [k \in places |-> EventOf(arrived[k])] \in Surjection(places, events)
  BY DEF Surjection, EventsOf, StoredIds
<1>5. IsFiniteSet(places)
  <2>1. gone + 1 \in Int /\ Len(arrived) \in Int
    BY <1>1
  <2> QED
    BY <2>1, FS_Interval, Zenon
<1>6. IsFiniteSet(events)
  <2> HIDE DEF places, events
  <2> QED
    BY <1>4, <1>5, FS_Surjection, Zenon
<1> QED
  BY <1>3, <1>6 DEF Events, EventsOf

-----------------------------------------------------------------------------
(* Lists of Investigation are lists.                                         *)

LEMMA RowsOfStay ==
  ASSUME RowsOK(rows), NEW events
  PROVE  RowsOf(events) \in SUBSET Row /\ IsFiniteSet(RowsOf(events))
<1>1. RowsOf(events) \subseteq rows
  BY DEF RowsOf
<1> QED
  BY <1>1, FS_Subset DEF RowsOK

LEMMA RowsWithOne ==
  ASSUME RowsOK(rows), workload \in Workloads, NEW i \in DOMAIN Offers
  PROVE  RowsWith(EventOf(i)) \in SUBSET Row /\ IsFiniteSet(RowsWith(EventOf(i)))
<1> DEFINE e == EventOf(i)
           before == {r.at : r \in {q \in rows : q.id = e.session}}
           row == [at |-> e.timestamp, id |-> e.id]
           last == [at |-> IF \E t \in before : t > e.timestamp THEN CHOOSE t \in before : TRUE
                           ELSE e.timestamp,
                    id |-> e.session]
           others == {r \in rows : r.id # e.session}
<1>1. /\ e.id \in Ids /\ e.session \in Ids /\ e.timestamp \in Int
  BY EventsTyped
<1>2. before \subseteq Int /\ others \subseteq rows
  BY DEF RowsOK, Row
<1> HIDE DEF e
<1>3. row \in Row /\ last \in Row
  <2>1. (IF \E t \in before : t > e.timestamp THEN CHOOSE t \in before : TRUE ELSE e.timestamp) \in Int
    BY <1>1, <1>2
  <2> HIDE DEF before
  <2> QED
    BY <1>1, <2>1 DEF Row
<1>4. RowsWith(e) = rows \cup {row} \/ RowsWith(e) = others \cup {last}
  BY Zenon DEF RowsWith
<1> HIDE DEF row, last, others
<1>5. IsFiniteSet(others) /\ IsFiniteSet(rows)
  BY <1>2, FS_Subset DEF RowsOK
<1>6. IsFiniteSet(rows \cup {row}) /\ IsFiniteSet(others \cup {last})
  BY <1>5, FS_AddElement
<1> QED
  BY <1>2, <1>3, <1>4, <1>6 DEF e, RowsOK

(* What Investigation does to a list is what Listing lets happen to it.      *)
LEMMA StepOfList ==
  ASSUME Typed, RowsOK(rows), [Next]_vars
  PROVE  [ListingNext]_listingVars
<1>1. CASE \E i \in DOMAIN Offers : Ingest(i)
  <2>1. PICK i \in DOMAIN Offers : Change(RowsWith(EventOf(i)))
    BY <1>1 DEF Ingest
  <2>2. RowsWith(EventOf(i)) \in SUBSET Row /\ IsFiniteSet(RowsWith(EventOf(i)))
    BY RowsWithOne DEF Typed
  <2> QED
    BY <2>1, <2>2 DEF ListingNext
<1>2. CASE Drop
  <2>1. PICK events : Change(RowsOf(events))
    BY <1>2 DEF Drop
  <2> QED
    BY <2>1, RowsOfStay DEF ListingNext
<1>3. CASE OpenList
  <2>1. PICK cap \in Caps, since \in Int : Open(since, cap)
    <3>1. now - Hours \in Int /\ -Hours \in Int
      BY WorkloadsAssumption DEF Typed
    <3> QED
      BY <1>3, <3>1 DEF OpenList
  <2> QED
    BY <2>1 DEF ListingNext
<1>4. CASE NextPage
  BY <1>4 DEF NextPage, ListingNext
<1>5. CASE Tick \/ Reload
  BY <1>5 DEF Tick, Reload
<1>6. CASE ReadEvent \/ Analyse
  BY <1>6 DEF ReadEvent, Analyse
<1>7. CASE \E a \in Analysts : Persist(a) \/ \E s \in Ids : Correlate(a, s)
  BY <1>7 DEF Persist, Correlate
<1>8. CASE UNCHANGED vars
  BY <1>8 DEF vars
<1> QED
  BY <1>1, <1>2, <1>3, <1>4, <1>5, <1>6, <1>7, <1>8 DEF Next

-----------------------------------------------------------------------------
(* The steps.                                                                *)

LEMMA TypedKept ==
  ASSUME Typed, [Next]_vars
  PROVE  Typed' /\ workload' = workload
<1>0. /\ workload \in Workloads /\ now \in Nat /\ dropped \in 0..Len(arrived) /\ Len(arrived) \in Nat
      /\ arrived \in Seq(DOMAIN Offers)
      /\ workload' = workload => Offers' = Offers
  BY DEF Typed, Offers
<1>1. CASE \E i \in DOMAIN Offers : Ingest(i)
  <2>1. PICK i \in DOMAIN Offers : Ingest(i)
    BY <1>1
  <2>2. /\ arrived' = Append(arrived, i)
        /\ UNCHANGED <<workload, now, dropped, loaded, reading>>
    BY <2>1 DEF Ingest, analysisVars
  <2>3. arrived' \in Seq(DOMAIN Offers) /\ Len(arrived') = Len(arrived) + 1
    BY <1>0, <2>2
  <2> QED
    BY <1>0, <2>2, <2>3 DEF Typed
<1>2. CASE Drop
  <2>1. dropped' = dropped + 1 /\ dropped < Len(arrived) /\ UNCHANGED <<workload, now, arrived, loaded, reading>>
    BY <1>2 DEF Drop, analysisVars
  <2> QED
    BY <1>0, <2>1 DEF Typed
<1>3. CASE Tick
  BY <1>0, <1>3 DEF Tick, Typed, analysisVars
<1>4. CASE Reload
  BY <1>0, <1>4 DEF Reload, Typed, analysisVars
<1>5. CASE OpenList \/ NextPage
  BY <1>0, <1>5 DEF OpenList, NextPage, Typed, storeVars, analysisVars
<1>6. CASE ReadEvent
  <2>1. reading' \in StoredIds(arrived, dropped) /\ UNCHANGED <<workload, storeVars>>
    BY <1>6 DEF ReadEvent
  <2>2. reading' \in DOMAIN Offers
    BY <1>0, <2>1, StoredAre
  <2> QED
    BY <1>0, <2>1, <2>2 DEF Typed, storeVars
<1>7. CASE Analyse
  BY <1>0, <1>7 DEF Analyse, Typed, storeVars
<1>8. CASE \E a \in Analysts : Persist(a) \/ \E s \in Ids : Correlate(a, s)
  BY <1>0, <1>8 DEF Persist, Correlate, Typed, storeVars, analysisVars
<1>9. CASE UNCHANGED vars
  BY <1>0, <1>9 DEF vars, Typed, storeVars, analysisVars
<1> QED
  BY <1>1, <1>2, <1>3, <1>4, <1>5, <1>6, <1>7, <1>8, <1>9 DEF Next

LEMMA ContextsKept ==
  ASSUME Typed, contexts \in Seq(Given), [Next]_vars
  PROVE  contexts' \in Seq(Given)'
<1>1. workload' = workload
  BY TypedKept
<1>2. Given' = Given
  BY <1>1 DEF Given, ContextOf, Offers
<1>3. CASE \E i \in DOMAIN Offers : Ingest(i)
  <2>1. PICK i \in DOMAIN Offers : Ingest(i)
    BY <1>3
  <2>2. contexts' = contexts \/ contexts' = Append(contexts, ContextOf(i, now, loaded))
    BY <2>1 DEF Ingest, ContextOf
  <2>3. ContextOf(i, now, loaded) \in Given
    BY DEF Given, Typed
  <2> QED
    BY <1>2, <2>2, <2>3
<1>4. CASE ~ \E i \in DOMAIN Offers : Ingest(i)
  <2>1. contexts' = contexts
    BY <1>4 DEF Next, vars, storeVars, Drop, Tick, Reload, OpenList, NextPage, ReadEvent, Analyse,
       Persist, Correlate
  <2> QED
    BY <1>2, <2>1
<1> QED
  BY <1>3, <1>4

LEMMA AnalysesKept ==
  ASSUME Typed, AnalysesOK, [Next]_vars
  PROVE  AnalysesOK'
<1>1. Offers' = Offers /\ Events' = Events
  BY TypedKept DEF Offers, Events, EventOf
<1>2. \A e, stored : FoundIn(e, stored)' = FoundIn(e, stored)
  BY DEF FoundIn, History
<1>3. \A i : EventOf(i)' = EventOf(i)
  BY <1>1 DEF EventOf
<1>4. CASE Analyse
  <2> DEFINE e == EventOf(reading)
             a == [event |-> e, stored |-> Stored,
                   ready |-> Ready(NewestOf(History(e, Stored), AnalysisLimit), e,
                                   Cardinality(History(e, Stored)) > AnalysisLimit),
                   findings |-> FoundIn(e, Stored)]
  <2>1. analyses' = analyses \cup {a} /\ reading \in DOMAIN Offers
    BY <1>4 DEF Analyse, FoundIn, Typed
  <2>2. Stored \subseteq Events /\ IsFiniteSet(Stored)
    <3>1. dropped \in Nat /\ dropped >= dropped
      BY DEF Typed
    <3> QED
      BY <3>1, StoredAre DEF Stored
  <2>3. /\ a.event = e /\ a.stored = Stored /\ a.findings = FoundIn(e, Stored)
    OBVIOUS
  <2> HIDE DEF a
  <2>4. \A b \in analyses' : b \in analyses \/ b = a
    BY <2>1
  <2> QED
    BY <1>1, <1>2, <1>3, <2>1, <2>2, <2>3, <2>4 DEF AnalysesOK
<1>5. CASE ~Analyse
  <2>1. analyses' = analyses
    BY <1>5 DEF Next, vars, analysisVars, Ingest, Drop, Tick, Reload, OpenList, NextPage, ReadEvent,
       Persist, Correlate
  <2> QED
    BY <1>1, <1>2, <1>3, <2>1 DEF AnalysesOK
<1> QED
  BY <1>4, <1>5

LEMMA Overwritten ==
  ASSUME NEW S, NEW f, IsTable(f, S), NEW x, NEW v
  PROVE  /\ IsTable([f EXCEPT ![x] = v], S)
         /\ \A s \in S : [f EXCEPT ![x] = v][s] = IF s = x THEN v ELSE f[s]
<1>1. DOMAIN f = S
  BY Zenon DEF IsTable
<1>2. [f EXCEPT ![x] = v] = [s \in S |-> IF s = x THEN v ELSE f[s]]
  BY <1>1
<1> QED
  BY <1>2 DEF IsTable

LEMMA LinkingMoves ==
  ASSUME LinksOK, NEW a, NEW v, linking' = [linking EXCEPT ![a] = v]
  PROVE  /\ IsTable(linking', Analysts)
         /\ \A b \in Analysts : linking'[b] = IF b = a THEN v ELSE linking[b]
<1>1. IsTable(linking, Analysts)
  BY DEF LinksOK
<1>2. IsTable([linking EXCEPT ![a] = v], Analysts)
  BY <1>1, Overwritten
<1>3. \A b \in Analysts : [linking EXCEPT ![a] = v][b] = IF b = a THEN v ELSE linking[b]
  BY <1>1, SMT DEF IsTable
<1> QED
  BY <1>2, <1>3

LEMMA LinksKept ==
  ASSUME LinksOK, [Next]_vars
  PROVE  LinksOK'
<1>1. CASE \E a \in Analysts : \E s \in Ids : Correlate(a, s)
  <2>1. PICK a \in Analysts, s \in Ids : Correlate(a, s)
    BY <1>1
  <2>2. PICK c \in LinkChoices :
          LET items == Selected(Overlaps(Stored, s, c.minimum, Absent), c.limit)
          IN /\ linking' = [linking EXCEPT ![a] = [phase |-> "selected", session |-> s, items |-> items]]
             /\ made' = made \cup {[session |-> s, items |-> items]}
    BY <2>1 DEF Correlate
  <2> DEFINE items == Selected(Overlaps(Stored, s, c.minimum, Absent), c.limit)
  <2>3. \A l \in items : l.session # s /\ l.score \in 0..1000
    BY OverlapsAre
  <2>4. links' = links
    BY <2>1 DEF Correlate
  <2> HIDE DEF items
  <2> DEFINE m == [session |-> s, items |-> items]
             l == [phase |-> "selected", session |-> s, items |-> items]
  <2>5. /\ m.session = s /\ m.items = items /\ l.session = s /\ l.items = items
    OBVIOUS
  <2>6. linking' = [linking EXCEPT ![a] = l] /\ made' = made \cup {m}
    BY <2>2 DEF items
  <2> HIDE DEF m, l
  <2>7. IsTable(linking', Analysts) /\ \A b \in Analysts : linking'[b] = IF b = a THEN l ELSE linking[b]
    BY <2>6, LinkingMoves
  <2>8. \A n \in made' : \A k \in n.items : k.session # n.session /\ k.score \in 0..1000
    BY <2>3, <2>5, <2>6 DEF LinksOK
  <2>9. LinksOfOneAnalysis'
    BY <2>4, <2>6 DEF LinksOK, LinksOfOneAnalysis
  <2>10. \A b \in Analysts : linking'[b].phase = "selected" =>
           \E n \in made' : n.session = linking'[b].session /\ n.items = linking'[b].items
    <3>1. m \in made' /\ \A n \in made : n \in made'
      BY <2>6
    <3>2. linking'[a].session = m.session /\ linking'[a].items = m.items
      BY <2>5, <2>7
    <3> QED
      BY <2>7, <3>1, <3>2 DEF LinksOK
  <2> QED
    BY <2>4, <2>7, <2>8, <2>9, <2>10 DEF LinksOK
<1>2. CASE \E a \in Analysts : Persist(a)
  <2>1. PICK a \in Analysts : Persist(a)
    BY <1>2
  <2> DEFINE idle == [phase |-> "idle"]
  <2>2. /\ linking[a].phase = "selected" /\ made' = made
        /\ links' = [links EXCEPT ![linking[a].session] = linking[a].items]
        /\ linking' = [linking EXCEPT ![a] = idle]
    BY <2>1 DEF Persist
  <2>3. idle.phase # "selected"
    OBVIOUS
  <2> HIDE DEF idle
  <2>4. PICK m \in made : m.session = linking[a].session /\ m.items = linking[a].items
    BY <2>2 DEF LinksOK
  <2>5. LinksOfOneAnalysis'
    <3> SUFFICES ASSUME NEW s \in Ids
                 PROVE  /\ links'[s] # {} => \E n \in made : n.session = s /\ n.items = links'[s]
                        /\ \A l \in links'[s] : l.session # s /\ l.score \in 0..1000
      BY <2>2 DEF LinksOfOneAnalysis
    <3>1. CASE s = linking[a].session
      <4>1. links'[s] = m.items /\ m.session = s
        BY <2>2, <2>4, <3>1 DEF LinksOK, IsTable
      <4> QED
        BY <4>1 DEF LinksOK
    <3>2. CASE s # linking[a].session
      <4>1. links'[s] = links[s]
        BY <2>2, <3>2 DEF LinksOK, IsTable
      <4> QED
        BY <4>1 DEF LinksOK, LinksOfOneAnalysis
    <3> QED
      BY <3>1, <3>2
  <2>6. /\ IsTable(linking', Analysts) /\ IsTable(links', Ids)
        /\ \A b \in Analysts : linking'[b] = IF b = a THEN idle ELSE linking[b]
    <3>1. /\ IsTable(linking', Analysts)
          /\ \A b \in Analysts : linking'[b] = IF b = a THEN idle ELSE linking[b]
      BY <2>2, LinkingMoves, ZenonT(60)
    <3>2. IsTable([links EXCEPT ![linking[a].session] = linking[a].items], Ids)
      BY Overwritten DEF LinksOK
    <3> QED
      BY <2>2, <3>1, <3>2
  <2>7. \A b \in Analysts : linking'[b].phase = "selected" => linking'[b] = linking[b]
    BY <2>3, <2>6
  <2>8. \A n \in made' : \A k \in n.items : k.session # n.session /\ k.score \in 0..1000
    BY <2>2 DEF LinksOK
  <2>9. \A b \in Analysts : linking'[b].phase = "selected" =>
          \E n \in made' : n.session = linking'[b].session /\ n.items = linking'[b].items
    BY <2>2, <2>7 DEF LinksOK
  <2> QED
    BY <2>5, <2>6, <2>8, <2>9 DEF LinksOK
<1>3. CASE UNCHANGED linkVars
  <2>1. linking' = linking /\ links' = links /\ made' = made
    BY <1>3 DEF linkVars
  <2>2. LinksOfOneAnalysis'
    BY <2>1 DEF LinksOK, LinksOfOneAnalysis
  <2>3. /\ \A m \in made' : \A l \in m.items : l.session # m.session /\ l.score \in 0..1000
        /\ \A a \in Analysts : linking'[a].phase = "selected" =>
             \E m \in made' : m.session = linking'[a].session /\ m.items = linking'[a].items
    BY <2>1 DEF LinksOK
  <2>4. IsTable(linking', Analysts) /\ IsTable(links', Ids)
    BY <2>1 DEF LinksOK
  <2> QED
    BY <2>2, <2>3, <2>4 DEF LinksOK
<1>4. \/ UNCHANGED linkVars
      \/ \E a \in Analysts : Persist(a) \/ \E s \in Ids : Correlate(a, s)
  BY DEF Next, vars, Ingest, Drop, Tick, Reload, OpenList, NextPage, ReadEvent, Analyse
<1> QED
  BY <1>1, <1>2, <1>3, <1>4

LEMMA InvestigationInit ==
  ASSUME Init
  PROVE  InvestigationInv
<1>1. Typed
  BY DEF Init, Typed, Offers
<1>2. ListingInv
  BY FS_EmptySet DEF Init, ListingInit, ListingInv, ListingOK, RowsOK, Passed
<1>3. AnalysesOK /\ contexts \in Seq(Given)
  BY DEF Init, AnalysesOK
<1>4. LinksOK
  BY DEF Init, LinksOK, IsTable, LinksOfOneAnalysis
<1> QED
  BY <1>1, <1>2, <1>3, <1>4 DEF InvestigationInv

LEMMA InvestigationStep ==
  ASSUME InvestigationInv, [Next]_vars
  PROVE  InvestigationInv'
<1>1. Typed /\ ListingInv /\ AnalysesOK /\ LinksOK /\ contexts \in Seq(Given) /\ RowsOK(rows)
  BY DEF InvestigationInv, ListingInv
<1>2. Typed' /\ AnalysesOK' /\ LinksOK'
  BY <1>1, TypedKept, AnalysesKept, LinksKept
<1>3. contexts' \in Seq(Given)'
  BY <1>1, ContextsKept
<1>4. ListingInv'
  BY <1>1, StepOfList, ListingSafe
<1> QED
  BY <1>2, <1>3, <1>4 DEF InvestigationInv

(***************************************************************************)
(* The invariant behind the properties of Investigation holds.             *)
(***************************************************************************)
THEOREM InvestigationInvHolds == Spec => []InvestigationInv
<1> QED
  BY InvestigationInit, InvestigationStep, PTL DEF Spec

(***************************************************************************)
(* Reading a list while events arrive late, are dropped and move sessions  *)
(* is reading a list whose rows come, go and move at will.                 *)
(***************************************************************************)
THEOREM ListsAreListings == Spec => ListingSpec
<1>1. Init => ListingInit
  BY DEF Init
<1>2. InvestigationInv /\ [Next]_vars => [ListingNext]_listingVars
  BY StepOfList DEF InvestigationInv, ListingInv
<1> QED
  BY <1>1, <1>2, InvestigationInvHolds, PTL DEF Spec, ListingSpec

(* A reader of the API's lists misses no event and no session that stayed, *)
(* and meets none twice, whatever happens between two of its requests.     *)
THEOREM PagesStayExact == Spec => []PagesExact
<1> QED
  BY ListsAreListings, ListIsExact, PTL

(***************************************************************************)
(* A stored event is within the limits, it says that it is lossy exactly   *)
(* when something was cut from it, however deep its values are nested, and *)
(* a secret the sensor cut does not count as complete.                     *)
(***************************************************************************)
THEOREM LossesAreDisclosed == Spec => []LossDisclosed
<1>1. InvestigationInv => LossDisclosed
  <2> SUFFICES ASSUME InvestigationInv, NEW i \in StoredIds(arrived, dropped)
               PROVE  LET sent == Offers[i].sent
                          kept == Normalized(sent)
                      IN /\ kept.lossy <=> kept.parts # sent.parts
                         /\ \A p \in DOMAIN kept.parts : Lost(kept.parts[p]) = {}
                         /\ (/\ sent.notice.given
                             /\ sent.notice.captured = sent.secret
                             /\ sent.notice.original > sent.secret) => ~kept.credential.complete
    BY DEF LossDisclosed
  <2> DEFINE sent == Offers[i].sent
             parts == sent.parts
             kept == Normalized(sent)
  <2>1. IsOffer(Offers[i])
    <3>1. Typed /\ dropped \in Nat /\ dropped >= dropped
      BY DEF InvestigationInv, Typed
    <3>2. i \in DOMAIN Offers /\ workload \in Workloads
      BY <3>1, StoredAre DEF Typed
    <3> QED
      BY <3>2, EventsTyped
  <2>2. /\ parts = [p \in DOMAIN parts |-> parts[p]] /\ \A p \in DOMAIN parts : IsTree(parts[p])
        /\ sent.secret \in Nat
        /\ sent.notice.given => (sent.notice.original \in Nat /\ sent.notice.captured \in Nat)
    BY <2>1 DEF IsOffer
  <2>3. /\ kept.parts = [p \in DOMAIN parts |-> Bounded(parts[p])]
        /\ kept.lossy <=> \E p \in DOMAIN parts : Lost(parts[p]) # {}
        /\ kept.credential = Redacted(sent.secret, sent.notice)
    BY DEF Normalized
  <2> HIDE DEF sent, kept
  <2>4. kept.lossy <=> kept.parts # parts
    BY <2>2, <2>3, LossShows
  <2>5. \A p \in DOMAIN kept.parts : Lost(kept.parts[p]) = {}
    BY <2>2, <2>3, KeptIsWithin
  <2>6. (sent.notice.given /\ sent.notice.captured = sent.secret /\ sent.notice.original > sent.secret)
          => ~kept.credential.complete
    <3>1. ASSUME NEW secret \in Nat, NEW notice, notice.given, notice.captured = secret,
                 notice.original \in Nat, notice.original > secret
          PROVE  ~Redacted(secret, notice).complete
      <4>1. Noticed(secret, notice)
        BY <3>1 DEF Noticed
      <4> QED
        BY <4>1 DEF Redacted
    <3> QED
      BY <2>2, <2>3, <3>1
  <2> QED
    BY <2>4, <2>5, <2>6 DEF sent, kept
<1> QED
  BY <1>1, InvestigationInvHolds, PTL

(***************************************************************************)
(* What an analysis reports is true of everything that was stored.         *)
(***************************************************************************)
THEOREM FindingsAreGrounded == Spec => []FindingsGrounded
<1>1. InvestigationInv => FindingsGrounded
  BY AnalysesGrounded DEF InvestigationInv, Typed
<1> QED
  BY <1>1, InvestigationInvHolds, PTL

(***************************************************************************)
(* An event that is analysed again is measured against the same past.      *)
(***************************************************************************)
THEOREM AnalysesAreRepeatable == Spec => []AnalysisRepeatable
<1>1. InvestigationInv => AnalysisRepeatable
  BY AnalysesRepeat DEF InvestigationInv, Typed
<1> QED
  BY <1>1, InvestigationInvHolds, PTL

(***************************************************************************)
(* The links of a session are those of one analysis, lead elsewhere, and   *)
(* have a score within 1000, whatever two sessions share.                  *)
(***************************************************************************)
THEOREM LinksAreOfOneAnalysis == Spec => []LinksOfOneAnalysis
<1>1. InvestigationInv => LinksOfOneAnalysis
  BY DEF InvestigationInv, LinksOK
<1> QED
  BY <1>1, InvestigationInvHolds, PTL

(***************************************************************************)
(* An indicator never looks fresher in an event that was stored later from *)
(* the same feed, whatever the limits of its ageing are.                   *)
(***************************************************************************)
THEOREM ContextOnlyAges == Spec => []ContextAges
<1>1. InvestigationInv => ContextAges
  BY ContextsAge DEF InvestigationInv, Typed
<1> QED
  BY <1>1, InvestigationInvHolds, PTL
=============================================================================
