------------------------------- MODULE Listing -------------------------------
(***************************************************************************)
(* Reading a list page by page (store.py, pagination.py).  The rows are    *)
(* ordered by a stamp and their id, newest first; a cursor names the last  *)
(* row of a page as it was then, and the next page starts after it, while  *)
(* rows come, go and change their stamps in between.  A cursor belongs to  *)
(* the filter it was issued for, so one listing has one set of rows.       *)
(***************************************************************************)
EXTENDS Integers, FiniteSets

CONSTANTS
  Ids,         \* ids of rows
  PageLimit,   \* rows on a page
  Caps         \* how many rows a reader may ask for in all

ASSUME ListingAssumption == Ids \subseteq Int /\ PageLimit \in Nat \ {0} /\ Caps \subseteq Nat

VARIABLES
  rows,      \* rows that match the filter, each [at, id]
  listing,   \* the reader: phase, start of its period, its cursor, what it may still take
  seen,      \* rows it was given
  repeated,  \* history: rows it was given twice
  steady     \* history: rows there since the reader began, unchanged

listingVars == <<rows, listing, seen, repeated, steady>>

Row == [at : Int, id : Ids]

ListingInit ==
  /\ rows = {}
  /\ listing = [phase |-> "idle"]
  /\ seen = {} /\ repeated = {} /\ steady = {}

Precedes(a, b) == a.at > b.at \/ (a.at = b.at /\ a.id > b.id)

(* The first n of a set of rows.                                             *)
Page(s, n) == {r \in s : Cardinality({o \in s : Precedes(o, r)}) < n}

IsLast(r, page) == \A o \in page : o = r \/ Precedes(o, r)

InPeriod(since) == {r \in rows : r.at >= since}

Take(left) == IF left < PageLimit THEN left ELSE PageLimit

(* The page is returned; a cursor comes with it if there are more rows.  The *)
(* reader goes on while it has one and wants more.                           *)
Return(eligible, since, left) ==
  LET page == Page(eligible, Take(left))
      remaining == left - Cardinality(page)
  IN /\ seen' = seen \cup page
     /\ repeated' = repeated \cup (page \cap seen)
     /\ \/ /\ page = eligible
           /\ listing' = [phase |-> "done", since |-> since, all |-> TRUE]
        \/ \E last \in page :
             /\ page # eligible
             /\ IsLast(last, page)
             /\ listing' = [phase |-> IF remaining > 0 THEN "paging" ELSE "capped",
                            since |-> since, cursor |-> last, left |-> remaining]
     /\ UNCHANGED rows

Open(since, cap) ==
  /\ listing.phase = "idle"
  /\ cap > 0
  /\ Return(InPeriod(since), since, cap)
  /\ steady' = InPeriod(since)

(* Variants with a suffix hold a plausible defect each; no definition uses them. *)
After_ByStamp(cursor, s) == {r \in s : r.at < cursor.at}   \* rows with the cursor's stamp are passed over

After(cursor, s) == {r \in s : Precedes(cursor, r)}

More ==
  /\ listing.phase = "paging"
  /\ Return(After(listing.cursor, InPeriod(listing.since)), listing.since, listing.left)
  /\ UNCHANGED steady

(* What happens to the rows meanwhile.                                       *)
Change(new) ==
  /\ rows' = new
  /\ steady' = steady \cap new
  /\ UNCHANGED <<listing, seen, repeated>>

ListingNext ==
  \/ \E since \in Int, cap \in Caps : Open(since, cap)
  \/ More
  \/ \E new \in SUBSET Row : IsFiniteSet(new) /\ Change(new)

ListingSpec == ListingInit /\ [][ListingNext]_listingVars

-----------------------------------------------------------------------------
(* How far the reader has come: everything, up to its cursor, or nothing.    *)
Passed(r) ==
  \/ listing.phase = "done"
  \/ listing.phase \in {"paging", "capped"} /\ ~Precedes(listing.cursor, r)

(* Whatever comes, goes or moves while a reader turns pages, it is given     *)
(* every row that stayed where it was, up to its cursor, and no row twice    *)
(* (page_events, page_sessions; src/docs/INVESTIGATION.md:58).               *)
PagesExact ==
  /\ \A r \in steady : Passed(r) => r \in seen
  /\ repeated = {}
=============================================================================
