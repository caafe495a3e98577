--------------------------- MODULE SensorRequests ---------------------------
(***************************************************************************)
(* Requests of sensors and operators on their way through the collector    *)
(* (app.py): authorisation, the reservation of a signed request's nonce,   *)
(* the rate limit, then the handler.  Threads of several processes share   *)
(* the database and the quarantine directory; a limiter belongs to one     *)
(* process.  Both the nonce table and the limiter read the clock before    *)
(* they take their lock, so they may act on a time that has passed.        *)
(***************************************************************************)
EXTENDS Threads, Naturals, Sequences, FiniteSets

CONSTANTS
  Requests,       \* requests that may arrive, each any number of times
  SensorSecrets,  \* SensorSecrets[s]: secrets of sensor s, the one being rotated out too
  SensorSources,  \* SensorSources[s]: addresses sensor s is bound to
  OperatorNames,  \* OperatorNames[k]: operators whose configured key is k
  Skew,           \* AEGIS_SENSOR_SIGNATURE_MAX_SKEW, also the nonces' window
  NonceCapacity,  \* AEGIS_SENSOR_REPLAY_MAX_NONCES_PER_SENSOR
  RateLimit, RateWindow, MaxKeys,  \* of SlidingWindowLimiter
  MaxArtifacts,   \* AEGIS_QUARANTINE_MAX_FILES
  MaxArrivals, MaxClock, MaxStops, \* bounds: requests received, clock, crashes
  Nobody

ASSUME RequestAssumption ==
  /\ {Skew, NonceCapacity, RateLimit, RateWindow, MaxKeys} \subseteq Nat \ {0}
  /\ {MaxArtifacts, MaxArrivals, MaxClock, MaxStops} \subseteq Nat
  /\ Nobody \notin Workers
  /\ DOMAIN Home = Workers

VARIABLES
  clock,
  serving,     \* serving[w]: the request of w, how far it is, the time it read
  nonces,      \* sensor_replay_nonces
  buckets,     \* buckets[p][k]: stamps of key k in the limiter of process p
  artifacts,   \* files of the quarantine, each with the arrival that brought it
  flock,       \* worker that holds the quarantine's lock
  arrivals, stops,
  accepted,    \* history: reservations, with the time read and the time of the commit
  admitted     \* history: admitted[p][k]: admissions, with the same two times

requestVars == <<clock, serving, nonces, buckets, artifacts, flock, arrivals, stops,
                 accepted, admitted>>

Keys == {r.key : r \in Requests}

Nothing == [phase |-> "idle"]
At(phase, r, n) == [phase |-> phase, request |-> r, read |-> clock, arrival |-> n]

RequestInit ==
  /\ clock = 0
  /\ serving = [w \in Workers |-> Nothing]
  /\ nonces = {}
  /\ buckets = [p \in Processes |-> [k \in {} |-> <<>>]]
  /\ artifacts = {} /\ flock = Nobody
  /\ arrivals = 0 /\ stops = 0
  /\ accepted = {}
  /\ admitted = [p \in Processes |-> [k \in Keys |-> <<>>]]

-----------------------------------------------------------------------------
(* A request of a sensor that is bound to addresses comes from one of them.  *)
SourceAllowed(r) == r.sensor \in DOMAIN SensorSources => r.from \in SensorSources[r.sensor]

FromSensorNetwork(r) == \E s \in DOMAIN SensorSources : r.from \in SensorSources[s]

(* verify_signed_payload: signed at most Skew from now, either way, over the *)
(* nonce and the body.                                                       *)
SignatureValid(r) ==
  r.intact /\ clock <= r.signed + Skew /\ r.signed <= clock + Skew

SensorAuthorized(r) ==
  /\ SourceAllowed(r)
  /\ r.secret \in SensorSecrets[r.sensor]
  /\ SignatureValid(r)

(* Operators present a key from outside the sensors' networks.               *)
OperatorAuthorized(r) ==
  /\ ~FromSensorNetwork(r)
  /\ r.secret \in DOMAIN OperatorNames

(* A request is authorised and the time of its next step read; one that is   *)
(* not is answered 401 or 403 and changes nothing.  An operator's request    *)
(* carries no nonce and goes on to the limiter (protect_trust_boundaries).   *)
Arrive(w, r) ==
  /\ serving[w].phase = "idle"
  /\ arrivals < MaxArrivals
  /\ arrivals' = arrivals + 1
  /\ \/ /\ r.kind = "operator" /\ OperatorAuthorized(r)
        /\ serving' = [serving EXCEPT ![w] = At("limiting", r, arrivals + 1)]
     \/ /\ r.kind # "operator" /\ SensorAuthorized(r)
        /\ serving' = [serving EXCEPT ![w] = At("reserving", r, arrivals + 1)]
  /\ UNCHANGED <<clock, nonces, buckets, artifacts, flock, stops, accepted, admitted>>

Live(time) == {n \in nonces : n.expires > time}

Nonce(w) == [sensor |-> serving[w].request.sensor, nonce |-> serving[w].request.nonce,
             expires |-> serving[w].read + Skew]

Reserved(rows, n) == \E m \in rows : m.sensor = n.sensor /\ m.nonce = n.nonce
OfSensor(rows, s) == {m \in rows : m.sensor = s}

HasRoom(rows, s) == Cardinality(OfSensor(rows, s)) < NonceCapacity

(* Variants with a suffix hold a plausible defect each; no definition uses them. *)
Reserve_DropsOldest(w) ==    \* a full table forgets what expires first instead of refusing
  /\ serving[w].phase = "reserving"
  /\ LET live == Live(serving[w].read)
         n == Nonce(w)
         kept == IF HasRoom(live, n.sensor) THEN live
                 ELSE live \ {CHOOSE m \in OfSensor(live, n.sensor) :
                                \A o \in OfSensor(live, n.sensor) : m.expires <= o.expires}
     IN IF ~Reserved(kept, n)
          THEN /\ nonces' = kept \cup {n}
               /\ accepted' = accepted \cup
                    {[sensor |-> n.sensor, nonce |-> n.nonce, read |-> serving[w].read, at |-> clock,
                      arrival |-> serving[w].arrival]}
               /\ serving' = [serving EXCEPT ![w] = At("limiting", @.request, @.arrival)]
          ELSE /\ nonces' = live
               /\ serving' = [serving EXCEPT ![w] = Nothing]
               /\ UNCHANGED accepted
  /\ UNCHANGED <<clock, buckets, artifacts, flock, arrivals, stops, admitted>>

(* reserve_sensor_nonce, one transaction: what has expired by the time read  *)
(* is deleted; a full table and a nonce that is there answer 409.            *)
Reserve(w) ==
  /\ serving[w].phase = "reserving"
  /\ LET live == Live(serving[w].read)
         n == Nonce(w)
     IN IF HasRoom(live, n.sensor) /\ ~Reserved(live, n)
          THEN /\ nonces' = live \cup {n}
               /\ accepted' = accepted \cup
                    {[sensor |-> n.sensor, nonce |-> n.nonce, read |-> serving[w].read, at |-> clock,
                      arrival |-> serving[w].arrival]}
               /\ serving' = [serving EXCEPT ![w] = At("limiting", @.request, @.arrival)]
          ELSE /\ nonces' = live
               /\ serving' = [serving EXCEPT ![w] = Nothing]
               /\ UNCHANGED accepted
  /\ UNCHANGED <<clock, buckets, artifacts, flock, arrivals, stops, admitted>>

-----------------------------------------------------------------------------
(* _prune_bucket drops stamps from the front while they are out of the       *)
(* window; a stamp that came late may hide behind a newer one.               *)
PruneBucket(b, time) ==
  LET out == {i \in 0..Len(b) : \A j \in 1..i : b[j] + RateWindow <= time}
  IN SubSeq(b, 1 + (CHOOSE i \in out : \A j \in out : j <= i), Len(b))

(* The limiter of a process after the clean-up that a call for key k makes:  *)
(* empty buckets are forgotten, of other keys only when a clean-up is due    *)
(* (at any time) or the number of keys is at its limit.                      *)
Cleaned(b, k, time) ==
  LET pruned == [j \in DOMAIN b |-> PruneBucket(b[j], time)]
      filled == {j \in DOMAIN b : pruned[j] # <<>>}
      own == [j \in (DOMAIN b \ {k}) \cup (filled \cap {k}) |-> IF j = k THEN pruned[j] ELSE b[j]]
  IN IF k \notin filled /\ Cardinality(DOMAIN own) >= MaxKeys
       THEN {[j \in filled |-> pruned[j]]}
       ELSE {own, [j \in filled |-> pruned[j]]}

BucketOf(b, k) == IF k \in DOMAIN b THEN b[k] ELSE <<>>

Allow_NewBucket(w) ==        \* a call that finds no room for its key clears the limiter
  /\ serving[w].phase = "limiting"
  /\ LET p == Home[w]
         k == serving[w].request.key
         time == serving[w].read
     IN \E b \in {IF k \notin DOMAIN c /\ Cardinality(DOMAIN c) >= MaxKeys
                    THEN [j \in {} |-> <<>>] ELSE c : c \in Cleaned(buckets[p], k, time)} :
          IF Len(BucketOf(b, k)) < RateLimit
            THEN /\ buckets' = [buckets EXCEPT ![p] =
                      [j \in DOMAIN b \cup {k} |-> IF j = k THEN Append(BucketOf(b, k), time) ELSE b[j]]]
                 /\ admitted' = [admitted EXCEPT ![p][k] = Append(@, [read |-> time, at |-> clock])]
                 /\ serving' = [serving EXCEPT ![w] = At("handling", @.request, @.arrival)]
            ELSE /\ buckets' = [buckets EXCEPT ![p] = b]
                 /\ serving' = [serving EXCEPT ![w] = Nothing]
                 /\ UNCHANGED admitted
  /\ UNCHANGED <<clock, nonces, artifacts, flock, arrivals, stops, accepted>>

(* allow, under the limiter's lock: 429 when the key has used its limit, or  *)
(* is new and the limiter holds MaxKeys keys that are all in use.            *)
Allow(w) ==
  /\ serving[w].phase = "limiting"
  /\ LET p == Home[w]
         k == serving[w].request.key
         time == serving[w].read
     IN \E b \in Cleaned(buckets[p], k, time) :
          IF /\ k \in DOMAIN b \/ Cardinality(DOMAIN b) < MaxKeys
             /\ Len(BucketOf(b, k)) < RateLimit
            THEN /\ buckets' = [buckets EXCEPT ![p] =
                      [j \in DOMAIN b \cup {k} |-> IF j = k THEN Append(BucketOf(b, k), time) ELSE b[j]]]
                 /\ admitted' = [admitted EXCEPT ![p][k] = Append(@, [read |-> time, at |-> clock])]
                 /\ serving' = [serving EXCEPT ![w] = At("handling", @.request, @.arrival)]
            ELSE /\ buckets' = [buckets EXCEPT ![p] = b]
                 /\ serving' = [serving EXCEPT ![w] = Nothing]
                 /\ UNCHANGED admitted
  /\ UNCHANGED <<clock, nonces, artifacts, flock, arrivals, stops, accepted>>

-----------------------------------------------------------------------------
(* The other handlers: heartbeats, events, operator routes.  Whether they    *)
(* accept the body (202, 201) or refuse it (409, 422, 500), the nonce and    *)
(* the admission stay used.                                                  *)
Answer(w) ==
  /\ serving[w].phase = "handling"
  /\ serving[w].request.kind # "artifact"
  /\ serving' = [serving EXCEPT ![w] = Nothing]
  /\ UNCHANGED <<clock, nonces, buckets, artifacts, flock, arrivals, stops, accepted, admitted>>

(* QuarantineStore.store: the lock of the directory, held over processes,    *)
(* spans the count and the move into place.                                  *)
Lock(w) ==
  /\ serving[w].phase = "handling"
  /\ serving[w].request.kind = "artifact"
  /\ flock = Nobody
  /\ flock' = w
  /\ serving' = [serving EXCEPT ![w].phase = "locked"]
  /\ UNCHANGED <<clock, nonces, buckets, artifacts, arrivals, stops, accepted, admitted>>

CountFiles_Unlocked(w) ==    \* the count is taken, and the lock released again
  /\ serving[w].phase = "locked"
  /\ flock' = Nobody
  /\ serving' = IF Cardinality(artifacts) < MaxArtifacts
                  THEN [serving EXCEPT ![w].phase = "storing"]
                  ELSE [serving EXCEPT ![w] = Nothing]
  /\ UNCHANGED <<clock, nonces, buckets, artifacts, arrivals, stops, accepted, admitted>>

CountFiles(w) ==
  /\ serving[w].phase = "locked"
  /\ IF Cardinality(artifacts) < MaxArtifacts
       THEN /\ serving' = [serving EXCEPT ![w].phase = "storing"]
            /\ UNCHANGED flock
       ELSE /\ serving' = [serving EXCEPT ![w] = Nothing]
            /\ flock' = Nobody
  /\ UNCHANGED <<clock, nonces, buckets, artifacts, arrivals, stops, accepted, admitted>>

(* The temporary file is moved into place, or removed when writing fails.    *)
StoreArtifact(w) ==
  /\ serving[w].phase = "storing"
  /\ \/ artifacts' = artifacts \cup {serving[w].arrival}
     \/ UNCHANGED artifacts
  /\ serving' = [serving EXCEPT ![w] = Nothing]
  /\ flock' = IF flock = w THEN Nobody ELSE flock
  /\ UNCHANGED <<clock, nonces, buckets, arrivals, stops, accepted, admitted>>

(* A process stops and starts again: its threads and its limiter are gone,   *)
(* the kernel releases its file lock.                                        *)
Stop(p) ==
  /\ stops < MaxStops
  /\ stops' = stops + 1
  /\ serving' = [w \in Workers |-> IF w \in ThreadsOf(p) THEN Nothing ELSE serving[w]]
  /\ buckets' = [buckets EXCEPT ![p] = [k \in {} |-> <<>>]]
  /\ admitted' = [admitted EXCEPT ![p] = [k \in Keys |-> <<>>]]
  /\ flock' = IF flock \in ThreadsOf(p) THEN Nobody ELSE flock
  /\ UNCHANGED <<clock, nonces, artifacts, arrivals, accepted>>

Tick ==
  /\ clock < MaxClock
  /\ clock' = clock + 1
  /\ UNCHANGED <<serving, nonces, buckets, artifacts, flock, arrivals, stops, accepted, admitted>>

RequestNext ==
  \/ \E w \in Workers :
       (\E r \in Requests : Arrive(w, r)) \/ Reserve(w) \/ Allow(w) \/ Answer(w)
         \/ Lock(w) \/ CountFiles(w) \/ StoreArtifact(w)
  \/ \E p \in Processes : Stop(p)
  \/ Tick

RequestSpec == RequestInit /\ [][RequestNext]_requestVars

-----------------------------------------------------------------------------
(* THREAT_MODEL.md: "signed single-use nonces".  A nonce is reserved for     *)
(* Skew from the time read at its acceptance, while the signature it came    *)
(* with is valid until Skew after the sensor signed, and in that second too: *)
(* a request that arrives again just then is accepted again                  *)
(* (reserve_sensor_nonce, verify_signed_payload).                            *)
NoncesSingleUse ==
  \A a, b \in accepted : a.sensor = b.sensor /\ a.nonce = b.nonce => a = b

(* What the table does keep apart: a nonce is accepted again only once Skew  *)
(* has passed since the time read at its last acceptance, in whatever order  *)
(* threads that read the clock reach the database (reserve_sensor_nonce).    *)
(* The signature may still be valid then.  A sensor never holds more nonces  *)
(* than its share of the table.                                              *)
ReplaysApart ==
  /\ \A a, b \in accepted :
       a.sensor = b.sensor /\ a.nonce = b.nonce =>
         a = b \/ a.at >= b.read + Skew \/ b.at >= a.read + Skew
  /\ \A s \in DOMAIN SensorSecrets : Cardinality(OfSensor(nonces, s)) <= NonceCapacity

(* Of the admissions of a key, one and the RateLimit-th after it are a       *)
(* window apart: the limit holds for every window, not only for aligned      *)
(* ones, although stamps reach the bucket out of order (allow).              *)
RateHeld ==
  \A p \in Processes :
    /\ Cardinality(DOMAIN buckets[p]) <= MaxKeys
    /\ \A k \in Keys :
         LET s == admitted[p][k] IN
           \A i \in 1..Len(s) - RateLimit : s[i + RateLimit].at >= s[i].read + RateWindow

(* The quarantine never exceeds its limit, and what it holds came with a     *)
(* reservation of its own, however requests are repeated and processes stop; *)
(* its lock is held by a thread at work in it, so no path leaves it behind.  *)
QuarantineHeld ==
  /\ flock # Nobody => serving[flock].phase \in {"locked", "storing"}
  /\ Cardinality(artifacts) <= MaxArtifacts
  /\ artifacts \subseteq {a.arrival : a \in accepted}
=============================================================================
