--------------------------- MODULE CollectorProofs ---------------------------
(***************************************************************************)
(* Proofs about the collector, for any number of threads, processes,       *)
(* requests and restarts, and any window, limit and capacity: first its    *)
(* requests (SensorRequests), then its evidence files (EvidenceFiles),     *)
(* then the two composed.                                                  *)
(***************************************************************************)
EXTENDS Collector, FiniteSetTheorems, SequenceTheorems, WellFoundedInduction, TLAPS

Served == {"reserving", "limiting", "handling", "locked", "storing"}
Admitted == {"limiting", "handling", "locked", "storing"}
Locked == {"locked", "storing"}

Service == [phase : Served, request : Requests, read : Nat, arrival : Nat]

RequestTypeOK ==
  /\ clock \in Nat
  /\ arrivals \in Nat
  /\ serving \in [Workers -> {Nothing} \cup Service]
  /\ \A w \in Workers : serving[w].phase \in Served => serving[w].read <= clock

(* A reservation is on file, with the end of its window, until the clock has *)
(* passed that end.                                                          *)
NoncesOnFile ==
  \A a \in accepted :
    /\ a.read \in Nat /\ a.at \in Nat
    /\ \/ clock >= a.read + Skew
       \/ \E n \in nonces : /\ n.sensor = a.sensor /\ n.nonce = a.nonce
                            /\ n.expires = a.read + Skew

Apart ==
  \A a, b \in accepted :
    a.sensor = b.sensor /\ a.nonce = b.nonce =>
      a = b \/ a.at >= b.read + Skew \/ b.at >= a.read + Skew

SharesHeld ==
  /\ IsFiniteSet(nonces)
  /\ \A s \in DOMAIN SensorSecrets : Cardinality(OfSensor(nonces, s)) <= NonceCapacity

(* A sensor's request past its reservation has one; whoever is inside the    *)
(* quarantine holds its lock, and counts before it stores.                   *)
Backed == {a.arrival : a \in accepted}

QuarantineGuarded ==
  /\ flock \in Workers \cup {Nobody}
  /\ IsFiniteSet(artifacts)
  /\ \A w \in Workers :
       /\ serving[w].phase \in Admitted /\ serving[w].request.kind # "operator" =>
            serving[w].arrival \in Backed
       /\ serving[w].phase \in Locked => flock = w /\ serving[w].request.kind = "artifact"
       /\ serving[w].phase = "storing" => Cardinality(artifacts) < MaxArtifacts

RequestInv ==
  /\ RequestTypeOK
  /\ NoncesOnFile /\ Apart /\ SharesHeld
  /\ QuarantineGuarded /\ QuarantineHeld

-----------------------------------------------------------------------------
(* What a step does to the one thread that takes it.                         *)
LEMMA ServedNext ==
  ASSUME RequestTypeOK, NEW w \in Workers, NEW new \in {Nothing} \cup Service,
         serving' = [serving EXCEPT ![w] = new], clock' = clock, arrivals' \in Nat,
         new \in Service => new.read <= clock
  PROVE  /\ RequestTypeOK'
         /\ serving'[w] = new
         /\ \A v \in Workers \ {w} : serving'[v] = serving[v]
<1>1. Nothing.phase \notin Served
  BY DEF Nothing, Served
<1> QED
  BY <1>1 DEF RequestTypeOK

(* Time read by a thread is never ahead of the clock.                        *)
LEMMA AtIsService ==
  ASSUME RequestTypeOK, NEW r \in Requests, NEW n \in Nat, NEW phase \in Served
  PROVE  /\ At(phase, r, n) \in Service
         /\ At(phase, r, n).read <= clock
         /\ At(phase, r, n).phase = phase
         /\ At(phase, r, n).request = r
         /\ At(phase, r, n).arrival = n
BY DEF RequestTypeOK, At, Service

LEMMA ServiceOf ==
  ASSUME RequestTypeOK, NEW w \in Workers, serving[w].phase \in Served
  PROVE  /\ serving[w] \in Service
         /\ serving[w].request \in Requests /\ serving[w].arrival \in Nat
         /\ serving[w].read \in Nat /\ serving[w].read <= clock
<1>1. serving[w] \in {Nothing} \cup Service
  BY DEF RequestTypeOK
<1>2. serving[w] # Nothing
  BY DEF Nothing, Served
<1> QED
  BY <1>1, <1>2 DEF RequestTypeOK, Service

LEMMA NothingServed ==
  ASSUME NEW w \in Workers, serving[w] = Nothing
  PROVE  serving[w].phase \notin Served
BY DEF Nothing, Served

(* Steps that leave the nonces and their history alone keep what is said of  *)
(* them.                                                                     *)
LEMMA NoncesUntouched ==
  ASSUME NoncesOnFile, Apart, SharesHeld, UNCHANGED <<nonces, accepted, clock>>
  PROVE  NoncesOnFile' /\ Apart' /\ SharesHeld'
BY DEF NoncesOnFile, Apart, SharesHeld, OfSensor

-----------------------------------------------------------------------------
LEMMA ArriveSafe ==
  ASSUME RequestInv, NEW w \in Workers, NEW r \in Requests, Arrive(w, r)
  PROVE  RequestInv'
<1> DEFINE phase == IF r.kind = "operator" THEN "limiting" ELSE "reserving"
           new == At(phase, r, arrivals + 1)
<1>1. /\ RequestTypeOK /\ arrivals \in Nat /\ serving[w].phase = "idle"
      /\ serving' = [serving EXCEPT ![w] = new] /\ arrivals' = arrivals + 1
      /\ UNCHANGED <<clock, nonces, artifacts, flock, accepted>>
  BY DEF Arrive, RequestInv, RequestTypeOK
<1>2. phase \in Served
  BY DEF Served
<1>3. /\ new \in Service /\ new.read <= clock /\ new.phase = phase /\ new.request = r
  BY <1>1, <1>2, AtIsService
<1> HIDE DEF new
<1>4. /\ RequestTypeOK' /\ serving'[w] = new
      /\ \A v \in Workers \ {w} : serving'[v] = serving[v]
  <2>1. arrivals' \in Nat /\ clock' = clock
    BY <1>1
  <2> QED
    BY <1>1, <1>3, <2>1, ServedNext
<1>5. NoncesOnFile' /\ Apart' /\ SharesHeld'
  BY <1>1, NoncesUntouched DEF RequestInv
<1>6. QuarantineGuarded'
  BY <1>1, <1>3, <1>4 DEF RequestInv, QuarantineGuarded, Backed, Admitted, Locked
<1>7. QuarantineHeld'
  BY <1>1, <1>4 DEF RequestInv, QuarantineHeld, QuarantineGuarded
<1> QED
  BY <1>4, <1>5, <1>6, <1>7 DEF RequestInv

(* What reserve_sensor_nonce deletes belongs to windows that have passed.    *)
LEMMA LiveOnFile ==
  ASSUME RequestInv, NEW time \in Nat, time <= clock, NEW a \in accepted
  PROVE  \/ clock >= a.read + Skew
         \/ \E n \in Live(time) : /\ n.sensor = a.sensor /\ n.nonce = a.nonce
                                  /\ n.expires = a.read + Skew
<1>1. /\ a.read \in Nat /\ Skew \in Nat /\ clock \in Nat
      /\ \/ clock >= a.read + Skew
         \/ \E n \in nonces : /\ n.sensor = a.sensor /\ n.nonce = a.nonce
                              /\ n.expires = a.read + Skew
  BY RequestAssumption DEF RequestInv, NoncesOnFile, RequestTypeOK
<1> QED
  BY <1>1 DEF Live

LEMMA LiveShares ==
  ASSUME SharesHeld, NEW time
  PROVE  /\ IsFiniteSet(Live(time))
         /\ \A s : /\ IsFiniteSet(OfSensor(Live(time), s))
                   /\ Cardinality(OfSensor(Live(time), s)) \in Nat
         /\ \A s \in DOMAIN SensorSecrets :
              Cardinality(OfSensor(Live(time), s)) <= NonceCapacity
<1>1. IsFiniteSet(nonces) /\ Live(time) \subseteq nonces
  BY DEF SharesHeld, Live
<1>2. \A s : /\ OfSensor(Live(time), s) \subseteq OfSensor(nonces, s)
             /\ OfSensor(nonces, s) \subseteq nonces
  BY <1>1 DEF OfSensor
<1>3. IsFiniteSet(Live(time))
  BY <1>1, FS_Subset
<1>4. \A s : IsFiniteSet(OfSensor(nonces, s)) /\ Cardinality(OfSensor(nonces, s)) \in Nat
  BY <1>1, <1>2, FS_Subset, FS_CardinalityType
<1>5. \A s : /\ IsFiniteSet(OfSensor(Live(time), s))
             /\ Cardinality(OfSensor(Live(time), s)) <= Cardinality(OfSensor(nonces, s))
  BY <1>2, <1>4, FS_Subset
<1>6. \A s : Cardinality(OfSensor(Live(time), s)) \in Nat
  BY <1>5, FS_CardinalityType
<1>7. NonceCapacity \in Nat
  BY RequestAssumption
<1> QED
  BY <1>3, <1>4, <1>5, <1>6, <1>7 DEF SharesHeld

LEMMA ReserveSafe ==
  ASSUME RequestInv, NEW w \in Workers, Reserve(w)
  PROVE  RequestInv'
<1> DEFINE time == serving[w].read
           n == Nonce(w)
           a == [sensor |-> n.sensor, nonce |-> n.nonce, read |-> time, at |-> clock,
                 arrival |-> serving[w].arrival]
           new == At("limiting", serving[w].request, serving[w].arrival)
<1>1. /\ RequestTypeOK /\ SharesHeld /\ clock \in Nat /\ arrivals' \in Nat
      /\ serving[w].phase = "reserving"
      /\ UNCHANGED <<clock, artifacts, flock>>
  BY DEF Reserve, RequestInv, RequestTypeOK
<1>2. /\ serving[w].request \in Requests /\ serving[w].arrival \in Nat
      /\ time \in Nat /\ time <= clock
  BY <1>1, ServiceOf DEF Served
<1>3. /\ n.sensor = serving[w].request.sensor /\ n.nonce = serving[w].request.nonce
      /\ n.expires = time + Skew
      /\ Skew \in Nat /\ NonceCapacity \in Nat
  BY RequestAssumption DEF Nonce
<1>4. /\ new \in Service /\ new.read <= clock /\ new.phase = "limiting"
      /\ new.request = serving[w].request /\ new.arrival = serving[w].arrival
  BY <1>1, <1>2, AtIsService DEF Served
<1> HIDE DEF n, new
<1>5. CASE HasRoom(Live(time), n.sensor) /\ ~Reserved(Live(time), n)
  <2>1. /\ nonces' = Live(time) \cup {n} /\ accepted' = accepted \cup {a}
        /\ serving' = [serving EXCEPT ![w] = new]
    BY <1>5 DEF Reserve, n, new
  <2>2. /\ RequestTypeOK' /\ serving'[w] = new
        /\ \A v \in Workers \ {w} : serving'[v] = serving[v]
    BY <1>1, <1>4, <2>1, ServedNext
  <2>3. \A b \in accepted :
          \/ clock >= b.read + Skew
          \/ \E m \in Live(time) : /\ m.sensor = b.sensor /\ m.nonce = b.nonce
                                   /\ m.expires = b.read + Skew
    BY <1>2, LiveOnFile
  <2>4. NoncesOnFile'
    <3>1. \A b \in accepted : b.read \in Nat /\ b.at \in Nat
      BY DEF RequestInv, NoncesOnFile
    <3> QED
      BY <1>1, <1>2, <1>3, <2>1, <2>3, <3>1 DEF NoncesOnFile
  <2>5. Apart'
    <3>1. \A b \in accepted :
            b.sensor = a.sensor /\ b.nonce = a.nonce => a.at >= b.read + Skew
      BY <1>3, <1>5, <2>3 DEF Reserved
    <3> QED
      BY <2>1, <3>1 DEF RequestInv, Apart
  <2>6. SharesHeld'
    <3>1. IsFiniteSet(Live(time) \cup {n})
      BY <1>1, LiveShares, FS_AddElement
    <3>2. ASSUME NEW s \in DOMAIN SensorSecrets
          PROVE  Cardinality(OfSensor(Live(time) \cup {n}, s)) <= NonceCapacity
      <4>1. CASE s # n.sensor
        <5>1. OfSensor(Live(time) \cup {n}, s) = OfSensor(Live(time), s)
          BY <4>1 DEF OfSensor
        <5> QED
          BY <1>1, <5>1, LiveShares
      <4>2. CASE s = n.sensor
        <5>1. OfSensor(Live(time) \cup {n}, s) = OfSensor(Live(time), s) \cup {n}
          BY <4>2 DEF OfSensor
        <5>2. /\ IsFiniteSet(OfSensor(Live(time), s))
              /\ Cardinality(OfSensor(Live(time), s)) \in Nat
              /\ Cardinality(OfSensor(Live(time), s)) < NonceCapacity
          BY <1>1, <1>5, <4>2, LiveShares DEF HasRoom
        <5>3. \/ Cardinality(OfSensor(Live(time), s) \cup {n}) = Cardinality(OfSensor(Live(time), s))
              \/ Cardinality(OfSensor(Live(time), s) \cup {n}) = Cardinality(OfSensor(Live(time), s)) + 1
          BY <5>2, FS_AddElement
        <5>4. Cardinality(OfSensor(Live(time), s) \cup {n}) <= NonceCapacity
          BY <1>3, <5>2, <5>3
        <5> QED
          BY <5>1, <5>4
      <4> QED
        BY <4>1, <4>2
    <3> QED
      BY <2>1, <3>1, <3>2 DEF SharesHeld
  <2>7. a \in accepted' /\ a.arrival = new.arrival /\ Backed \subseteq Backed'
    BY <1>4, <2>1 DEF Backed
  <2>8. new.arrival \in Backed'
    BY <2>7 DEF Backed
  <2>9. QuarantineGuarded'
    BY <1>1, <1>4, <2>2, <2>7, <2>8 DEF RequestInv, QuarantineGuarded, Admitted, Locked
  <2>10. QuarantineHeld'
    BY <1>1, <2>2, <2>7 DEF RequestInv, QuarantineHeld, QuarantineGuarded, Backed
  <2> QED
    BY <2>2, <2>4, <2>5, <2>6, <2>9, <2>10 DEF RequestInv
<1>6. CASE ~(HasRoom(Live(time), n.sensor) /\ ~Reserved(Live(time), n))
  <2>1. /\ nonces' = Live(time) /\ accepted' = accepted
        /\ serving' = [serving EXCEPT ![w] = Nothing]
    BY <1>6 DEF Reserve, n
  <2>2. Nothing \notin Service /\ Nothing.phase = "idle"
    BY DEF Nothing, Service, Served
  <2>3. /\ RequestTypeOK' /\ serving'[w] = Nothing
        /\ \A v \in Workers \ {w} : serving'[v] = serving[v]
    BY <1>1, <2>1, <2>2, ServedNext
  <2>4. NoncesOnFile'
    <3>1. \A b \in accepted : b.read \in Nat /\ b.at \in Nat
      BY DEF RequestInv, NoncesOnFile
    <3>2. \A b \in accepted :
            \/ clock >= b.read + Skew
            \/ \E m \in Live(time) : /\ m.sensor = b.sensor /\ m.nonce = b.nonce
                                     /\ m.expires = b.read + Skew
      BY <1>2, LiveOnFile
    <3> QED
      BY <1>1, <2>1, <3>1, <3>2 DEF NoncesOnFile
  <2>5. Apart'
    BY <2>1 DEF RequestInv, Apart
  <2>6. SharesHeld'
    BY <1>1, <2>1, LiveShares DEF SharesHeld
  <2>7. QuarantineGuarded'
    BY <1>1, <2>1, <2>2, <2>3 DEF RequestInv, QuarantineGuarded, Backed, Admitted, Locked
  <2>8. QuarantineHeld'
    BY <1>1, <2>1, <2>3 DEF RequestInv, QuarantineHeld, QuarantineGuarded
  <2> QED
    BY <2>3, <2>4, <2>5, <2>6, <2>7, <2>8 DEF RequestInv
<1> QED
  BY <1>5, <1>6
-----------------------------------------------------------------------------
(* A request that ends, while nothing is on its way into the quarantine.     *)
LEMMA EndSafe ==
  ASSUME RequestInv, NEW w \in Workers, serving[w].phase \notin Locked,
         serving' = [serving EXCEPT ![w] = Nothing],
         UNCHANGED <<clock, arrivals, nonces, accepted, artifacts, flock>>
  PROVE  RequestInv'
<1>1. Nothing \notin Service /\ Nothing.phase = "idle"
  BY DEF Nothing, Service, Served
<1>2. /\ RequestTypeOK' /\ serving'[w] = Nothing
      /\ \A v \in Workers \ {w} : serving'[v] = serving[v]
  BY <1>1, ServedNext DEF RequestInv, RequestTypeOK
<1>3. NoncesOnFile' /\ Apart' /\ SharesHeld'
  BY NoncesUntouched DEF RequestInv
<1>4. QuarantineGuarded'
  BY <1>1, <1>2 DEF RequestInv, QuarantineGuarded, Backed, Admitted, Locked
<1>5. QuarantineHeld'
  BY <1>1, <1>2 DEF RequestInv, QuarantineHeld, QuarantineGuarded, Locked
<1> QED
  BY <1>2, <1>3, <1>4, <1>5 DEF RequestInv

LEMMA AllowSafe ==
  ASSUME RequestInv, NEW w \in Workers, Allow(w)
  PROVE  RequestInv'
<1> DEFINE new == At("handling", serving[w].request, serving[w].arrival)
<1>1. /\ RequestTypeOK /\ arrivals' \in Nat /\ serving[w].phase = "limiting"
      /\ UNCHANGED <<clock, arrivals, nonces, artifacts, flock, accepted>>
      /\ \/ serving' = [serving EXCEPT ![w] = new]
         \/ serving' = [serving EXCEPT ![w] = Nothing]
  BY DEF Allow, RequestInv, RequestTypeOK
<1>2. serving[w].request \in Requests /\ serving[w].arrival \in Nat
  BY <1>1, ServiceOf DEF Served
<1>3. /\ new \in Service /\ new.read <= clock /\ new.phase = "handling"
      /\ new.request = serving[w].request /\ new.arrival = serving[w].arrival
  BY <1>1, <1>2, AtIsService DEF Served
<1> HIDE DEF new
<1>4. CASE serving' = [serving EXCEPT ![w] = new]
  <2>1. /\ RequestTypeOK' /\ serving'[w] = new
        /\ \A v \in Workers \ {w} : serving'[v] = serving[v]
    BY <1>1, <1>3, <1>4, ServedNext
  <2>2. NoncesOnFile' /\ Apart' /\ SharesHeld'
    BY <1>1, NoncesUntouched DEF RequestInv
  <2>3. QuarantineGuarded'
    BY <1>1, <1>3, <2>1 DEF RequestInv, QuarantineGuarded, Backed, Admitted, Locked
  <2>4. QuarantineHeld'
    BY <1>1, <2>1 DEF RequestInv, QuarantineHeld, QuarantineGuarded
  <2> QED
    BY <2>1, <2>2, <2>3, <2>4 DEF RequestInv
<1>5. CASE serving' = [serving EXCEPT ![w] = Nothing]
  BY <1>1, <1>5, EndSafe DEF Locked
<1> QED
  BY <1>1, <1>4, <1>5

(* The lock is taken when nobody holds it.                                   *)
LEMMA LockSafe ==
  ASSUME RequestInv, NEW w \in Workers, Lock(w)
  PROVE  RequestInv'
<1> DEFINE new == [serving[w] EXCEPT !.phase = "locked"]
<1>1. /\ RequestTypeOK /\ arrivals' \in Nat /\ serving[w].phase = "handling"
      /\ serving[w].request.kind = "artifact"
      /\ flock = Nobody /\ flock' = w
      /\ serving' = [serving EXCEPT ![w] = new]
      /\ UNCHANGED <<clock, arrivals, nonces, artifacts, accepted>>
  BY DEF Lock, RequestInv, RequestTypeOK
<1>2. serving[w] \in Service /\ serving[w].read <= clock
  BY <1>1, ServiceOf DEF Served
<1>3. /\ new \in Service /\ new.read <= clock /\ new.phase = "locked"
      /\ new.request = serving[w].request /\ new.arrival = serving[w].arrival
  BY <1>2 DEF Service, Served
<1> HIDE DEF new
<1>4. /\ RequestTypeOK' /\ serving'[w] = new
      /\ \A v \in Workers \ {w} : serving'[v] = serving[v]
  BY <1>1, <1>3, ServedNext
<1>5. NoncesOnFile' /\ Apart' /\ SharesHeld'
  BY <1>1, NoncesUntouched DEF RequestInv
<1>6. \A v \in Workers : serving[v].phase \notin Locked
  BY <1>1, RequestAssumption DEF RequestInv, QuarantineGuarded
<1>7. QuarantineGuarded'
  BY <1>1, <1>3, <1>4, <1>6 DEF RequestInv, QuarantineGuarded, Backed, Admitted, Locked
<1>8. QuarantineHeld'
  BY <1>1, <1>3, <1>4 DEF RequestInv, QuarantineHeld
<1> QED
  BY <1>4, <1>5, <1>7, <1>8 DEF RequestInv

(* The holder of the lock gives it back when its request ends.               *)
LEMMA ReleaseSafe ==
  ASSUME RequestInv, NEW w \in Workers, serving[w].phase \in Locked,
         serving' = [serving EXCEPT ![w] = Nothing], flock' = Nobody,
         \/ UNCHANGED artifacts
         \/ /\ serving[w].phase = "storing"
            /\ artifacts' = artifacts \cup {serving[w].arrival},
         UNCHANGED <<clock, arrivals, nonces, accepted>>
  PROVE  RequestInv'
<1>1. Nothing \notin Service /\ Nothing.phase = "idle"
  BY DEF Nothing, Service, Served
<1>2. /\ RequestTypeOK' /\ serving'[w] = Nothing
      /\ \A v \in Workers \ {w} : serving'[v] = serving[v]
  BY <1>1, ServedNext DEF RequestInv, RequestTypeOK
<1>3. NoncesOnFile' /\ Apart' /\ SharesHeld'
  BY NoncesUntouched DEF RequestInv
<1>4. \A v \in Workers \ {w} : serving[v].phase \notin Locked
  BY RequestAssumption DEF RequestInv, QuarantineGuarded
<1>5. /\ IsFiniteSet(artifacts) /\ Cardinality(artifacts) \in Nat
      /\ Cardinality(artifacts) <= MaxArtifacts /\ MaxArtifacts \in Nat
  BY RequestAssumption, FS_CardinalityType DEF RequestInv, QuarantineGuarded, QuarantineHeld
<1>6. IsFiniteSet(artifacts') /\ Cardinality(artifacts') <= MaxArtifacts
  <2>1. CASE UNCHANGED artifacts
    BY <1>5, <2>1
  <2>2. CASE /\ serving[w].phase = "storing"
             /\ artifacts' = artifacts \cup {serving[w].arrival}
    <3>1. Cardinality(artifacts) < MaxArtifacts
      BY <2>2 DEF RequestInv, QuarantineGuarded
    <3>2. /\ IsFiniteSet(artifacts')
          /\ \/ Cardinality(artifacts') = Cardinality(artifacts)
             \/ Cardinality(artifacts') = Cardinality(artifacts) + 1
      BY <1>5, <2>2, FS_AddElement
    <3> QED
      BY <1>5, <3>1, <3>2
  <2> QED
    BY <2>1, <2>2
<1>7. artifacts' \subseteq {a.arrival : a \in accepted'}
  <2>1. serving[w].arrival \in Backed
    BY DEF RequestInv, QuarantineGuarded, Locked, Admitted
  <2> QED
    BY <2>1 DEF RequestInv, QuarantineHeld, Backed
<1>8. QuarantineGuarded'
  BY <1>1, <1>2, <1>4, <1>6 DEF RequestInv, QuarantineGuarded, Backed, Admitted, Locked
<1>9. QuarantineHeld'
  BY <1>6, <1>7 DEF QuarantineHeld
<1> QED
  BY <1>2, <1>3, <1>8, <1>9 DEF RequestInv

LEMMA CountFilesSafe ==
  ASSUME RequestInv, NEW w \in Workers, CountFiles(w)
  PROVE  RequestInv'
<1> DEFINE new == [serving[w] EXCEPT !.phase = "storing"]
<1>1. /\ RequestTypeOK /\ arrivals' \in Nat /\ serving[w].phase = "locked"
      /\ UNCHANGED <<clock, arrivals, nonces, artifacts, accepted>>
  BY DEF CountFiles, RequestInv, RequestTypeOK
<1>2. CASE Cardinality(artifacts) < MaxArtifacts
  <2>1. serving' = [serving EXCEPT ![w] = new] /\ UNCHANGED flock
    BY <1>1, <1>2 DEF CountFiles, RequestTypeOK
  <2>2. serving[w] \in Service /\ serving[w].read <= clock
    BY <1>1, ServiceOf DEF Served
  <2>3. /\ new \in Service /\ new.read <= clock /\ new.phase = "storing"
        /\ new.request = serving[w].request /\ new.arrival = serving[w].arrival
    BY <2>2 DEF Service, Served
  <2> HIDE DEF new
  <2>4. /\ RequestTypeOK' /\ serving'[w] = new
        /\ \A v \in Workers \ {w} : serving'[v] = serving[v]
    BY <1>1, <2>1, <2>3, ServedNext
  <2>5. NoncesOnFile' /\ Apart' /\ SharesHeld'
    BY <1>1, NoncesUntouched DEF RequestInv
  <2>6. QuarantineGuarded'
    BY <1>1, <1>2, <2>1, <2>3, <2>4 DEF RequestInv, QuarantineGuarded, Backed, Admitted, Locked
  <2>7. QuarantineHeld'
    BY <1>1, <2>1, <2>3, <2>4 DEF RequestInv, QuarantineHeld, QuarantineGuarded
  <2> QED
    BY <2>4, <2>5, <2>6, <2>7 DEF RequestInv
<1>3. CASE ~(Cardinality(artifacts) < MaxArtifacts)
  <2>1. serving' = [serving EXCEPT ![w] = Nothing] /\ flock' = Nobody
    BY <1>3 DEF CountFiles
  <2> QED
    BY <1>1, <2>1, ReleaseSafe DEF Locked
<1> QED
  BY <1>2, <1>3

LEMMA StoreArtifactSafe ==
  ASSUME RequestInv, NEW w \in Workers, StoreArtifact(w)
  PROVE  RequestInv'
<1>1. serving[w].phase = "storing" /\ flock = w
  BY DEF StoreArtifact, RequestInv, QuarantineGuarded, Locked
<1>2. /\ serving' = [serving EXCEPT ![w] = Nothing] /\ flock' = Nobody
      /\ UNCHANGED artifacts \/ artifacts' = artifacts \cup {serving[w].arrival}
      /\ UNCHANGED <<clock, arrivals, nonces, accepted>>
  BY <1>1 DEF StoreArtifact
<1> QED
  BY <1>1, <1>2, ReleaseSafe DEF Locked

LEMMA StopSafe ==
  ASSUME RequestInv, NEW p \in Processes, Stop(p)
  PROVE  RequestInv'
<1>1. /\ serving' = [w \in Workers |-> IF w \in ThreadsOf(p) THEN Nothing ELSE serving[w]]
      /\ flock' = IF flock \in ThreadsOf(p) THEN Nobody ELSE flock
      /\ UNCHANGED <<clock, arrivals, nonces, accepted, artifacts>>
  BY DEF Stop
<1>2. Nothing.phase = "idle"
  BY DEF Nothing
<1>3. \A w \in Workers :
        /\ serving'[w] = Nothing \/ serving'[w] = serving[w]
        /\ serving'[w] # Nothing => w \notin ThreadsOf(p)
  BY <1>1
<1>4. RequestTypeOK'
  BY <1>1, <1>2, <1>3 DEF RequestInv, RequestTypeOK, Served
<1>5. NoncesOnFile' /\ Apart' /\ SharesHeld'
  BY <1>1, NoncesUntouched DEF RequestInv
<1>6. QuarantineGuarded'
  BY <1>1, <1>2, <1>3 DEF RequestInv, QuarantineGuarded, Backed, Admitted, Locked
<1>7. QuarantineHeld'
  BY <1>1, <1>3 DEF RequestInv, QuarantineHeld, QuarantineGuarded
<1> QED
  BY <1>4, <1>5, <1>6, <1>7 DEF RequestInv

(* Windows that have passed stay passed.                                     *)
LEMMA TickSafe ==
  ASSUME RequestInv, Tick
  PROVE  RequestInv'
<1>1. /\ clock \in Nat /\ clock' = clock + 1 /\ Skew \in Nat
      /\ UNCHANGED <<serving, arrivals, nonces, accepted, artifacts, flock>>
  BY RequestAssumption DEF Tick, RequestInv, RequestTypeOK
<1>2. RequestTypeOK'
  <2>1. \A w \in Workers : serving[w].phase \in Served => serving[w].read \in Nat
    BY ServiceOf DEF RequestInv
  <2> QED
    BY <1>1, <2>1 DEF RequestInv, RequestTypeOK
<1>3. NoncesOnFile'
  BY <1>1 DEF RequestInv, NoncesOnFile
<1>4. Apart' /\ SharesHeld'
  BY <1>1 DEF RequestInv, Apart, SharesHeld, OfSensor
<1>5. QuarantineGuarded' /\ QuarantineHeld'
  BY <1>1 DEF RequestInv, QuarantineGuarded, QuarantineHeld, Backed
<1> QED
  BY <1>2, <1>3, <1>4, <1>5 DEF RequestInv

-----------------------------------------------------------------------------
LEMMA RequestStart == RequestInit => RequestInv
<1> SUFFICES ASSUME RequestInit PROVE RequestInv
  OBVIOUS
<1>1. Nothing.phase = "idle"
  BY DEF Nothing
<1>2. RequestTypeOK
  BY <1>1 DEF RequestInit, RequestTypeOK, Served
<1>3. NoncesOnFile /\ Apart
  BY DEF RequestInit, NoncesOnFile, Apart
<1>4. SharesHeld
  <2>1. \A s : OfSensor(nonces, s) = {}
    BY DEF RequestInit, OfSensor
  <2>2. IsFiniteSet(nonces) /\ \A s : Cardinality(OfSensor(nonces, s)) = 0
    BY <2>1, FS_EmptySet DEF RequestInit
  <2>3. NonceCapacity \in Nat
    BY RequestAssumption
  <2> QED
    BY <2>2, <2>3 DEF SharesHeld
<1>5. QuarantineGuarded /\ QuarantineHeld
  BY <1>1, FS_EmptySet, RequestAssumption
     DEF RequestInit, QuarantineGuarded, QuarantineHeld, Admitted, Locked
<1> QED
  BY <1>2, <1>3, <1>4, <1>5 DEF RequestInv

LEMMA RequestStep == RequestInv /\ [RequestNext]_requestVars => RequestInv'
<1> SUFFICES ASSUME RequestInv, [RequestNext]_requestVars PROVE RequestInv'
  OBVIOUS
<1>1. CASE \E w \in Workers, r \in Requests : Arrive(w, r)
  BY <1>1, ArriveSafe
<1>2. CASE \E w \in Workers : Reserve(w)
  BY <1>2, ReserveSafe
<1>3. CASE \E w \in Workers : Allow(w)
  BY <1>3, AllowSafe
<1>4. CASE \E w \in Workers : Answer(w)
  BY <1>4, EndSafe DEF Answer, Locked
<1>5. CASE \E w \in Workers : Lock(w)
  BY <1>5, LockSafe
<1>6. CASE \E w \in Workers : CountFiles(w)
  BY <1>6, CountFilesSafe
<1>7. CASE \E w \in Workers : StoreArtifact(w)
  BY <1>7, StoreArtifactSafe
<1>8. CASE \E p \in Processes : Stop(p)
  BY <1>8, StopSafe
<1>9. CASE Tick
  BY <1>9, TickSafe
<1>10. CASE UNCHANGED requestVars
  BY <1>10 DEF requestVars, RequestInv, RequestTypeOK, NoncesOnFile, Apart, SharesHeld,
               OfSensor, QuarantineGuarded, QuarantineHeld, Backed
<1> QED
  BY <1>1, <1>2, <1>3, <1>4, <1>5, <1>6, <1>7, <1>8, <1>9, <1>10 DEF RequestNext

(* Whatever is on the way, restarts included, the invariant holds.           *)
LEMMA RequestsInvariant == RequestSpec => []RequestInv
<1> QED
  BY RequestStart, RequestStep, PTL DEF RequestSpec

(* A nonce is reserved again only Skew after the time read at its last       *)
(* acceptance, and a sensor keeps to its share of the table, although        *)
(* reserve_sensor_nonce reads the clock before its transaction: what it      *)
(* deletes has expired by a time that is never ahead of the clock.  The      *)
(* signature may still be valid in that second, and later if it was given    *)
(* ahead of the clock: a nonce is not single-use (NoncesSingleUse).          *)
THEOREM NoReplay == RequestSpec => []ReplaysApart
<1>1. RequestInv => ReplaysApart
  BY DEF RequestInv, Apart, SharesHeld, ReplaysApart
<1> QED
  BY <1>1, RequestsInvariant, PTL

(* The count and the move are one critical section, so the quarantine keeps  *)
(* its limit with any number of threads and processes, whenever they stop.   *)
THEOREM QuarantineBounded == RequestSpec => []QuarantineHeld
<1>1. RequestInv => QuarantineHeld
  BY DEF RequestInv
<1> QED
  BY <1>1, RequestsInvariant, PTL

-----------------------------------------------------------------------------
(***************************************************************************)
(* The limiter: a bucket holds the times of a key's last admissions, those *)
(* it has forgotten are out of the window.                                 *)
(***************************************************************************)
Admission == [read : Nat, at : Nat]

BucketTells(b, s) ==
  /\ Len(b) <= RateLimit /\ Len(b) <= Len(s)
  /\ \A i \in 1..Len(b) : b[i] = s[Len(s) - Len(b) + i].read
  /\ \A i \in 1..Len(s) - Len(b) : s[i].read + RateWindow <= clock

Limiter(K) == [K -> Seq(Nat)]

WindowsApart(s) ==
  \A i \in 1..Len(s) - RateLimit : s[i + RateLimit].at >= s[i].read + RateWindow

RateOK ==
  /\ admitted \in [Processes -> [Keys -> Seq(Admission)]]
  /\ buckets \in [Processes -> UNION {Limiter(K) : K \in SUBSET Keys}]
  /\ \A p \in Processes :
       /\ IsFiniteSet(DOMAIN buckets[p]) /\ Cardinality(DOMAIN buckets[p]) <= MaxKeys
       /\ \A k \in Keys : /\ BucketTells(BucketOf(buckets[p], k), admitted[p][k])
                          /\ WindowsApart(admitted[p][k])

LEMMA GreatestNumber ==
  ASSUME NEW n \in Nat, NEW S \in SUBSET (0..n), S # {}
  PROVE  \E x \in S : \A y \in S : y <= x
<1> DEFINE T == {n - x : x \in S}
<1>1. T \in SUBSET Nat /\ T # {}
  <2>1. \A x \in S : n - x \in Nat
    OBVIOUS
  <2> QED
    BY <2>1
<1>2. PICK m \in T : \A y \in T : ~ (<<y, m>> \in OpToRel(<, Nat))
  BY <1>1, NatLessThanWellFounded, WFMin, Zenon
<1>3. \A y \in T : ~ (y < m)
  BY <1>1, <1>2, Zenon DEF OpToRel
<1>4. PICK x \in S : m = n - x
  OBVIOUS
<1>5. \A y \in S : n - y \in T
  OBVIOUS
<1> HIDE DEF T
<1>6. \A y \in S : ~ (n - y < n - x)
  BY <1>3, <1>4, <1>5
<1> QED
  BY <1>6

LEMMA PrunedBucket ==
  ASSUME NEW b \in Seq(Nat), NEW time
  PROVE  \E m \in 0..Len(b) :
           /\ PruneBucket(b, time) = SubSeq(b, 1 + m, Len(b))
           /\ \A j \in 1..m : b[j] + RateWindow <= time
<1> DEFINE out == {i \in 0..Len(b) : \A j \in 1..i : b[j] + RateWindow <= time}
           Last(i) == i \in out /\ \A j \in out : j <= i
           m == CHOOSE i \in out : \A j \in out : j <= i
<1>1. out \in SUBSET (0..Len(b)) /\ 0 \in out
  OBVIOUS
<1>2. \E i \in out : \A j \in out : j <= i
  <2>1. Len(b) \in Nat /\ out # {}
    BY <1>1
  <2> HIDE DEF out
  <2> QED
    BY <1>1, <2>1, GreatestNumber
<1>3. m \in out
  BY <1>2
<1>4. PruneBucket(b, time) = SubSeq(b, 1 + m, Len(b))
  BY DEF PruneBucket
<1> QED
  BY <1>3, <1>4

LEMMA PrunedTells ==
  ASSUME clock \in Nat, NEW b \in Seq(Nat), NEW s \in Seq(Admission), BucketTells(b, s),
         NEW time \in Nat, time <= clock
  PROVE  PruneBucket(b, time) \in Seq(Nat) /\ BucketTells(PruneBucket(b, time), s)
<1>1. PICK m \in 0..Len(b) :
        /\ PruneBucket(b, time) = SubSeq(b, 1 + m, Len(b))
        /\ \A j \in 1..m : b[j] + RateWindow <= time
  BY PrunedBucket
<1> DEFINE c == SubSeq(b, 1 + m, Len(b))
<1>2. c \in Seq(Nat) /\ Len(c) = Len(b) - m /\ \A i \in 1..Len(b) - m : c[i] = b[m + i]
  BY SubSeqProperties
<1> HIDE DEF c
<1>3. RateWindow \in Nat /\ RateLimit \in Nat /\ Len(b) \in Nat /\ Len(s) \in Nat /\ m \in Nat
  BY RequestAssumption
<1>4. ASSUME NEW i \in 1..Len(c)
      PROVE  c[i] = s[Len(s) - Len(c) + i].read
  <2>1. m + i \in 1..Len(b) /\ Len(s) - Len(b) + (m + i) = Len(s) - Len(c) + i
    BY <1>2, <1>3
  <2>2. c[i] = b[m + i]
    BY <1>2, <1>3
  <2> QED
    BY <2>1, <2>2 DEF BucketTells
<1>5. ASSUME NEW i \in 1..Len(s) - Len(c)
      PROVE  s[i].read + RateWindow <= clock
  <2>1. CASE i <= Len(s) - Len(b)
    BY <1>3, <2>1 DEF BucketTells
  <2>2. CASE i > Len(s) - Len(b)
    <3>1. PICK j \in 1..m : i = Len(s) - Len(b) + j
      <4>1. i - (Len(s) - Len(b)) \in 1..m
        BY <1>2, <1>3, <2>2
      <4> QED
        BY <1>3, <4>1
    <3>2. b[j] = s[i].read /\ b[j] + RateWindow <= time /\ b[j] \in Nat
      <4>1. j \in 1..Len(b) /\ b[j] \in Nat
        BY <1>3
      <4>2. b[j] = s[Len(s) - Len(b) + j].read
        BY <4>1 DEF BucketTells
      <4> QED
        BY <1>1, <3>1, <4>1, <4>2
    <3> QED
      BY <1>3, <3>2, SMTT(30)
  <2> QED
    BY <1>2, <1>3, <2>1, <2>2
<1>6. Len(c) <= RateLimit /\ Len(c) <= Len(s)
  BY <1>2, <1>3 DEF BucketTells
<1>7. BucketTells(c, s)
  BY <1>4, <1>5, <1>6 DEF BucketTells
<1> QED
  BY <1>1, <1>2, <1>7 DEF c

LEMMA BucketKept ==
  ASSUME NEW K \in SUBSET Keys, NEW b \in Limiter(K), NEW k \in Keys
  PROVE  BucketOf(b, k) \in Seq(Nat)
<1>1. <<>> \in Seq(Nat)
  OBVIOUS
<1> QED
  BY <1>1 DEF BucketOf, Limiter

LEMMA CleanedTells ==
  ASSUME clock \in Nat, NEW K \in SUBSET Keys, NEW b \in Limiter(K),
         IsFiniteSet(K), Cardinality(K) <= MaxKeys,
         NEW s \in [Keys -> Seq(Admission)],
         \A j \in Keys : BucketTells(BucketOf(b, j), s[j]),
         NEW time \in Nat, time <= clock, NEW k \in Keys, NEW c \in Cleaned(b, k, time)
  PROVE  \E L \in SUBSET K :
           /\ c \in Limiter(L)
           /\ \A j \in Keys : BucketTells(BucketOf(c, j), s[j])
<1> DEFINE pruned == [j \in DOMAIN b |-> PruneBucket(b[j], time)]
           filled == {j \in DOMAIN b : pruned[j] # <<>>}
           own == [j \in (DOMAIN b \ {k}) \cup (filled \cap {k}) |-> IF j = k THEN pruned[j] ELSE b[j]]
           all == [j \in filled |-> pruned[j]]
<1>1. c = own \/ c = all
  BY DEF Cleaned
<1>2. DOMAIN b = K /\ \A j \in K : b[j] \in Seq(Nat) /\ BucketOf(b, j) = b[j]
  BY DEF Limiter, BucketOf
<1>3. \A j \in K : pruned[j] \in Seq(Nat) /\ BucketTells(pruned[j], s[j])
  <2> SUFFICES ASSUME NEW j \in K
               PROVE  pruned[j] \in Seq(Nat) /\ BucketTells(pruned[j], s[j])
    OBVIOUS
  <2>1. b[j] \in Seq(Nat) /\ s[j] \in Seq(Admission) /\ BucketTells(b[j], s[j])
    BY <1>2
  <2>2. PruneBucket(b[j], time) \in Seq(Nat) /\ BucketTells(PruneBucket(b[j], time), s[j])
    BY <2>1, PrunedTells
  <2> QED
    BY <1>2, <2>2
<1>4. \A j \in K \ filled : BucketTells(<<>>, s[j])
  BY <1>2, <1>3
<1>5. \A j \in Keys \ K : BucketTells(<<>>, s[j])
  BY <1>2 DEF BucketOf
<1>6. filled \subseteq K
  BY <1>2
<1> HIDE DEF pruned, filled
<1>7. ASSUME c = own
      PROVE  \E L \in SUBSET K : c \in Limiter(L) /\ \A j \in Keys : BucketTells(BucketOf(c, j), s[j])
  <2> DEFINE L == (K \ {k}) \cup (filled \cap {k})
  <2>1. L \in SUBSET K /\ DOMAIN c = L
    BY <1>2, <1>6, <1>7
  <2>2. c \in Limiter(L)
    BY <1>2, <1>3, <1>6, <1>7 DEF Limiter
  <2>3. \A j \in Keys : BucketTells(BucketOf(c, j), s[j])
    <3> SUFFICES ASSUME NEW j \in Keys
                 PROVE  BucketTells(BucketOf(c, j), s[j])
      OBVIOUS
    <3>1. CASE j \in L
      <4>1. c[j] = pruned[j] \/ c[j] = b[j]
        BY <1>2, <1>7, <3>1
      <4> QED
        BY <1>2, <1>3, <2>1, <3>1, <4>1 DEF BucketOf
    <3>2. CASE j \notin L
      <4>1. BucketOf(c, j) = <<>>
        BY <2>1, <3>2 DEF BucketOf
      <4>2. j \in K \ filled \/ j \notin K
        BY <3>2
      <4> QED
        BY <1>4, <1>5, <4>1, <4>2
    <3> QED
      BY <3>1, <3>2
  <2> QED
    BY <2>1, <2>2, <2>3
<1>8. ASSUME c = all
      PROVE  \E L \in SUBSET K : c \in Limiter(L) /\ \A j \in Keys : BucketTells(BucketOf(c, j), s[j])
  <2>1. c \in Limiter(filled) /\ DOMAIN c = filled
    BY <1>3, <1>6, <1>8 DEF Limiter
  <2>2. \A j \in Keys : BucketTells(BucketOf(c, j), s[j])
    <3> SUFFICES ASSUME NEW j \in Keys
                 PROVE  BucketTells(BucketOf(c, j), s[j])
      OBVIOUS
    <3>1. CASE j \in filled
      BY <1>3, <1>6, <1>8, <3>1 DEF BucketOf
    <3>2. CASE j \notin filled
      <4>1. BucketOf(c, j) = <<>>
        BY <2>1, <3>2 DEF BucketOf
      <4> QED
        BY <1>4, <1>5, <3>2, <4>1
    <3> QED
      BY <3>1, <3>2
  <2> QED
    BY <1>6, <2>1, <2>2
<1> QED
  BY <1>1, <1>7, <1>8

LEMMA AdmittedTells ==
  ASSUME clock \in Nat, NEW b \in Seq(Nat), NEW s \in Seq(Admission),
         BucketTells(b, s), WindowsApart(s), Len(b) < RateLimit, NEW time \in Nat,
         NEW a, a = [read |-> time, at |-> clock]
  PROVE  /\ Append(s, a) \in Seq(Admission) /\ Append(b, time) \in Seq(Nat)
         /\ BucketTells(Append(b, time), Append(s, a)) /\ WindowsApart(Append(s, a))
<1> DEFINE n == Len(s)
           m == Len(b)
           t == Append(s, a)
           c == Append(b, time)
<1>1. a \in Admission /\ a.read = time /\ a.at = clock
  BY DEF Admission
<1>2. /\ RateLimit \in Nat /\ RateWindow \in Nat /\ n \in Nat /\ m \in Nat
      /\ m < RateLimit /\ m <= n
  BY RequestAssumption DEF BucketTells
<1>3. /\ t \in Seq(Admission) /\ c \in Seq(Nat) /\ Len(t) = n + 1 /\ Len(c) = m + 1
      /\ t[n + 1] = a /\ c[m + 1] = time
      /\ \A i \in 1..n : t[i] = s[i] /\ s[i].read \in Nat /\ s[i].at \in Nat
      /\ \A i \in 1..m : c[i] = b[i]
  <2>1. \A i \in 1..n : s[i] \in Admission
    OBVIOUS
  <2>2. \A i \in 1..n : s[i].read \in Nat /\ s[i].at \in Nat
    BY <2>1 DEF Admission
  <2> QED
    BY <1>1, <2>2
<1>4. /\ \A i \in 1..m : b[i] = s[n - m + i].read
      /\ \A i \in 1..n - m : s[i].read + RateWindow <= clock
      /\ \A i \in 1..n - RateLimit : s[i + RateLimit].at >= s[i].read + RateWindow
  BY DEF BucketTells, WindowsApart
<1> HIDE DEF n, m, t, c
<1>5. \A i \in 1..m + 1 : c[i] = t[(n + 1) - (m + 1) + i].read
  <2> SUFFICES ASSUME NEW i \in 1..m + 1
               PROVE  c[i] = t[(n + 1) - (m + 1) + i].read
    OBVIOUS
  <2>1. CASE i = m + 1
    <3>1. (n + 1) - (m + 1) + i = n + 1
      BY <1>2, <2>1
    <3> QED
      BY <1>1, <1>3, <2>1, <3>1
  <2>2. CASE i \in 1..m
    <3>1. (n + 1) - (m + 1) + i = n - m + i /\ n - m + i \in 1..n
      BY <1>2, <2>2
    <3> QED
      BY <1>3, <1>4, <2>2, <3>1
  <2> QED
    BY <1>2, <2>1, <2>2
<1>6. \A i \in 1..(n + 1) - (m + 1) : t[i].read + RateWindow <= clock
  <2> SUFFICES ASSUME NEW i \in 1..(n + 1) - (m + 1)
               PROVE  t[i].read + RateWindow <= clock
    OBVIOUS
  <2>1. i \in 1..n - m /\ i \in 1..n
    BY <1>2
  <2> QED
    BY <1>3, <1>4, <2>1
<1>7. \A i \in 1..(n + 1) - RateLimit : t[i + RateLimit].at >= t[i].read + RateWindow
  <2> SUFFICES ASSUME NEW i \in 1..(n + 1) - RateLimit
               PROVE  t[i + RateLimit].at >= t[i].read + RateWindow
    OBVIOUS
  <2>1. RateLimit > 0 /\ i \in 1..n
    BY <1>2
  <2>2. CASE i + RateLimit = n + 1
    <3>1. i \in 1..n - m
      BY <1>2, <2>2
    <3>2. s[i].read + RateWindow <= clock
      BY <1>4, <3>1
    <3> QED
      BY <1>1, <1>2, <1>3, <2>1, <2>2, <3>2
  <2>3. CASE i + RateLimit # n + 1
    <3>1. i \in 1..n - RateLimit /\ i + RateLimit \in 1..n
      BY <1>2, <2>3
    <3> QED
      BY <1>3, <1>4, <2>1, <3>1
  <2> QED
    BY <2>2, <2>3
<1>8. Len(c) <= RateLimit /\ Len(c) <= Len(t)
  BY <1>2, <1>3
<1>9. BucketTells(c, t) /\ WindowsApart(t)
  BY <1>3, <1>5, <1>6, <1>7, <1>8 DEF BucketTells, WindowsApart
<1> QED
  BY <1>3, <1>9 DEF t, c

LEMMA RateUntouched ==
  ASSUME RateOK, clock \in Nat, UNCHANGED <<buckets, admitted>>, clock' \in Nat, clock' >= clock
  PROVE  RateOK'
<1>1. ASSUME NEW p \in Processes, NEW k \in Keys
      PROVE  BucketTells(BucketOf(buckets[p], k), admitted[p][k])'
  <2> DEFINE b == BucketOf(buckets[p], k)
             s == admitted[p][k]
  <2>1. s \in Seq(Admission) /\ b \in Seq(Nat) /\ BucketTells(b, s)
    <3>1. s \in Seq(Admission) /\ BucketTells(b, s)
      BY DEF RateOK
    <3>2. PICK K \in SUBSET Keys : buckets[p] \in Limiter(K)
      BY DEF RateOK
    <3> QED
      BY <3>1, <3>2, BucketKept, Zenon
  <2>2. RateWindow \in Nat /\ RateLimit \in Nat
    BY RequestAssumption
  <2>3. \A i \in 1..Len(s) : s[i].read \in Nat
    <3>1. \A i \in 1..Len(s) : s[i] \in Admission
      BY <2>1
    <3> QED
      BY <3>1 DEF Admission
  <2> HIDE DEF b, s
  <2>4. /\ Len(b) <= RateLimit /\ Len(b) <= Len(s)
        /\ \A i \in 1..Len(b) : b[i] = s[Len(s) - Len(b) + i].read
        /\ \A i \in 1..Len(s) - Len(b) : s[i].read + RateWindow <= clock'
    BY <2>1, <2>2, <2>3 DEF BucketTells
  <2> QED
    BY <2>4 DEF BucketTells, BucketOf, b, s
<1> QED
  BY <1>1 DEF RateOK, WindowsApart

LEMMA AllowRate ==
  ASSUME RequestTypeOK, RateOK, NEW w \in Workers, Home[w] \in Processes, Allow(w)
  PROVE  RateOK'
<1> DEFINE p == Home[w]
           k == serving[w].request.key
           time == serving[w].read
<1>1. /\ clock \in Nat /\ clock' = clock /\ time \in Nat /\ time <= clock /\ k \in Keys
      /\ p \in Processes
  BY ServiceOf DEF Allow, RequestTypeOK, Served, Keys
<1>2. PICK b \in Cleaned(buckets[p], k, time) :
        \/ /\ k \in DOMAIN b \/ Cardinality(DOMAIN b) < MaxKeys
           /\ Len(BucketOf(b, k)) < RateLimit
           /\ buckets' = [buckets EXCEPT ![p] =
                [j \in DOMAIN b \cup {k} |-> IF j = k THEN Append(BucketOf(b, k), time) ELSE b[j]]]
           /\ admitted' = [admitted EXCEPT ![p][k] = Append(@, [read |-> time, at |-> clock])]
        \/ /\ buckets' = [buckets EXCEPT ![p] = b]
           /\ admitted' = admitted
  BY DEF Allow
<1> DEFINE s == admitted[p]
           a == [read |-> time, at |-> clock]
<1>3. PICK K \in SUBSET Keys : buckets[p] \in Limiter(K)
  BY <1>1 DEF RateOK
<1>4. /\ IsFiniteSet(K) /\ Cardinality(K) <= MaxKeys /\ s \in [Keys -> Seq(Admission)]
      /\ \A j \in Keys : BucketTells(BucketOf(buckets[p], j), s[j]) /\ WindowsApart(s[j])
  <2>1. DOMAIN buckets[p] = K
    BY <1>3 DEF Limiter
  <2> QED
    BY <1>1, <2>1 DEF RateOK
<1> HIDE DEF p, k, time, s, a
<1>5. PICK L \in SUBSET K : b \in Limiter(L) /\ \A j \in Keys : BucketTells(BucketOf(b, j), s[j])
  BY <1>1, <1>2, <1>3, <1>4, CleanedTells
<1>6. /\ DOMAIN b = L /\ IsFiniteSet(L) /\ Cardinality(L) <= MaxKeys /\ L \in SUBSET Keys
      /\ MaxKeys \in Nat /\ Cardinality(L) \in Nat
  <2>1. IsFiniteSet(L) /\ Cardinality(L) <= Cardinality(K) /\ Cardinality(K) \in Nat
    BY <1>4, FS_Subset, FS_CardinalityType
  <2>2. Cardinality(L) \in Nat
    BY <2>1, FS_CardinalityType
  <2> QED
    BY <1>4, <1>5, <2>1, <2>2, RequestAssumption DEF Limiter
<1>7. ASSUME NEW M \in SUBSET Keys, NEW c \in Limiter(M), NEW t \in [Keys -> Seq(Admission)],
             buckets' = [buckets EXCEPT ![p] = c], admitted' = [admitted EXCEPT ![p] = t],
             IsFiniteSet(M), Cardinality(M) <= MaxKeys,
             \A j \in Keys : BucketTells(BucketOf(c, j), t[j]) /\ WindowsApart(t[j])
      PROVE  RateOK'
  <2>1. /\ admitted' \in [Processes -> [Keys -> Seq(Admission)]]
        /\ buckets' \in [Processes -> UNION {Limiter(N) : N \in SUBSET Keys}]
    BY <1>1, <1>7 DEF RateOK
  <2>2. ASSUME NEW q \in Processes
        PROVE  /\ IsFiniteSet(DOMAIN buckets'[q]) /\ Cardinality(DOMAIN buckets'[q]) <= MaxKeys
               /\ \A j \in Keys : /\ BucketTells(BucketOf(buckets'[q], j), admitted'[q][j])
                                  /\ WindowsApart(admitted'[q][j])
    <3>1. CASE q = p
      <4>1. buckets'[q] = c /\ admitted'[q] = t /\ DOMAIN c = M
        BY <1>1, <1>7, <3>1 DEF RateOK, Limiter
      <4> QED
        BY <1>7, <4>1
    <3>2. CASE q # p
      <4>1. buckets'[q] = buckets[q] /\ admitted'[q] = admitted[q]
        BY <1>1, <1>7, <3>2 DEF RateOK
      <4> QED
        BY <4>1 DEF RateOK
    <3> QED
      BY <3>1, <3>2
  <2> QED
    BY <1>1, <2>1, <2>2, ZenonT(60) DEF RateOK, BucketTells, BucketOf, WindowsApart
<1>8. CASE buckets' = [buckets EXCEPT ![p] = b] /\ admitted' = admitted
  <2>1. admitted' = [admitted EXCEPT ![p] = s]
    BY <1>1, <1>8 DEF RateOK, s
  <2> QED
    BY <1>4, <1>5, <1>6, <1>7, <1>8, <2>1
<1>9. ASSUME k \in DOMAIN b \/ Cardinality(DOMAIN b) < MaxKeys,
             Len(BucketOf(b, k)) < RateLimit,
             buckets' = [buckets EXCEPT ![p] =
               [j \in DOMAIN b \cup {k} |-> IF j = k THEN Append(BucketOf(b, k), time) ELSE b[j]]],
             admitted' = [admitted EXCEPT ![p][k] = Append(@, a)]
      PROVE  RateOK'
  <2> DEFINE M == L \cup {k}
             own == BucketOf(b, k)
             c == [j \in M |-> IF j = k THEN Append(own, time) ELSE b[j]]
             t == [s EXCEPT ![k] = Append(s[k], a)]
  <2>1. own \in Seq(Nat) /\ s[k] \in Seq(Admission) /\ BucketTells(own, s[k]) /\ WindowsApart(s[k])
    BY <1>1, <1>4, <1>5, <1>6, BucketKept
  <2>2. /\ Append(s[k], a) \in Seq(Admission) /\ Append(own, time) \in Seq(Nat)
        /\ BucketTells(Append(own, time), Append(s[k], a)) /\ WindowsApart(Append(s[k], a))
    <3> HIDE DEF own
    <3> QED
      BY <1>1, <1>9, <2>1, AdmittedTells DEF a, own
  <2>3. M \in SUBSET Keys /\ IsFiniteSet(M) /\ Cardinality(M) <= MaxKeys
    <3>1. CASE k \in L
      <4>1. M = L
        BY <3>1
      <4> QED
        BY <1>6, <4>1
    <3>2. CASE k \notin L
      <4>1. Cardinality(L) < MaxKeys
        BY <1>6, <1>9, <3>2
      <4>2. IsFiniteSet(M) /\ Cardinality(M) = Cardinality(L) + 1
        BY <1>6, <3>2, FS_AddElement
      <4> QED
        BY <1>1, <1>6, <4>1, <4>2
    <3> QED
      BY <3>1, <3>2
  <2>4. c \in Limiter(M) /\ t \in [Keys -> Seq(Admission)]
    <3> HIDE DEF own
    <3>1. \A j \in L : b[j] \in Seq(Nat)
      BY <1>5 DEF Limiter
    <3> QED
      BY <1>1, <1>4, <2>2, <3>1 DEF Limiter
  <2>5. /\ buckets' = [buckets EXCEPT ![p] = c] /\ admitted' = [admitted EXCEPT ![p] = t]
    BY <1>1, <1>6, <1>9 DEF RateOK, s
  <2>6. \A j \in Keys : BucketTells(BucketOf(c, j), t[j]) /\ WindowsApart(t[j])
    <3> SUFFICES ASSUME NEW j \in Keys
                 PROVE  BucketTells(BucketOf(c, j), t[j]) /\ WindowsApart(t[j])
      OBVIOUS
    <3>1. CASE j = k
      <4>1. BucketOf(c, j) = Append(own, time) /\ t[j] = Append(s[k], a)
        BY <1>4, <3>1 DEF BucketOf
      <4> QED
        BY <2>2, <4>1
    <3>2. CASE j # k
      <4>1. BucketOf(c, j) = BucketOf(b, j) /\ t[j] = s[j]
        BY <1>4, <1>6, <3>2 DEF BucketOf
      <4> QED
        BY <1>4, <1>5, <4>1
    <3> QED
      BY <3>1, <3>2
  <2> HIDE DEF M, own, c, t
  <2> QED
    BY <1>7, <2>3, <2>4, <2>5, <2>6
<1> QED
  BY <1>2, <1>8, <1>9 DEF a

LEMMA EmptyBucket ==
  /\ [k \in {} |-> <<>>] \in Limiter({}) /\ BucketTells(<<>>, <<>>) /\ WindowsApart(<<>>)
  /\ \A k \in Keys : BucketOf([j \in {} |-> <<>>], k) = <<>>
  /\ [k \in Keys |-> <<>>] \in [Keys -> Seq(Admission)]
  /\ IsFiniteSet({}) /\ Cardinality({}) <= MaxKeys
<1>1. RateLimit \in Nat /\ MaxKeys \in Nat
  BY RequestAssumption
<1> QED
  BY <1>1, FS_EmptySet DEF Limiter, BucketTells, WindowsApart, BucketOf

LEMMA RateStart == RequestInit => RateOK
<1> DEFINE none == [k \in {} |-> <<>>]
<1>1. none \in UNION {Limiter(K) : K \in SUBSET Keys} /\ DOMAIN none = {}
  BY EmptyBucket
<1> HIDE DEF none
<1> SUFFICES ASSUME RequestInit PROVE RateOK
  OBVIOUS
<1>2. /\ buckets = [p \in Processes |-> none]
      /\ admitted = [p \in Processes |-> [k \in Keys |-> <<>>]]
  BY DEF RequestInit, none
<1>3. \A k \in Keys : BucketOf(none, k) = <<>>
  BY EmptyBucket DEF none
<1> QED
  BY <1>1, <1>2, <1>3, EmptyBucket DEF RateOK

LEMMA StopRate ==
  ASSUME RequestTypeOK, RateOK, NEW p \in Processes, Stop(p)
  PROVE  RateOK'
<1> DEFINE none == [k \in {} |-> <<>>]
<1>1. none \in UNION {Limiter(K) : K \in SUBSET Keys} /\ DOMAIN none = {}
  BY EmptyBucket
<1>2. \A k \in Keys : BucketOf(none, k) = <<>>
  BY EmptyBucket
<1>3. /\ buckets' = [buckets EXCEPT ![p] = none]
      /\ admitted' = [admitted EXCEPT ![p] = [k \in Keys |-> <<>>]] /\ clock' = clock
  BY DEF Stop
<1> HIDE DEF none
<1>4. ASSUME NEW q \in Processes
      PROVE  /\ IsFiniteSet(DOMAIN buckets'[q]) /\ Cardinality(DOMAIN buckets'[q]) <= MaxKeys
             /\ \A k \in Keys : /\ BucketTells(BucketOf(buckets'[q], k), admitted'[q][k])
                                /\ WindowsApart(admitted'[q][k])
  <2>1. CASE q = p
    <3>1. buckets'[q] = none /\ admitted'[q] = [k \in Keys |-> <<>>]
      BY <1>3, <2>1 DEF RateOK
    <3> QED
      BY <1>1, <1>2, <3>1, EmptyBucket
  <2>2. CASE q # p
    <3>1. buckets'[q] = buckets[q] /\ admitted'[q] = admitted[q]
      BY <1>3, <2>2 DEF RateOK
    <3> QED
      BY <3>1 DEF RateOK
  <2> QED
    BY <2>1, <2>2
<1>5. /\ admitted' \in [Processes -> [Keys -> Seq(Admission)]]
      /\ buckets' \in [Processes -> UNION {Limiter(K) : K \in SUBSET Keys}]
  BY <1>1, <1>3, EmptyBucket DEF RateOK
<1>6. ASSUME NEW q \in Processes, NEW k \in Keys
      PROVE  BucketTells(BucketOf(buckets[q], k), admitted[q][k])'
  <2>1. BucketTells(BucketOf(buckets'[q], k), admitted'[q][k]) /\ clock' = clock
    BY <1>3, <1>4
  <2> QED
    BY <2>1 DEF BucketTells, BucketOf
<1> QED
  BY <1>4, <1>5, <1>6 DEF RateOK, WindowsApart

LEMMA RateStep ==
  ASSUME RequestTypeOK, RateOK, [RequestNext]_requestVars
  PROVE  RateOK'
<1>1. clock \in Nat
  BY DEF RequestTypeOK
<1>2. CASE UNCHANGED <<buckets, admitted, clock>>
  BY <1>1, <1>2, RateUntouched
<1>3. CASE Tick
  BY <1>1, <1>3, RateUntouched DEF Tick
<1>4. ASSUME NEW p \in Processes, Stop(p)
      PROVE  RateOK'
  BY <1>4, StopRate
<1>5. ASSUME NEW w \in Workers, Allow(w)
      PROVE  RateOK'
  <2>1. Home[w] \in Processes
    BY RequestAssumption DEF Processes
  <2> QED
    BY <1>5, <2>1, AllowRate
<1>6. ASSUME NEW w \in Workers,
             \/ \E r \in Requests : Arrive(w, r)
             \/ Reserve(w) \/ Answer(w) \/ Lock(w) \/ CountFiles(w) \/ StoreArtifact(w)
      PROVE  UNCHANGED <<buckets, admitted, clock>>
  BY <1>6 DEF Arrive, Reserve, Answer, Lock, CountFiles, StoreArtifact
<1> QED
  BY <1>2, <1>3, <1>4, <1>5, <1>6 DEF RequestNext, requestVars

(* No window of any length of the limiter admits more of a key than its
   limit, and a limiter never holds more keys than MaxKeys, although stamps
   reach a bucket out of order and a restart forgets them (security.py: allow,
   _prune_bucket). *)
THEOREM RateIsHeld == RequestSpec => []RateHeld
<1>1. RequestInit => RateOK
  BY RateStart
<1>2. RequestInv /\ RateOK /\ [RequestNext]_requestVars => RateOK'
  BY RateStep DEF RequestInv
<1>3. RateOK => RateHeld
  BY DEF RateOK, RateHeld, WindowsApart
<1> QED
  BY <1>1, <1>2, <1>3, RequestsInvariant, PTL DEF RequestSpec

-----------------------------------------------------------------------------
(***************************************************************************)
(* Evidence files.                                                         *)
(***************************************************************************)

Saving == {"writing", "moving", "moved"}

Job == [phase : Phases, id : Nat, session : Sessions \cup {None}, at : Nat,
        list : SUBSET Nat, gone : SUBSET Nat]

EvidenceTypeOK ==
  /\ today \in Nat
  /\ sessions \subseteq Sessions
  /\ job \in [Workers -> Job]
  /\ writer \in Workers \cup {None}
  /\ saves \in Nat

(* Ids are given out once: a save under way has an id of its own, to which no *)
(* row and no prune refers yet.                                               *)
IdsFresh ==
  /\ \A r \in rows : r.id \in 1..saves
  /\ \A w \in Workers :
       /\ job[w].list \cup job[w].gone \subseteq 1..saves
       /\ job[w].phase \in Saving =>
            /\ job[w].id \in 1..saves
            /\ job[w].id \notin Ids(rows)
            /\ \A v \in Workers :
                 /\ job[w].id \notin job[v].list \cup job[v].gone
                 /\ v # w /\ job[v].phase \in Saving => job[v].id # job[w].id

(* What a prune has removed and not committed: it holds the write lock.      *)
RemovalsHeld ==
  \A w \in Workers :
    /\ job[w].gone # {} => writer = w /\ job[w].phase \in Pruning
    /\ job[w].gone \cap files = {}
    /\ job[w].phase = "moved" => job[w].id \in files

EvidenceInv == EvidenceTypeOK /\ IdsFresh /\ RemovalsHeld /\ FilesMatchRows

-----------------------------------------------------------------------------
(* A job keeps its type when its phase and its list are replaced.           *)
LEMMA Rejobbed ==
  ASSUME NEW jobs \in [Workers -> Job], NEW w \in Workers,
         NEW phase \in Phases, NEW list \in SUBSET Nat
  PROVE  [jobs EXCEPT ![w].phase = phase, ![w].list = list] \in [Workers -> Job]
<1> DEFINE new == [jobs[w] EXCEPT !.phase = phase, !.list = list]
<1>1. new \in Job
  BY DEF Job
<1>2. [jobs EXCEPT ![w].phase = phase, ![w].list = list] = [jobs EXCEPT ![w] = new]
  OBVIOUS
<1> HIDE DEF new
<1> QED
  BY <1>1, <1>2

LEMMA BeginSaveSafe ==
  ASSUME EvidenceInv, NEW w \in Workers, BeginSave(w)
  PROVE  EvidenceInv'
<1>1. PICK s \in sessions :
        job' = [job EXCEPT ![w] = [Idle EXCEPT !.phase = "writing", !.id = saves + 1,
                                              !.session = s, !.at = today]]
  BY DEF BeginSave
<1> DEFINE new == [Idle EXCEPT !.phase = "writing", !.id = saves + 1,
                               !.session = s, !.at = today]
<1>0. /\ new.phase = "writing" /\ new.id = saves + 1
      /\ new.list = {} /\ new.gone = {}
  BY DEF Idle
<1>2. /\ job \in [Workers -> Job] /\ saves \in Nat
      /\ job' = [job EXCEPT ![w] = new]
  BY <1>1 DEF EvidenceInv, EvidenceTypeOK
<1>3. new \in Job
  <2>1. Idle \in Job
    BY DEF Idle, Job, Phases
  <2>2. s \in Sessions \cup {None} /\ today \in Nat /\ saves + 1 \in Nat
    BY DEF EvidenceInv, EvidenceTypeOK
  <2>3. "writing" \in Phases
    BY DEF Phases
  <2> QED
    BY <2>1, <2>2, <2>3 DEF Job
<1> HIDE DEF new
<1>4. /\ saves' = saves + 1 /\ job[w].phase = "idle"
      /\ UNCHANGED <<today, sessions, rows, files, temps, writer, abandoned, cascaded, cutOff>>
  BY DEF BeginSave
<1>5. EvidenceTypeOK'
  BY <1>2, <1>3, <1>4 DEF EvidenceInv, EvidenceTypeOK
<1>6. IdsFresh'
  BY <1>0, <1>2, <1>4 DEF EvidenceInv, IdsFresh, Ids, Saving
<1>7. RemovalsHeld'
  BY <1>0, <1>2, <1>4 DEF EvidenceInv, RemovalsHeld, Pruning
<1>8. job[w].gone = {}
  BY <1>4 DEF EvidenceInv, RemovalsHeld, Pruning
<1>9. FilesMatchRows'
  <2>1. \A phase : phase # "writing" /\ phase # "idle" => SavesIn(phase)' = SavesIn(phase)
    BY <1>0, <1>2, <1>4 DEF SavesIn
  <2>2. UNION {job'[v].gone : v \in Workers} = UNION {job[v].gone : v \in Workers}
    BY <1>0, <1>2, <1>8
  <2> QED
    BY <1>4, <2>1, <2>2 DEF EvidenceInv, FilesMatchRows, RowsHaveFiles, FilesExplained, Ids
<1> QED
  BY <1>5, <1>6, <1>7, <1>9 DEF EvidenceInv
LEMMA WriteTemporarySafe ==
  ASSUME EvidenceInv, NEW w \in Workers, WriteTemporary(w)
  PROVE  EvidenceInv'
<1>1. /\ job[w].phase = "writing" /\ job \in [Workers -> Job]
      /\ UNCHANGED <<today, sessions, rows, files, writer, saves, abandoned, cascaded, cutOff>>
  BY DEF WriteTemporary, EvidenceInv, EvidenceTypeOK
<1>2. job[w].gone = {} /\ Idle \in Job
  BY <1>1 DEF EvidenceInv, RemovalsHeld, Pruning, Idle, Job, Phases
<1>3. CASE temps' = temps \cup {job[w].id} /\ job' = [job EXCEPT ![w].phase = "moving"]
  <2>1. EvidenceTypeOK'
    BY <1>1, <1>3 DEF EvidenceInv, EvidenceTypeOK, Job, Phases
  <2>2. IdsFresh'
    BY <1>1, <1>3 DEF EvidenceInv, IdsFresh, Ids, Saving, Job
  <2>3. RemovalsHeld'
    BY <1>1, <1>2, <1>3 DEF EvidenceInv, RemovalsHeld, Pruning, Job
  <2>4. /\ SavesIn("moved")' = SavesIn("moved")
        /\ SavesIn("moving")' = SavesIn("moving") \cup {job[w].id}
        /\ UNION {job'[v].gone : v \in Workers} = UNION {job[v].gone : v \in Workers}
    BY <1>1, <1>3 DEF SavesIn, Job
  <2>5. FilesMatchRows'
    BY <1>1, <1>3, <2>4 DEF EvidenceInv, FilesMatchRows, RowsHaveFiles, FilesExplained, Ids
  <2> QED
    BY <2>1, <2>2, <2>3, <2>5 DEF EvidenceInv
<1>4. CASE job' = [job EXCEPT ![w] = Idle] /\ temps' = temps
  <2>1. EvidenceTypeOK'
    BY <1>1, <1>2, <1>4 DEF EvidenceInv, EvidenceTypeOK
  <2>2. IdsFresh'
    BY <1>1, <1>4 DEF EvidenceInv, IdsFresh, Ids, Saving, Idle
  <2>3. RemovalsHeld'
    BY <1>1, <1>4 DEF EvidenceInv, RemovalsHeld, Pruning, Idle
  <2>4. /\ SavesIn("moved")' = SavesIn("moved") /\ SavesIn("moving")' = SavesIn("moving")
        /\ UNION {job'[v].gone : v \in Workers} = UNION {job[v].gone : v \in Workers}
    BY <1>1, <1>2, <1>4 DEF SavesIn, Idle
  <2>5. FilesMatchRows'
    BY <1>1, <1>4, <2>4 DEF EvidenceInv, FilesMatchRows, RowsHaveFiles, FilesExplained, Ids
  <2> QED
    BY <2>1, <2>2, <2>3, <2>5 DEF EvidenceInv
<1> QED
  BY <1>3, <1>4 DEF WriteTemporary

LEMMA MoveIntoPlaceSafe ==
  ASSUME EvidenceInv, NEW w \in Workers, MoveIntoPlace(w)
  PROVE  EvidenceInv'
<1>1. /\ job[w].phase = "moving" /\ job \in [Workers -> Job]
      /\ temps' = temps \ {job[w].id} /\ files' = files \cup {job[w].id}
      /\ job' = [job EXCEPT ![w].phase = "moved"]
      /\ UNCHANGED <<today, sessions, rows, writer, saves, abandoned, cascaded, cutOff>>
  BY DEF MoveIntoPlace, EvidenceInv, EvidenceTypeOK
<1>2. job[w].gone = {}
  BY <1>1 DEF EvidenceInv, RemovalsHeld, Pruning
<1>3. EvidenceTypeOK'
  BY <1>1 DEF EvidenceInv, EvidenceTypeOK, Job, Phases
<1>4. IdsFresh'
  BY <1>1 DEF EvidenceInv, IdsFresh, Ids, Saving, Job
<1>5. \A v \in Workers : job[w].id \notin job[v].gone
  BY <1>1 DEF EvidenceInv, IdsFresh, Saving
<1>6. RemovalsHeld'
  BY <1>1, <1>2, <1>5 DEF EvidenceInv, RemovalsHeld, Pruning, Job
<1>7. /\ SavesIn("moved")' = SavesIn("moved") \cup {job[w].id}
      /\ \A id \in SavesIn("moving") : id = job[w].id \/ id \in SavesIn("moving")'
      /\ UNION {job'[v].gone : v \in Workers} = UNION {job[v].gone : v \in Workers}
  BY <1>1 DEF SavesIn, Job
<1>8. FilesMatchRows'
  BY <1>1, <1>7 DEF EvidenceInv, FilesMatchRows, RowsHaveFiles, FilesExplained, Ids
<1> QED
  BY <1>3, <1>4, <1>6, <1>8 DEF EvidenceInv

LEMMA InsertRowSafe ==
  ASSUME EvidenceInv, NEW w \in Workers, InsertRow(w)
  PROVE  EvidenceInv'
<1>1. /\ job[w].phase = "moved" /\ job \in [Workers -> Job] /\ saves \in Nat
      /\ UNCHANGED <<today, sessions, temps, writer, saves, abandoned, cascaded, cutOff>>
  BY DEF InsertRow, EvidenceInv, EvidenceTypeOK
<1>2. /\ job[w].gone = {} /\ job[w].id \in files /\ Idle \in Job
      /\ job[w].id \notin Ids(rows) /\ job[w].id \in 1..saves
  BY <1>1 DEF EvidenceInv, RemovalsHeld, IdsFresh, Saving, Pruning, Idle, Job, Phases
<1>3. CASE rows' = rows \cup {Row(w)} /\ StartPrune(w, rows') /\ files' = files
  <2>1. PICK list \in SUBSET Ids(rows') :
          job' = [job EXCEPT ![w].phase = "expiring", ![w].list = list]
    BY <1>3 DEF StartPrune, Ids, Expired
  <2>2. /\ Ids(rows') = Ids(rows) \cup {job[w].id}
        /\ Ids(rows') \subseteq 1..saves /\ \A r \in rows' : r.id \in Ids(rows')
    <3>1. Row(w).id = job[w].id
      BY DEF Row
    <3>2. Ids(rows') = Ids(rows) \cup {job[w].id}
      BY <1>3, <3>1 DEF Ids
    <3>3. Ids(rows) \subseteq 1..saves
      BY DEF EvidenceInv, IdsFresh, Ids
    <3> QED
      BY <1>2, <3>2, <3>3 DEF Ids
  <2>3. /\ \A v \in Workers \ {w} : job'[v] = job[v]
        /\ job'[w].phase = "expiring" /\ job'[w].list = list
        /\ job'[w].gone = {} /\ job'[w].id = job[w].id
    BY <1>1, <1>2, <2>1 DEF Job
  <2>4. EvidenceTypeOK'
    <3>1. list \in SUBSET Nat /\ "expiring" \in Phases
      BY <1>1, <2>1, <2>2 DEF Phases
    <3>2. job' \in [Workers -> Job]
      BY <1>1, <2>1, <3>1, Rejobbed
    <3> QED
      BY <1>1, <3>2 DEF EvidenceInv, EvidenceTypeOK
  <2>5. IdsFresh'
    BY <1>1, <1>2, <2>2, <2>3 DEF EvidenceInv, IdsFresh, Saving
  <2>6. RemovalsHeld'
    BY <1>1, <1>2, <1>3, <2>3 DEF EvidenceInv, RemovalsHeld, Pruning
  <2>7. /\ SavesIn("moving")' = SavesIn("moving")
        /\ \A id \in SavesIn("moved") : id = job[w].id \/ id \in SavesIn("moved")'
        /\ UNION {job'[v].gone : v \in Workers} = UNION {job[v].gone : v \in Workers}
    <3>1. \A v \in Workers : job'[v].gone = job[v].gone
      BY <1>2, <2>3
    <3>2. UNION {job'[v].gone : v \in Workers} = UNION {job[v].gone : v \in Workers}
      BY <3>1
    <3> QED
      BY <1>1, <2>3, <3>2 DEF SavesIn
  <2>8. FilesMatchRows'
    BY <1>1, <1>2, <1>3, <2>2, <2>7 DEF EvidenceInv, FilesMatchRows, RowsHaveFiles, FilesExplained
  <2> QED
    BY <2>4, <2>5, <2>6, <2>8 DEF EvidenceInv
<1>4. CASE files' = files \ {job[w].id} /\ job' = [job EXCEPT ![w] = Idle] /\ rows' = rows
  <2>1. EvidenceTypeOK'
    BY <1>1, <1>2, <1>4 DEF EvidenceInv, EvidenceTypeOK
  <2>2. IdsFresh'
    BY <1>1, <1>4 DEF EvidenceInv, IdsFresh, Ids, Saving, Idle
  <2>3. RemovalsHeld'
    BY <1>1, <1>4 DEF EvidenceInv, RemovalsHeld, IdsFresh, Saving, Pruning, Idle
  <2>4. /\ SavesIn("moving")' = SavesIn("moving")
        /\ \A id \in SavesIn("moved") : id = job[w].id \/ id \in SavesIn("moved")'
        /\ UNION {job'[v].gone : v \in Workers} = UNION {job[v].gone : v \in Workers}
    BY <1>1, <1>2, <1>4 DEF SavesIn, Idle
  <2>5. FilesMatchRows'
    BY <1>1, <1>2, <1>4, <2>4 DEF EvidenceInv, FilesMatchRows, RowsHaveFiles, FilesExplained, Ids
  <2> QED
    BY <2>1, <2>2, <2>3, <2>5 DEF EvidenceInv
<1> QED
  BY <1>3, <1>4 DEF InsertRow

(* The file of an id that a prune lists is unlinked. *)
LEMMA ListedIsNoSave ==
  ASSUME EvidenceInv, NEW w \in Workers, NEW id \in job[w].list
  PROVE  /\ id \in 1..saves
         /\ \A v \in Workers : job[v].phase \in Saving => job[v].id # id
BY DEF EvidenceInv, IdsFresh

LEMMA RemoveOneSafe ==
  ASSUME EvidenceInv, NEW w \in Workers, RemoveOne(w)
  PROVE  EvidenceInv'
<1>1. PICK id \in job[w].list :
        /\ files' = files \ {id}
        /\ job' = [job EXCEPT ![w].list = @ \ {id}, ![w].gone = @ \cup {id}]
  BY DEF RemoveOne
<1>2. /\ job[w].phase \in Pruning /\ job \in [Workers -> Job]
      /\ writer \in {None, w} /\ writer' = w
      /\ UNCHANGED <<today, sessions, rows, temps, saves, abandoned, cascaded, cutOff>>
  BY DEF RemoveOne, EvidenceInv, EvidenceTypeOK
<1>3. /\ id \in 1..saves /\ saves \in Nat
      /\ \A v \in Workers : job[v].phase \in Saving => job[v].id # id
  BY ListedIsNoSave DEF EvidenceInv, EvidenceTypeOK
<1>4. /\ job'[w].phase = job[w].phase /\ job'[w].id = job[w].id
      /\ job'[w].list = job[w].list \ {id} /\ job'[w].gone = job[w].gone \cup {id}
      /\ \A v \in Workers \ {w} : job'[v] = job[v]
  BY <1>1, <1>2 DEF Job
<1>5. EvidenceTypeOK'
  <2>1. job' = [job EXCEPT ![w] = [[@ EXCEPT !.list = job[w].list \ {id}]
                                      EXCEPT !.gone = job[w].gone \cup {id}]]
    BY <1>1, <1>2
  <2>2. job[w] \in Job /\ id \in Nat
    BY <1>2, <1>3
  <2>3. job[w].list \ {id} \in SUBSET Nat /\ job[w].gone \cup {id} \in SUBSET Nat
    BY <2>2 DEF Job
  <2>4. job'[w] \in Job
    BY <1>2, <2>1, <2>2, <2>3 DEF Job
  <2> QED
    BY <1>1, <1>2, <1>4, <2>4 DEF EvidenceInv, EvidenceTypeOK
<1>6. IdsFresh'
  BY <1>2, <1>3, <1>4 DEF EvidenceInv, IdsFresh, Ids
<1>7. RemovalsHeld'
  BY <1>1, <1>2, <1>3, <1>4, EvidenceAssumption DEF EvidenceInv, RemovalsHeld, Pruning, Saving
<1>8. /\ SavesIn("moved")' = SavesIn("moved") /\ SavesIn("moving")' = SavesIn("moving")
      /\ UNION {job'[v].gone : v \in Workers} = {id} \cup UNION {job[v].gone : v \in Workers}
  <2>1. \A phase : SavesIn(phase)' = SavesIn(phase)
    BY <1>4 DEF SavesIn
  <2> QED
    BY <1>4, <2>1
<1>9. FilesMatchRows'
  BY <1>1, <1>2, <1>8 DEF EvidenceInv, FilesMatchRows, RowsHaveFiles, FilesExplained, Ids
<1> QED
  BY <1>5, <1>6, <1>7, <1>9 DEF EvidenceInv

(* A prune ends, its removals being committed or none. *)
LEMMA RemovalFailsSafe ==
  ASSUME EvidenceInv, NEW w \in Workers, RemovalFails(w)
  PROVE  EvidenceInv'
<1>1. PICK id \in job[w].list : files' = files \ {id} /\ cutOff' = cutOff \cup {id}
  BY DEF RemovalFails
<1>2. /\ job[w].phase \in Pruning /\ job \in [Workers -> Job]
      /\ writer # w /\ job' = [job EXCEPT ![w] = Idle]
      /\ UNCHANGED <<today, sessions, rows, temps, writer, saves, abandoned, cascaded>>
  BY DEF RemovalFails, EvidenceInv, EvidenceTypeOK
<1>3. /\ job[w].gone = {} /\ Idle \in Job
      /\ \A v \in Workers : job[v].phase \in Saving => job[v].id # id
  BY <1>2, ListedIsNoSave DEF EvidenceInv, RemovalsHeld, Idle, Job, Phases
<1>4. EvidenceTypeOK'
  BY <1>2, <1>3 DEF EvidenceInv, EvidenceTypeOK
<1>5. IdsFresh'
  BY <1>2 DEF EvidenceInv, IdsFresh, Ids, Saving, Idle
<1>6. RemovalsHeld'
  BY <1>1, <1>2, <1>3 DEF EvidenceInv, RemovalsHeld, Saving, Pruning, Idle
<1>7. /\ SavesIn("moved")' = SavesIn("moved") /\ SavesIn("moving")' = SavesIn("moving")
      /\ UNION {job'[v].gone : v \in Workers} = UNION {job[v].gone : v \in Workers}
  BY <1>2, <1>3 DEF SavesIn, Idle, Pruning
<1>8. FilesMatchRows'
  BY <1>1, <1>2, <1>7 DEF EvidenceInv, FilesMatchRows, RowsHaveFiles, FilesExplained, Ids
<1> QED
  BY <1>4, <1>5, <1>6, <1>8 DEF EvidenceInv

LEMMA StartTrimSafe ==
  ASSUME EvidenceInv, NEW w \in Workers, StartTrim(w)
  PROVE  EvidenceInv'
<1>1. PICK list \in SUBSET Ids(rows) :
        job' = [job EXCEPT ![w].phase = "trimming", ![w].list = list]
  BY DEF StartTrim, Ids, Surplus, Seen
<1>2. /\ job[w].phase = "expiring" /\ job \in [Workers -> Job]
      /\ UNCHANGED <<today, sessions, rows, files, temps, writer, saves, abandoned, cascaded, cutOff>>
  BY DEF StartTrim, EvidenceInv, EvidenceTypeOK
<1>3. /\ job'[w].phase = "trimming" /\ job'[w].id = job[w].id
      /\ job'[w].list = list /\ job'[w].gone = job[w].gone
      /\ \A v \in Workers \ {w} : job'[v] = job[v]
  BY <1>1, <1>2 DEF Job
<1>4. list \subseteq 1..saves /\ saves \in Nat
  BY DEF EvidenceInv, EvidenceTypeOK, IdsFresh, Ids
<1>5. EvidenceTypeOK'
  <2>1. list \in SUBSET Nat /\ "trimming" \in Phases
    BY <1>4 DEF Phases
  <2>2. job' \in [Workers -> Job]
    BY <1>1, <1>2, <2>1, Rejobbed
  <2> QED
    BY <1>2, <2>2 DEF EvidenceInv, EvidenceTypeOK
<1>6. IdsFresh'
  BY <1>1, <1>2, <1>3, <1>4 DEF EvidenceInv, IdsFresh, Saving
<1>7. RemovalsHeld'
  BY <1>2, <1>3 DEF EvidenceInv, RemovalsHeld, Pruning
<1>8. /\ SavesIn("moved")' = SavesIn("moved") /\ SavesIn("moving")' = SavesIn("moving")
      /\ UNION {job'[v].gone : v \in Workers} = UNION {job[v].gone : v \in Workers}
  BY <1>2, <1>3 DEF SavesIn
<1>9. FilesMatchRows'
  BY <1>2, <1>8 DEF EvidenceInv, FilesMatchRows, RowsHaveFiles, FilesExplained, Ids
<1> QED
  BY <1>5, <1>6, <1>7, <1>9 DEF EvidenceInv

LEMMA EndPruneSafe ==
  ASSUME EvidenceInv, NEW w \in Workers, EndPrune(w)
  PROVE  EvidenceInv'
<1>1. /\ job[w].phase = "trimming" /\ job \in [Workers -> Job]
      /\ rows' = Seen(w) /\ job' = [job EXCEPT ![w] = Idle]
      /\ writer' = IF writer = w THEN None ELSE writer
      /\ UNCHANGED <<today, sessions, files, temps, saves, abandoned, cascaded, cutOff>>
  BY DEF EndPrune, EvidenceInv, EvidenceTypeOK
<1>2. /\ rows' \subseteq rows
      /\ Ids(rows') = Ids(rows) \ job[w].gone
  BY <1>1 DEF Seen, Ids
<1>3. Idle \in Job
  BY DEF Idle, Job, Phases
<1>4. EvidenceTypeOK'
  BY <1>1, <1>3 DEF EvidenceInv, EvidenceTypeOK
<1>5. IdsFresh'
  BY <1>1, <1>2 DEF EvidenceInv, IdsFresh, Saving, Idle
<1>6. RemovalsHeld'
  BY <1>1 DEF EvidenceInv, RemovalsHeld, Pruning, Idle
<1>7. /\ SavesIn("moved")' = SavesIn("moved") /\ SavesIn("moving")' = SavesIn("moving")
      /\ UNION {job[v].gone : v \in Workers} \subseteq
           job[w].gone \cup UNION {job'[v].gone : v \in Workers}
  BY <1>1 DEF SavesIn, Idle
<1>8. job[w].gone \cap files = {}
  BY DEF EvidenceInv, RemovalsHeld
<1>9. FilesMatchRows'
  BY <1>1, <1>2, <1>7, <1>8 DEF EvidenceInv, FilesMatchRows, RowsHaveFiles, FilesExplained
<1> QED
  BY <1>4, <1>5, <1>6, <1>9 DEF EvidenceInv

-----------------------------------------------------------------------------
LEMMA DeleteSessionSafe ==
  ASSUME EvidenceInv, NEW s \in Sessions, DeleteSession(s)
  PROVE  EvidenceInv'
<1>1. /\ sessions' \subseteq sessions /\ rows' \subseteq rows
      /\ cascaded' = cascaded \cup {r.id : r \in rows \ rows'}
      /\ UNCHANGED <<today, files, temps, job, writer, saves, abandoned, cutOff>>
  BY DEF DeleteSession
<1>2. /\ Ids(rows') \subseteq Ids(rows)
      /\ Ids(rows) \subseteq Ids(rows') \cup cascaded'
  BY <1>1 DEF Ids
<1>3. EvidenceTypeOK' /\ RemovalsHeld'
  BY <1>1 DEF EvidenceInv, EvidenceTypeOK, RemovalsHeld
<1>4. IdsFresh'
  BY <1>1, <1>2 DEF EvidenceInv, IdsFresh
<1>5. FilesMatchRows'
  <2>1. \A phase : SavesIn(phase)' = SavesIn(phase)
    BY <1>1 DEF SavesIn
  <2> QED
    BY <1>1, <1>2, <2>1 DEF EvidenceInv, FilesMatchRows, RowsHaveFiles, FilesExplained
<1> QED
  BY <1>3, <1>4, <1>5 DEF EvidenceInv

LEMMA CrashSafe ==
  ASSUME EvidenceInv, NEW p \in Processes, Crash(p)
  PROVE  EvidenceInv'
<1>1. /\ abandoned' = abandoned \cup {job[w].id : w \in {v \in ThreadsOf(p) : job[v].phase # "idle"}}
      /\ cutOff' = cutOff \cup UNION {job[w].gone : w \in ThreadsOf(p)}
      /\ job' = [w \in Workers |-> IF w \in ThreadsOf(p) THEN Idle ELSE job[w]]
      /\ writer' = IF writer \in ThreadsOf(p) THEN None ELSE writer
      /\ UNCHANGED <<today, sessions, rows, files, temps, saves, cascaded>>
  BY DEF Crash
<1>2. ThreadsOf(p) \subseteq Workers /\ Idle \in Job
  BY DEF ThreadsOf, Idle, Job, Phases
<1>3. EvidenceTypeOK'
  BY <1>1, <1>2 DEF EvidenceInv, EvidenceTypeOK
<1>4. IdsFresh'
  BY <1>1 DEF EvidenceInv, IdsFresh, Ids, Saving, Idle
<1>5. RemovalsHeld'
  BY <1>1 DEF EvidenceInv, RemovalsHeld, Pruning, Idle
<1>6. FilesMatchRows'
  <2>1. ASSUME NEW phase, phase # "idle", NEW id \in SavesIn(phase)
        PROVE  id \in abandoned' \/ id \in SavesIn(phase)'
    <3>1. PICK w \in Workers : job[w].phase = phase /\ id = job[w].id
      BY <2>1 DEF SavesIn
    <3> QED
      BY <1>1, <2>1, <3>1 DEF SavesIn
  <2>2. UNION {job[v].gone : v \in Workers} \subseteq
          cutOff' \cup UNION {job'[v].gone : v \in Workers}
    BY <1>1, <1>2
  <2>3. SavesIn("moved") \subseteq abandoned' \cup SavesIn("moved")'
    BY <2>1
  <2>4. SavesIn("moving") \subseteq abandoned' \cup SavesIn("moving")'
    BY <2>1
  <2> QED
    BY <1>1, <2>2, <2>3, <2>4 DEF EvidenceInv, FilesMatchRows, RowsHaveFiles, FilesExplained, Ids
<1> QED
  BY <1>3, <1>4, <1>5, <1>6 DEF EvidenceInv

LEMMA RestSafe ==
  ASSUME EvidenceInv, Day \/ UNCHANGED evidenceVars
  PROVE  EvidenceInv'
<1>1. /\ today' \in Nat
      /\ UNCHANGED <<sessions, rows, files, temps, job, writer, saves, abandoned, cascaded, cutOff>>
  BY DEF EvidenceInv, EvidenceTypeOK, Day, evidenceVars
<1>2. EvidenceTypeOK' /\ IdsFresh' /\ RemovalsHeld'
  BY <1>1 DEF EvidenceInv, EvidenceTypeOK, IdsFresh, RemovalsHeld, Ids
<1>3. \A phase : SavesIn(phase)' = SavesIn(phase)
  BY <1>1 DEF SavesIn
<1>4. FilesMatchRows'
  BY <1>1, <1>3 DEF EvidenceInv, FilesMatchRows, RowsHaveFiles, FilesExplained, Ids
<1> QED
  BY <1>2, <1>4 DEF EvidenceInv

LEMMA EvidenceInvHolds == EvidenceSpec => []EvidenceInv
<1>1. EvidenceInit => EvidenceInv
  <2> SUFFICES ASSUME EvidenceInit PROVE EvidenceInv
    OBVIOUS
  <2>1. Idle \in Job /\ job = [w \in Workers |-> Idle]
    BY DEF EvidenceInit, Idle, Job, Phases
  <2>2. EvidenceTypeOK
    BY <2>1 DEF EvidenceInit, EvidenceTypeOK
  <2>3. IdsFresh /\ RemovalsHeld
    BY <2>1 DEF EvidenceInit, IdsFresh, RemovalsHeld, Idle, Saving, Pruning
  <2>4. FilesMatchRows
    BY DEF EvidenceInit, FilesMatchRows, RowsHaveFiles, FilesExplained, Ids
  <2> QED
    BY <2>2, <2>3, <2>4 DEF EvidenceInv
<1>2. EvidenceInv /\ [EvidenceNext]_evidenceVars => EvidenceInv'
  <2> SUFFICES ASSUME EvidenceInv, [EvidenceNext]_evidenceVars
               PROVE  EvidenceInv'
    OBVIOUS
  <2>1. CASE \E w \in Workers : BeginSave(w) \/ Work(w)
    BY <2>1, BeginSaveSafe, WriteTemporarySafe, MoveIntoPlaceSafe, InsertRowSafe,
       RemoveOneSafe, RemovalFailsSafe, StartTrimSafe, EndPruneSafe DEF Work
  <2>2. CASE \E s \in Sessions : DeleteSession(s)
    BY <2>2, DeleteSessionSafe
  <2>3. CASE \E p \in Processes : Crash(p)
    BY <2>3, CrashSafe
  <2>4. CASE Day \/ UNCHANGED evidenceVars
    BY <2>4, RestSafe
  <2> QED
    BY <2>1, <2>2, <2>3, <2>4 DEF EvidenceNext
<1> QED
  BY <1>1, <1>2, PTL DEF EvidenceSpec

(***************************************************************************)
(* However many threads save and prune side by side, and wherever a lock,  *)
(* a crash or the deletion of a session cuts in: a row has its file unless *)
(* a removal was cut off, and a file without a row is one of the kinds     *)
(* FilesExplained names.                                                   *)
(***************************************************************************)
THEOREM EvidenceMatches == EvidenceSpec => []FilesMatchRows
<1>1. EvidenceInv => FilesMatchRows
  BY DEF EvidenceInv
<1> QED
  BY <1>1, EvidenceInvHolds, PTL

-----------------------------------------------------------------------------
(***************************************************************************)
(* The number of files.  A table beyond its limit has a prune under way    *)
(* that will bring it back: one that has still to look at it, or one whose *)
(* list and removals leave no more rows than the limit.                    *)
(***************************************************************************)
RowsOK ==
  /\ IsFiniteSet(rows)
  /\ \A r \in rows : r.id \in Nat /\ r.at \in Nat
  /\ \A q, r \in rows : q.id = r.id => q = r

Left(w) == {r \in rows : r.id \notin job[w].gone \cup job[w].list}

Restores(w) ==
  \/ job[w].phase = "expiring"
  \/ job[w].phase = "trimming" /\ Cardinality(Left(w)) <= MaxFiles

CapacityOK ==
  /\ RowsOK
  /\ cutOff = {} /\ abandoned = {} =>
       Cardinality(rows) <= MaxFiles \/ \E w \in Workers : Restores(w)

LEMMA LeastOf ==
  ASSUME NEW S \in SUBSET Nat, S # {}
  PROVE  \E x \in S : \A y \in S : x <= y
<1>1. PICK x \in S : \A y \in S : ~ (<<y, x>> \in OpToRel(<, Nat))
  BY NatLessThanWellFounded, WFMin, Zenon
<1>2. \A y \in S : ~ (y < x)
  BY <1>1, Zenon DEF OpToRel
<1> QED
  BY <1>2

(* Among rows with ids of their own, one is older than every other. *)
LEMMA OldestRow ==
  ASSUME NEW rs, rs # {}, \A r \in rs : r.id \in Nat /\ r.at \in Nat,
         \A q, r \in rs : q.id = r.id => q = r
  PROVE  \E r \in rs : rs \ {r} \subseteq Newer(r, rs)
<1> DEFINE times == {r.at : r \in rs}
<1>1. times \in SUBSET Nat /\ times # {}
  OBVIOUS
<1>2. PICK time \in times : \A t \in times : time <= t
  BY <1>1, LeastOf
<1> DEFINE first == {r \in rs : r.at = time}
           ids == {r.id : r \in first}
<1>3. ids \in SUBSET Nat /\ ids # {}
  OBVIOUS
<1>4. PICK id \in ids : \A i \in ids : id <= i
  BY <1>3, LeastOf
<1>5. PICK r \in rs : r.at = time /\ r.id = id
  OBVIOUS
<1>6. ASSUME NEW q \in rs \ {r}
      PROVE  q \in Newer(r, rs)
  <2>1. r.at <= q.at /\ q.id # r.id
    BY <1>2, <1>5, <1>6
  <2>2. q.at = r.at => r.id <= q.id
    <3>1. q.at = r.at => q.id \in ids
      BY <1>5, <1>6
    <3> QED
      BY <1>4, <1>5, <3>1
  <2>3. q.at \in Nat /\ r.at \in Nat /\ q.id \in Nat /\ r.id \in Nat
    BY <1>6
  <2> QED
    BY <2>1, <2>2, <2>3 DEF Newer
<1> QED
  BY <1>6

(* What a trim keeps is within the limit. *)
LEMMA KeptFits ==
  ASSUME NEW rs, IsFiniteSet(rs), \A r \in rs : r.id \in Nat /\ r.at \in Nat,
         \A q, r \in rs : q.id = r.id => q = r
  PROVE  Cardinality(rs \ Surplus(rs)) <= MaxFiles
<1> DEFINE kept == rs \ Surplus(rs)
<1>1. MaxFiles \in Nat \ {0} /\ IsFiniteSet(kept)
  BY EvidenceAssumption, FS_Subset
<1>2. CASE kept = {}
  BY <1>1, <1>2, FS_EmptySet
<1>3. CASE kept # {}
  <2>1. PICK r \in kept : kept \ {r} \subseteq Newer(r, kept)
    BY <1>3, OldestRow
  <2>2. kept \ {r} \subseteq Newer(r, rs) /\ Newer(r, rs) \subseteq rs
    BY <2>1 DEF Newer
  <2>3. /\ IsFiniteSet(Newer(r, rs)) /\ Cardinality(Newer(r, rs)) \in Nat
        /\ Cardinality(kept \ {r}) <= Cardinality(Newer(r, rs))
    BY <2>2, FS_Subset, FS_CardinalityType
  <2>4. ~(Cardinality(Newer(r, rs)) >= MaxFiles)
    BY DEF Surplus
  <2>5. Cardinality(kept \ {r}) = Cardinality(kept) - 1 /\ Cardinality(kept) \in Nat
    BY <1>1, FS_RemoveElement, FS_CardinalityType
  <2> HIDE DEF kept
  <2>6. Cardinality(kept) <= MaxFiles
    BY <1>1, <2>3, <2>4, <2>5
  <2> QED
    BY <2>6 DEF kept
<1> QED
  BY <1>2, <1>3

(* A prune that another worker's step leaves alone, while rows only go. *)
LEMMA RestoringStays ==
  ASSUME RowsOK, rows' \subseteq rows, NEW v \in Workers, Restores(v), job'[v] = job[v]
  PROVE  RowsOK' /\ Cardinality(rows') <= Cardinality(rows) /\ Restores(v)'
<1>1. IsFiniteSet(rows') /\ Cardinality(rows') <= Cardinality(rows)
  BY FS_Subset DEF RowsOK
<1>2. RowsOK'
  BY <1>1 DEF RowsOK
<1>3. Left(v)' \subseteq Left(v) /\ Left(v) \subseteq rows
  BY DEF Left
<1>4. /\ Cardinality(Left(v)') <= Cardinality(Left(v))
      /\ Cardinality(Left(v)') \in Nat /\ Cardinality(Left(v)) \in Nat
  <2>1. IsFiniteSet(Left(v))
    BY <1>3, FS_Subset DEF RowsOK
  <2>2. IsFiniteSet(Left(v)') /\ Cardinality(Left(v)') <= Cardinality(Left(v))
    BY <1>3, <2>1, FS_Subset
  <2> QED
    BY <2>1, <2>2, FS_CardinalityType
<1>5. MaxFiles \in Nat
  BY EvidenceAssumption
<1> QED
  BY <1>1, <1>2, <1>4, <1>5 DEF Restores

LEMMA RowsShrink ==
  ASSUME RowsOK, rows' \subseteq rows
  PROVE  /\ RowsOK' /\ Cardinality(rows') <= Cardinality(rows)
         /\ Cardinality(rows') \in Nat /\ Cardinality(rows) \in Nat
<1>1. IsFiniteSet(rows') /\ Cardinality(rows') <= Cardinality(rows)
  BY FS_Subset DEF RowsOK
<1>2. Cardinality(rows') \in Nat /\ Cardinality(rows) \in Nat
  BY <1>1, FS_CardinalityType DEF RowsOK
<1> QED
  BY <1>1, <1>2 DEF RowsOK

(* A step that removes rows at most, and of the job of one worker takes no
   prune that restores the limit, or makes it none that does not. *)
LEMMA CapacityKept ==
  ASSUME CapacityOK, rows' \subseteq rows, cutOff \subseteq cutOff', abandoned \subseteq abandoned',
         \A v \in Workers : Restores(v) /\ cutOff' = {} /\ abandoned' = {} =>
           job'[v] = job[v] \/ Restores(v)' \/ Cardinality(rows') <= MaxFiles
  PROVE  CapacityOK'
<1>1. /\ RowsOK' /\ Cardinality(rows') <= Cardinality(rows)
      /\ Cardinality(rows') \in Nat /\ Cardinality(rows) \in Nat
  BY RowsShrink DEF CapacityOK
<1>2. MaxFiles \in Nat
  BY EvidenceAssumption
<1>3. ASSUME cutOff' = {}, abandoned' = {}
      PROVE  Cardinality(rows') <= MaxFiles \/ \E w \in Workers : Restores(w)'
  <2>1. Cardinality(rows) <= MaxFiles \/ \E w \in Workers : Restores(w)
    BY <1>3 DEF CapacityOK
  <2>2. ASSUME NEW v \in Workers, Restores(v)
        PROVE  Cardinality(rows') <= MaxFiles \/ Restores(v)'
    BY <1>3, <2>2, RestoringStays DEF CapacityOK
  <2> QED
    BY <1>1, <1>2, <2>1, <2>2
<1> QED
  BY <1>1, <1>3 DEF CapacityOK

(* One worker's step, when its job was no prune that restores the limit. *)
LEMMA CapacityBeside ==
  ASSUME CapacityOK, NEW w \in Workers, ~Restores(w), rows' \subseteq rows,
         \A v \in Workers \ {w} : job'[v] = job[v],
         cutOff \subseteq cutOff', abandoned \subseteq abandoned'
  PROVE  CapacityOK'
BY CapacityKept

LEMMA InsertCapacity ==
  ASSUME EvidenceInv, CapacityOK, NEW w \in Workers, InsertRow(w)
  PROVE  CapacityOK'
<1>1. /\ job[w].phase = "moved" /\ job \in [Workers -> Job] /\ saves \in Nat
      /\ job[w].id \in Nat /\ job[w].at \in Nat /\ job[w].id \notin Ids(rows)
      /\ UNCHANGED <<abandoned, cutOff>>
  BY DEF InsertRow, EvidenceInv, EvidenceTypeOK, IdsFresh, Saving, Job
<1>2. CASE rows' = rows \cup {Row(w)} /\ StartPrune(w, rows')
  <2>1. job'[w].phase = "expiring"
    BY <1>1, <1>2 DEF StartPrune, Job
  <2>2. Row(w).id = job[w].id /\ Row(w).at = job[w].at
    BY DEF Row
  <2>3. IsFiniteSet(rows')
    BY <1>2, FS_AddElement DEF CapacityOK, RowsOK
  <2>4. RowsOK'
    BY <1>1, <1>2, <2>2, <2>3 DEF CapacityOK, RowsOK, Ids
  <2> QED
    BY <2>1, <2>4 DEF CapacityOK, Restores
<1>3. CASE job' = [job EXCEPT ![w] = Idle] /\ rows' = rows
  <2>1. ~Restores(w) /\ \A v \in Workers \ {w} : job'[v] = job[v]
    BY <1>1, <1>3 DEF Restores
  <2> QED
    BY <1>1, <1>3, <2>1, CapacityBeside
<1> QED
  BY <1>2, <1>3 DEF InsertRow

LEMMA RemoveCapacity ==
  ASSUME EvidenceInv, CapacityOK, NEW w \in Workers, RemoveOne(w)
  PROVE  CapacityOK'
<1>1. PICK id \in job[w].list :
        job' = [job EXCEPT ![w].list = @ \ {id}, ![w].gone = @ \cup {id}]
  BY DEF RemoveOne
<1>2. /\ job \in [Workers -> Job] /\ UNCHANGED <<rows, abandoned, cutOff>>
      /\ job[w].phase \in Pruning
  BY DEF RemoveOne, EvidenceInv, EvidenceTypeOK
<1>3. /\ job'[w].phase = job[w].phase
      /\ job'[w].list = job[w].list \ {id} /\ job'[w].gone = job[w].gone \cup {id}
      /\ \A v \in Workers \ {w} : job'[v] = job[v]
  BY <1>1, <1>2 DEF Job
<1>4. Left(w)' = Left(w)
  BY <1>1, <1>2, <1>3 DEF Left
<1>5. Restores(w) => Restores(w)'
  BY <1>3, <1>4 DEF Restores
<1> QED
  BY <1>2, <1>3, <1>5, CapacityKept

LEMMA TrimCapacity ==
  ASSUME EvidenceInv, CapacityOK, NEW w \in Workers, StartTrim(w)
  PROVE  CapacityOK'
<1>1. /\ job \in [Workers -> Job] /\ UNCHANGED <<rows, abandoned, cutOff>>
      /\ job' = [job EXCEPT ![w].phase = "trimming", ![w].list = Ids(Surplus(Seen(w)))]
  BY DEF StartTrim, EvidenceInv, EvidenceTypeOK
<1>2. /\ job'[w].phase = "trimming" /\ job'[w].list = Ids(Surplus(Seen(w)))
      /\ job'[w].gone = job[w].gone
      /\ \A v \in Workers \ {w} : job'[v] = job[v]
  BY <1>1 DEF Job
<1>3. Left(w)' \subseteq Seen(w) \ Surplus(Seen(w))
  BY <1>1, <1>2 DEF Left, Seen, Ids
<1>4. /\ IsFiniteSet(Seen(w)) /\ \A r \in Seen(w) : r.id \in Nat /\ r.at \in Nat
      /\ \A q, r \in Seen(w) : q.id = r.id => q = r
  BY FS_Subset DEF CapacityOK, RowsOK, Seen
<1>5. Cardinality(Seen(w) \ Surplus(Seen(w))) <= MaxFiles
  BY <1>4, KeptFits
<1>6. /\ IsFiniteSet(Seen(w) \ Surplus(Seen(w)))
      /\ Cardinality(Left(w)') <= Cardinality(Seen(w) \ Surplus(Seen(w)))
      /\ Cardinality(Seen(w) \ Surplus(Seen(w))) \in Nat /\ Cardinality(Left(w)') \in Nat
  <2>1. IsFiniteSet(Seen(w) \ Surplus(Seen(w)))
    BY <1>4, FS_Subset
  <2>2. IsFiniteSet(Left(w)') /\ Cardinality(Left(w)') <= Cardinality(Seen(w) \ Surplus(Seen(w)))
    BY <1>3, <2>1, FS_Subset
  <2> QED
    BY <2>1, <2>2, FS_CardinalityType
<1>7. Restores(w)'
  <2>1. MaxFiles \in Nat
    BY EvidenceAssumption
  <2>2. Cardinality(Left(w)') <= MaxFiles
    BY <1>5, <1>6, <2>1
  <2> QED
    BY <1>2, <2>2 DEF Restores
<1> QED
  BY <1>1, <1>2, <1>7, CapacityKept

LEMMA EndCapacity ==
  ASSUME EvidenceInv, CapacityOK, NEW w \in Workers, EndPrune(w)
  PROVE  CapacityOK'
<1>1. /\ job[w].phase = "trimming" /\ job[w].list = {} /\ rows' = Seen(w)
      /\ job' = [job EXCEPT ![w] = Idle] /\ job \in [Workers -> Job]
      /\ UNCHANGED <<abandoned, cutOff>>
  BY DEF EndPrune, EvidenceInv, EvidenceTypeOK
<1>2. Restores(w) => Cardinality(rows') <= MaxFiles
  <2>1. Left(w) = Seen(w)
    BY <1>1 DEF Left, Seen
  <2> QED
    BY <1>1, <2>1 DEF Restores
<1>3. rows' \subseteq rows /\ \A v \in Workers \ {w} : job'[v] = job[v]
  BY <1>1 DEF Seen
<1> QED
  BY <1>1, <1>2, <1>3, CapacityKept

LEMMA CapacityStep ==
  ASSUME EvidenceInv, CapacityOK, [EvidenceNext]_evidenceVars
  PROVE  CapacityOK'
<1>1. ASSUME NEW w \in Workers, BeginSave(w) \/ WriteTemporary(w) \/ MoveIntoPlace(w)
      PROVE  CapacityOK'
  <2>1. /\ UNCHANGED <<rows, abandoned, cutOff>> /\ job[w].phase \in {"idle", "writing", "moving"}
        /\ \A v \in Workers \ {w} : job'[v] = job[v]
    BY <1>1 DEF BeginSave, WriteTemporary, MoveIntoPlace, EvidenceInv, EvidenceTypeOK
  <2>2. ~Restores(w)
    BY <2>1 DEF Restores
  <2> QED
    BY <2>1, <2>2, CapacityBeside
<1>2. ASSUME NEW w \in Workers, RemovalFails(w)
      PROVE  CapacityOK'
  <2>1. cutOff' # {} /\ rows' = rows /\ cutOff \subseteq cutOff' /\ abandoned' = abandoned
    BY <1>2 DEF RemovalFails
  <2> QED
    BY <2>1, CapacityKept
<1>3. ASSUME NEW s \in Sessions, DeleteSession(s)
      PROVE  CapacityOK'
  <2>1. rows' \subseteq rows /\ UNCHANGED <<job, abandoned, cutOff>>
    BY <1>3 DEF DeleteSession
  <2> QED
    BY <2>1, CapacityKept
<1>4. ASSUME NEW p \in Processes, Crash(p)
      PROVE  CapacityOK'
  <2>1. /\ abandoned' = abandoned \cup {job[w].id : w \in {v \in ThreadsOf(p) : job[v].phase # "idle"}}
        /\ cutOff \subseteq cutOff' /\ rows' = rows
        /\ job' = [w \in Workers |-> IF w \in ThreadsOf(p) THEN Idle ELSE job[w]]
    BY <1>4 DEF Crash
  <2>2. \A v \in Workers : Restores(v) /\ abandoned' = {} => job'[v] = job[v]
    BY <2>1 DEF Restores
  <2> QED
    BY <2>1, <2>2, CapacityKept
<1>5. CASE Day \/ UNCHANGED evidenceVars
  <2>1. UNCHANGED <<rows, job, abandoned, cutOff>>
    BY <1>5 DEF Day, evidenceVars
  <2> QED
    BY <2>1, CapacityKept
<1> QED
  BY <1>1, <1>2, <1>3, <1>4, <1>5, InsertCapacity, RemoveCapacity, TrimCapacity, EndCapacity
  DEF EvidenceNext, Work

(* However many saves and prunes run side by side and whichever commits
   first, once they are done and none was cut off the table is back within
   its limit: the last row inserted has a prune behind it that sees it
   (pcap.py: save, prune). *)
THEOREM CapacityIsRestored == EvidenceSpec => []CapacityRestored
<1>1. EvidenceInit => CapacityOK
  <2> SUFFICES ASSUME EvidenceInit PROVE CapacityOK
    OBVIOUS
  <2>1. rows = {} /\ Cardinality(rows) = 0 /\ IsFiniteSet(rows) /\ MaxFiles \in Nat
    BY FS_EmptySet, EvidenceAssumption DEF EvidenceInit
  <2> QED
    BY <2>1 DEF CapacityOK, RowsOK
<1>2. EvidenceInv /\ CapacityOK /\ [EvidenceNext]_evidenceVars => CapacityOK'
  BY CapacityStep
<1>3. CapacityOK => CapacityRestored
  BY DEF CapacityOK, CapacityRestored, Restores
<1> QED
  BY <1>1, <1>2, <1>3, EvidenceInvHolds, PTL DEF EvidenceSpec

-----------------------------------------------------------------------------
(***************************************************************************)
(* The composed collector is a collector of requests and a keeper of       *)
(* evidence at once: each of its steps is a step of one, of the other or   *)
(* of both, so what is proved of the parts holds of the whole, for every   *)
(* workload.                                                               *)
(***************************************************************************)

(* A step of the collector is a step of its requests, or leaves them alone.  *)
LEMMA StepOfRequests ==
  ASSUME offered \subseteq Requests, [Next]_vars
  PROVE  [RequestNext]_requestVars /\ (offered \subseteq Requests)'
<1>1. CASE UNCHANGED vars
  BY <1>1 DEF vars
<1>2. ASSUME NEW w \in Workers, Receive(w)
      PROVE  [RequestNext]_requestVars /\ (offered \subseteq Requests)'
  BY <1>2 DEF Receive, RequestNext
<1>3. ASSUME NEW w \in Workers, Upload(w) \/ Ingest(w) \/ Handle(w)
      PROVE  [RequestNext]_requestVars /\ (offered \subseteq Requests)'
  BY <1>3 DEF Upload, Ingest, Handle, RequestNext
<1>4. ASSUME NEW w \in Workers, \/ Admit(w) \/ Limit(w) \/ EnterQuarantine(w)
                                \/ CheckQuarantine(w) \/ FillQuarantine(w)
      PROVE  [RequestNext]_requestVars /\ (offered \subseteq Requests)'
  BY <1>4 DEF Admit, Limit, EnterQuarantine, CheckQuarantine, FillQuarantine, RequestNext
<1>5. ASSUME NEW w \in Workers, \/ Write(w) \/ Move(w) \/ Insert(w) \/ Remove(w)
                                \/ RemoveLocked(w) \/ Trim(w) \/ Finish(w)
      PROVE  [RequestNext]_requestVars /\ (offered \subseteq Requests)'
  BY <1>5 DEF Write, Move, Insert, Remove, RemoveLocked, Trim, Finish
<1>6. ASSUME NEW p \in Processes, Restart(p)
      PROVE  [RequestNext]_requestVars /\ (offered \subseteq Requests)'
  BY <1>6 DEF Restart, RequestNext
<1>7. ASSUME Second \/ Midnight
      PROVE  [RequestNext]_requestVars /\ (offered \subseteq Requests)'
  BY <1>7 DEF Second, Midnight, RequestNext
<1> QED
  BY <1>1, <1>2, <1>3, <1>4, <1>5, <1>6, <1>7 DEF Next

(* And a step of its evidence files, or leaves those alone.                  *)
LEMMA StepOfEvidence ==
  ASSUME [Next]_vars
  PROVE  [EvidenceNext]_evidenceVars
<1>1. CASE UNCHANGED vars
  BY <1>1 DEF vars
<1>2. ASSUME NEW w \in Workers, Upload(w) \/ Ingest(w)
      PROVE  [EvidenceNext]_evidenceVars
  <2>1. CASE Upload(w)
    BY <2>1 DEF Upload, EvidenceNext
  <2>2. CASE Ingest(w)
    BY <2>2 DEF Ingest, EvidenceNext
  <2> QED
    BY <1>2, <2>1, <2>2
<1>3. ASSUME NEW w \in Workers,
             \/ Receive(w) \/ Handle(w) \/ Admit(w) \/ Limit(w) \/ EnterQuarantine(w)
             \/ CheckQuarantine(w) \/ FillQuarantine(w)
      PROVE  [EvidenceNext]_evidenceVars
  BY <1>3 DEF Receive, Handle, Admit, Limit, EnterQuarantine, CheckQuarantine, FillQuarantine
<1>4. ASSUME NEW w \in Workers, \/ Write(w) \/ Move(w) \/ Insert(w) \/ Remove(w)
                                \/ RemoveLocked(w) \/ Trim(w) \/ Finish(w)
      PROVE  [EvidenceNext]_evidenceVars
  BY <1>4 DEF Write, Move, Insert, Remove, RemoveLocked, Trim, Finish, EvidenceNext, Work
<1>5. ASSUME NEW p \in Processes, Restart(p)
      PROVE  [EvidenceNext]_evidenceVars
  BY <1>5 DEF Restart, EvidenceNext
<1>6. ASSUME Second \/ Midnight
      PROVE  [EvidenceNext]_evidenceVars
  BY <1>6 DEF Second, Midnight, EvidenceNext
<1> QED
  BY <1>1, <1>2, <1>3, <1>4, <1>5, <1>6 DEF Next

(* The composed collector implements the part that authorises and limits     *)
(* requests: a step of the evidence files is a step of it or a stutter.      *)
THEOREM ImplementsRequests == Spec => RequestSpec
<1>1. Init => RequestInit /\ offered \subseteq Requests
  BY WorkloadAssumption DEF Init
<1>2. offered \subseteq Requests /\ [Next]_vars =>
        [RequestNext]_requestVars /\ (offered \subseteq Requests)'
  BY StepOfRequests
<1> QED
  BY <1>1, <1>2, PTL DEF Spec, RequestSpec

(* It implements the evidence files as well: a process that stops cuts off   *)
(* requests and saves in one step.                                           *)
THEOREM ImplementsEvidence == Spec => EvidenceSpec
<1>1. Init => EvidenceInit
  BY DEF Init
<1>2. [Next]_vars => [EvidenceNext]_evidenceVars
  BY StepOfEvidence
<1> QED
  BY <1>1, <1>2, PTL DEF Spec, EvidenceSpec

(* Composed, too, replays stay apart, every window of the limiter keeps its
   limit, the quarantine keeps its limit and lock, and evidence files match
   their rows or are accounted for, within their number once prunes are done:
   uploads and events that push sessions out disturb none of it. *)
THEOREM CollectorKeeps ==
  Spec => [](ReplaysApart /\ RateHeld /\ QuarantineHeld /\ FilesMatchRows /\ CapacityRestored)
<1> QED
  BY ImplementsRequests, ImplementsEvidence, NoReplay, RateIsHeld, QuarantineBounded,
     EvidenceMatches, CapacityIsRestored, PTL
=============================================================================
