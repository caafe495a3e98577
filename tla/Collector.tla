------------------------------ MODULE Collector ------------------------------
(***************************************************************************)
(* The collector's requests and the evidence files they work on (app.py).  *)
(* Threads of processes that share a database and two directories answer   *)
(* sensors and operators: an operator's request may upload PCAP evidence,  *)
(* an event may push a session out of the store.  What the processes are   *)
(* asked is chosen once, so that unrelated workloads do not multiply.      *)
(***************************************************************************)
EXTENDS SensorRequests, EvidenceFiles

CONSTANT Workloads    \* sets of requests

ASSUME WorkloadAssumption == Workloads \subseteq SUBSET Requests

VARIABLE offered      \* the workload of this behaviour

vars == <<requestVars, evidenceVars, offered>>

Init ==
  /\ RequestInit
  /\ EvidenceInit
  /\ offered \in Workloads

Receive(w) ==
  /\ job[w].phase = "idle"
  /\ \E r \in offered : Arrive(w, r)
  /\ UNCHANGED <<evidenceVars, offered>>

(* upload_pcap_evidence, capture_pcap_evidence: the thread goes on to save.  *)
Upload(w) ==
  /\ serving[w].phase = "handling"
  /\ serving[w].request.kind = "operator"
  /\ BeginSave(w)
  /\ Answer(w)
  /\ UNCHANGED offered

(* ingest_event: storing the event may push the oldest session out.          *)
Ingest(w) ==
  /\ serving[w].phase = "handling"
  /\ serving[w].request.kind = "event"
  /\ \E s \in Sessions : DeleteSession(s)
  /\ Answer(w)
  /\ UNCHANGED offered

Admit(w) == Reserve(w) /\ UNCHANGED <<evidenceVars, offered>>
Limit(w) == Allow(w) /\ UNCHANGED <<evidenceVars, offered>>
Handle(w) == Answer(w) /\ UNCHANGED <<evidenceVars, offered>>
EnterQuarantine(w) == Lock(w) /\ UNCHANGED <<evidenceVars, offered>>
CheckQuarantine(w) == CountFiles(w) /\ UNCHANGED <<evidenceVars, offered>>
FillQuarantine(w) == StoreArtifact(w) /\ UNCHANGED <<evidenceVars, offered>>
Write(w) == WriteTemporary(w) /\ UNCHANGED <<requestVars, offered>>
Move(w) == MoveIntoPlace(w) /\ UNCHANGED <<requestVars, offered>>
Insert(w) == InsertRow(w) /\ UNCHANGED <<requestVars, offered>>
Remove(w) == RemoveOne(w) /\ UNCHANGED <<requestVars, offered>>
RemoveLocked(w) == RemovalFails(w) /\ UNCHANGED <<requestVars, offered>>
Trim(w) == StartTrim(w) /\ UNCHANGED <<requestVars, offered>>
Finish(w) == EndPrune(w) /\ UNCHANGED <<requestVars, offered>>

(* One restart for the requests and the evidence of a process.               *)
Restart(p) ==
  /\ Stop(p)
  /\ Crash(p)
  /\ UNCHANGED offered

Second == Tick /\ UNCHANGED <<evidenceVars, offered>>
Midnight == Day /\ UNCHANGED <<requestVars, offered>>

Next ==
  \/ \E w \in Workers :
       \/ Receive(w) \/ Upload(w) \/ Ingest(w) \/ Admit(w) \/ Limit(w) \/ Handle(w)
       \/ EnterQuarantine(w) \/ CheckQuarantine(w) \/ FillQuarantine(w)
       \/ Write(w) \/ Move(w) \/ Insert(w) \/ Remove(w) \/ RemoveLocked(w) \/ Trim(w) \/ Finish(w)
  \/ \E p \in Processes : Restart(p)
  \/ Second \/ Midnight

Spec == Init /\ [][Next]_vars

=============================================================================
