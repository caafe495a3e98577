---------------------------- MODULE MCCollector -----------------------------
(* The collector with two threads: workloads of sensors in one process, and *)
(* of operators that upload while events push sessions out.                 *)
EXTENDS Collector, TLC

CONSTANTS w1, w2, p1

MCHome == [w \in Workers |-> p1]

SensorRequest(kind, nonce, signed, key) ==
  [kind |-> kind, sensor |-> "a", nonce |-> nonce, signed |-> signed, key |-> key,
   from |-> "lan", secret |-> "old", intact |-> TRUE]

Artifact == SensorRequest("artifact", 1, 1, "quarantine")
Heartbeat == SensorRequest("event", 2, 0, "ingest")
Operator == [kind |-> "operator", key |-> "operator", from |-> "desk", secret |-> "op"]

Forged == {[Heartbeat EXCEPT !.intact = FALSE], [Heartbeat EXCEPT !.from = "desk"],
           [Heartbeat EXCEPT !.secret = "op"], [Operator EXCEPT !.from = "lan"],
           [Operator EXCEPT !.secret = "old"]}

MCRequests == {Artifact, Heartbeat, Operator} \cup Forged
MCWorkloads == {{Artifact, Heartbeat}, {Operator}, {Heartbeat, Operator} \cup Forged}

MCOneSensor == {{Heartbeat}}

MCSensorSecrets == [s \in {"a"} |-> {"old", "new"}]
MCSensorSources == [s \in {"a"} |-> {"lan"}]
MCOperatorNames == [k \in {"op"} |-> {"analyst"}]

Symmetric == Permutations({w1, w2})
=============================================================================
