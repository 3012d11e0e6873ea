----------------------------- MODULE HealthLoop -----------------------------
(***************************************************************************)
(* The periodic liveness probe (packages/deployer-worker/src/health.ts).   *)
(* probeAll probes a snapshot of the rows; each probe's verdict meets the  *)
(* row that is there by then, so the row updates are conditional.  A round *)
(* starts when the previous one is over: the interval is at least five     *)
(* seconds, a probe's deadline two.                                        *)
(***************************************************************************)
EXTENDS Platform

CONSTANT healthProbeFailThreshold   \* config.healthProbeFailThreshold

ASSUME HealthLoopAssumption == healthProbeFailThreshold \in Nat \ {0}

VARIABLES
    failCounts,   \* consecutive failures per agent, kept in process memory;
                  \* counting stops at the threshold, which changes nothing
    probes        \* targets of this round that are not settled yet

healthVars == <<failCounts, probes>>

Probe == [agent : Agents, port : Ports, status : {"running", "unhealthy"},
          at : {"probe", "markUnhealthy", "recover"}]

HealthTypeOK ==
    /\ failCounts \in [Agents -> 0 .. healthProbeFailThreshold]
    /\ probes \in SUBSET Probe

NoFailures == [a \in Agents |-> 0]

HealthInit ==
    /\ failCounts = NoFailures
    /\ probes = {}

\* Mutant of Probed: an agent that was marked unhealthy is given up.
ProbedRunning == {a \in WithStatus("running") : row[a].apiPort # None}

Probed == {a \in WithStatus("running") \cup WithStatus("unhealthy") :
              row[a].apiPort # None}

ProbeAllFind ==
    /\ probes = {}
    /\ Probed # {}
    /\ probes' = {[agent |-> a, port |-> row[a].apiPort,
                   status |-> row[a].status, at |-> "probe"] : a \in Probed}
    /\ UNCHANGED <<row, failCounts>>

Settle(t)     == probes' = probes \ {t}
GoOn(t, next) == probes' = (probes \ {t}) \cup {[t EXCEPT !.at = next]}

\* GET /health answered 200: the counter goes, an unhealthy row recovers.
ProbeSucceeds(t) ==
    /\ t.at = "probe"
    /\ \E b \in Agents : IsUp(b) /\ box[b].api = t.port
    /\ failCounts' = [failCounts EXCEPT ![t.agent] = 0]
    /\ IF t.status = "unhealthy" THEN GoOn(t, "recover") ELSE Settle(t)
    /\ UNCHANGED row

\* Mutant of Counted: failures are not counted.
Uncounted(n) == n

Counted(n) == IF n < healthProbeFailThreshold THEN n + 1 ELSE n

ProbeFails(t) ==
    /\ t.at = "probe"
    /\ "health" \in Faults \/ ~(\E b \in Agents : IsUp(b) /\ box[b].api = t.port)
    /\ failCounts' = [failCounts EXCEPT ![t.agent] = Counted(@)]
    /\ IF Counted(failCounts[t.agent]) = healthProbeFailThreshold
             /\ t.status = "running"
       THEN GoOn(t, "markUnhealthy") ELSE Settle(t)
    /\ UNCHANGED row

\* updateMany ... where status = from: nothing happens to any other row.
Toggle(a, from, to) ==
    IF row[a].status = from THEN SetStatus(a, to) ELSE UNCHANGED row

MarkUnhealthy(t) ==
    /\ t.at = "markUnhealthy"
    /\ Toggle(t.agent, "running", "unhealthy")
    /\ Settle(t)
    /\ UNCHANGED failCounts

Recover(t) ==
    /\ t.at = "recover"
    /\ Toggle(t.agent, "unhealthy", "running")
    /\ Settle(t)
    /\ UNCHANGED failCounts

HealthStep ==
    /\ \/ ProbeAllFind
       \/ \E t \in probes : \/ ProbeSucceeds(t) \/ ProbeFails(t)
                            \/ MarkUnhealthy(t) \/ Recover(t)
    /\ UNCHANGED <<alloc, route, docker>>
=============================================================================
