-------------------------- MODULE MCHermesDeployer --------------------------
(***************************************************************************)
(* HermesDeployer for TLC: besides Spec, which starts with no agents, the  *)
(* same system started where every agent is already up.                    *)
(***************************************************************************)
EXTENDS HermesDeployer

\* The state after the creation and an undisturbed drive of every agent, in
\* order, each with the two lowest ports that its predecessors left.
Rank(p) == Cardinality({q \in Ports : q < p})

UpPorts(a) == LET before == Cardinality({b \in Agents : b < a})
              IN [api  |-> CHOOSE p \in Ports : Rank(p) = 2 * before,
                  dash |-> CHOOSE p \in Ports : Rank(p) = 2 * before + 1]

RunningInit ==
    /\ row = [a \in Agents |->
                [status |-> "running", secretBlob |-> TRUE, containerId |-> 1,
                 apiPort |-> UpPorts(a).api, dashboardPort |-> UpPorts(a).dash,
                 hermesVersion |-> BaseVersion, target |-> None]]
    /\ alloc = [p \in Ports |->
                  IF \E a \in Agents : p \in {UpPorts(a).api, UpPorts(a).dash}
                  THEN CHOOSE a \in Agents : p \in {UpPorts(a).api, UpPorts(a).dash}
                  ELSE None]
    /\ route = [a \in Agents |-> UpPorts(a).dash]
    /\ box = [a \in Agents |->
                [id |-> 1, state |-> "up", boot |-> 1, api |-> UpPorts(a).api,
                 dash |-> UpPorts(a).dash, image |-> BaseVersion]]
    /\ gen = [a \in Agents |-> 1]
    /\ dies = {} /\ attached = TRUE /\ deaths = 0
    /\ WorkerInit
    /\ ApiInit
    /\ HealthInit
    /\ AllUp

RunningSpec     == RunningInit /\ [][Next]_vars
RunningLiveSpec == RunningSpec /\ Fairness
=============================================================================
