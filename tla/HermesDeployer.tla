--------------------------- MODULE HermesDeployer ---------------------------
(***************************************************************************)
(* The whole control plane: the API sets intent on the Agent row, the      *)
(* worker turns intent into containers, ports and routes, the crash        *)
(* watcher reacts to the daemon's die events, and the daemon, the worker   *)
(* process and the host fail.  The properties relate what the tables say   *)
(* to what Docker and Caddy do.                                            *)
(***************************************************************************)
EXTENDS Worker, ControlApi, CrashWatcher, HealthLoop

CONSTANTS
    WatcherKeepsUp,   \* a timing assumption, see Timely
    HealthLoopOn      \* whether a run includes the health loop

ASSUME HermesDeployerAssumption ==
    WatcherKeepsUp \in BOOLEAN /\ HealthLoopOn \in BOOLEAN

vars == <<platform, workerVars, apiVars, healthVars>>

Init == PlatformInit /\ WorkerInit /\ ApiInit /\ HealthInit

\* A health check lasts seconds, the crash watcher reads the status of a die
\* event within milliseconds.  With WatcherKeepsUp a health check does not
\* return while an event that the agent's teardown caused is still unread;
\* without it the event stream may lag for as long as it likes.
Timely ==
    WatcherKeepsUp /\ pc = "health"
        => \A d \in dies : d.agent = job.agent => d.at # "event"

\* A crash or a reboot also ends the health loop and empties its counters.
Interrupted ==
    Interruption /\ failCounts' = NoFailures /\ probes' = {}

Next ==
    \/ WorkerStep  /\ Timely /\ UNCHANGED <<apiVars, healthVars>>
    \/ Interrupted /\ UNCHANGED apiVars
    \/ WatcherStep /\ UNCHANGED <<workerVars, apiVars, healthVars>>
    \/ DaemonStep  /\ UNCHANGED <<workerVars, apiVars, healthVars>>
    \/ ApiStep     /\ UNCHANGED <<workerVars, healthVars>>
    \/ HealthLoopOn /\ attached /\ HealthStep /\ UNCHANGED <<workerVars, apiVars>>

\* The worker's loops and the handlers of its process go on: every external
\* call has a deadline, and the service manager starts the process again when
\* it has exited.  The web application finishes the requests it accepted.
\* Nothing obliges an owner to ask, the daemon to act or a fault to occur.
Fairness ==
    /\ WF_vars(WorkerStep /\ Timely /\ UNCHANGED <<apiVars, healthVars>>)
    /\ WF_vars(WatcherStep /\ UNCHANGED <<workerVars, apiVars, healthVars>>)
    /\ WF_vars(FinishCall /\ UNCHANGED <<workerVars, healthVars>>)
    /\ WF_vars(HealthLoopOn /\ attached /\ HealthStep
                 /\ UNCHANGED <<workerVars, apiVars>>)

Spec     == Init /\ [][Next]_vars
LiveSpec == Spec /\ Fairness

-----------------------------------------------------------------------------
(* What the properties are about *)

\* The worker is between the steps of a function that handles this agent.
Handling(a) == job.agent = a

\* Nothing is left to do: no request, event, probe or handler is under way,
\* and a tick of the worker would find no row to act on.
Quiet ==
    /\ pc = "queue"
    /\ calls = {} /\ dies = {} /\ probes = {}
    /\ WithStatus("queued") = {} /\ WithStatus("deleting") = {}
    /\ Updatable = {} /\ Stopped = {}

\* The agent uses nothing of the host: no container, port or route.
Clean(a) == ~Has(a) /\ OwnedBy(a) = {} /\ route[a] = None

\* The row tells the truth about the container, the ports and the route.
Served(a) ==
    /\ IsUp(a) /\ box[a].id = row[a].containerId
    /\ box[a].api = row[a].apiPort /\ box[a].dash = row[a].dashboardPort
    /\ OwnedBy(a) = BoxPorts(a)
    /\ route[a] = box[a].dash

\* Every agent has been deployed and nothing has happened to it since: where
\* the behaviours begin that are about agents already up.
AllUp ==
    /\ PlatformTypeOK
    /\ \A a \in Agents :
          /\ row[a].status = "running"
          /\ Served(a)
          /\ row[a].hermesVersion = box[a].image
    /\ dies = {} /\ attached
    /\ WorkerInit /\ ApiInit /\ HealthInit

UpSpec == AllUp /\ [][Next]_vars

-----------------------------------------------------------------------------
(* Safety *)

\* The tables, Docker, Caddy and the processes hold values of their types.
TypeOK == PlatformTypeOK /\ WorkerTypeOK /\ ApiTypeOK /\ HealthTypeOK

\* Whenever the worker has left drive (lifecycle.ts), by whichever return or
\* throw, every container is one that its row names: a container that no row
\* names could never be stopped again.
NoStrayContainer ==
    \A a \in Agents :
        Has(a) => Handling(a) \/ IsBox(a, row[a].containerId)

\* The two tables agree: between two jobs an agent owns exactly the ports
\* that its row names, however its deployments ended (ports.ts, lifecycle.ts).
PortsAccounted ==
    \A a \in Agents :
        Handling(a) \/ OwnedBy(a) = {row[a].apiPort, row[a].dashboardPort} \ {None}

\* A `running` row is served: its container is up on the row's own ports,
\* the ports are its own, and the public route leads to its dashboard.
RunningIsServed ==
    \A a \in WithStatus("running") : Handling(a) \/ Served(a)

\* After start-up, which restores the routes that Caddy dropped (main.ts,
\* reconcileRoutes), every `running` row is routed to its dashboard port.
RunningIsRouted ==
    \A a \in WithStatus("running") :
        \/ pc \in {"down", "boot", "reconcile"} \/ Handling(a)
        \/ route[a] = row[a].dashboardPort

\* "everything created so far is torn down": once the dust has settled, a
\* failed agent uses nothing of the host (lifecycle.ts, failDeployment).
FailedIsClean == Quiet => \A a \in WithStatus("failed") : Clean(a)

\* The same of a stopped agent, in whatever state the stop found it
\* (main.ts, drainStops).
StoppedIsClean == Quiet => \A a \in WithStatus("stopped") : Clean(a)

\* The same of an agent whose row was deleted, by the API itself or by
\* drainDeletes: nobody would ever look for what is left.
GoneIsClean == Quiet => \A a \in WithStatus("gone") : Clean(a)

\* A crashed agent keeps neither its container nor its ports (crash.ts).
CrashedIsSwept ==
    Quiet => \A a \in WithStatus("crashed") : ~Has(a) /\ OwnedBy(a) = {}

\* An agent's public host never leads to another agent's container, not even
\* while ports change hands between two of the worker's steps.
RouteLeadsHome ==
    \A a, b \in Agents :
        a # b /\ route[a] # None /\ IsUp(b) => route[a] \notin BoxPorts(b)

\* As long as a container is up, the ports it binds are not up for grabs:
\* every teardown stops the container before it releases the ports.
UpBoxHoldsPorts ==
    \A a \in Agents : IsUp(a) => BoxPorts(a) \subseteq OwnedBy(a)

\* The version that the dashboard shows for a running agent is the version
\* of the image that its container runs (lifecycle.ts, hermesVersion).
VersionShown ==
    \A a \in WithStatus("running") :
        Handling(a) \/ (Has(a) => row[a].hermesVersion = box[a].image)

\* "agent must be running to update": a row that is being updated has a
\* container to replace (update/route.ts).
UpdatesHaveContainer ==
    \A a \in WithStatus("updating") : row[a].containerId # None

-----------------------------------------------------------------------------
(* Action properties *)

\* A deleted agent is gone for good: no handler that read the row before it
\* was deleted writes it back.
GoneStaysGone ==
    [][\A a \in Agents : row[a].status = "gone" => row'[a] = row[a]]_row

\* "the crash watcher must not mark these as crashed because a new container
\* is about to replace the old one" (crash.ts).
RedeployNotCrashed ==
    [][\A a \in Agents : row[a].status \in Pipeline \cup {"queued"}
                            => row'[a].status # "crashed"]_row

\* The table PortAllocation keeps its contract under everything that the
\* system does, faults and crashes included.
Pool == INSTANCE PortPool WITH owner <- alloc

PoolSpec == Pool!Spec

-----------------------------------------------------------------------------
(* Liveness *)

InDeploy == Pipeline \cup {"queued"}

\* A deployment that the worker took up, or is to take up, comes to an end:
\* the row leaves the pipeline.
DeploySettles ==
    \A a \in Agents : row[a].status \in InDeploy ~> row[a].status \notin InDeploy

\* drainStops lets go of every row in the end, whatever fails in between:
\* "one failure doesn't trap the row in drainStops forever" (main.ts).
StopDrains == \A a \in Agents : a \in Stopped ~> a \notin Stopped

\* The same of drainDeletes.
DeleteDrains ==
    \A a \in Agents : row[a].status = "deleting" ~> row[a].status # "deleting"

\* The same of drainUpdates: an update succeeds or fails, it is not retried
\* for ever.
UpdateSettles == \A a \in Agents : a \in Updatable ~> a \notin Updatable

\* No row and no failure wedges the worker: it starts its next tick.
TicksGoOn == []<>(pc = "queue")

\* Between them the crash watcher and the health loop notice a dead container,
\* also one whose die event was lost while the worker was down.
DeadIsNoticed ==
    \A a \in Agents :
        row[a].status = "running" /\ ~IsUp(a)
            ~> row[a].status # "running" \/ IsUp(a)

\* "A successful probe resets the counter and recovers an `unhealthy` row": a
\* verdict that is out of date when it is written, since the container that
\* failed the probes has been restarted or replaced meanwhile, does not last,
\* nor does one that a later success contradicts (health.ts).
FalseAlarmEnds ==
    \A a \in Agents :
        row[a].status = "unhealthy" /\ IsUp(a)
            ~> row[a].status # "unhealthy" \/ ~IsUp(a)

\* "See a stopped row? Tear its container down": a stop that nobody takes
\* back takes effect (ARCHITECTURE.md).
StopSticks ==
    \A a \in Agents :
        row[a].status = "stopped" ~> (row[a].status = "stopped" /\ ~Has(a))

\* A new agent that meets no fault is deployed.
NewAgentRuns ==
    \A a \in Agents : row[a].status = "queued" ~> row[a].status = "running"
=============================================================================
