------------------------------- MODULE Worker -------------------------------
(***************************************************************************)
(* The deployer worker (packages/deployer-worker): one process that loops  *)
(* over drainQueue, drainUpdates, drainStops and drainDeletes, and inside  *)
(* them over drive and updateAgent.  Every await of the code that reads or *)
(* writes shared state is an action of its own, so that API calls, the     *)
(* crash watcher and the Docker daemon interleave between any two of them. *)
(***************************************************************************)
EXTENDS Platform

CONSTANTS
    MaxCrashes,   \* bound on exits of the worker process
    MaxReboots    \* bound on reboots of its host

ASSUME WorkerAssumption == MaxCrashes \in Nat /\ MaxReboots \in Nat

VARIABLES
    pc,        \* where the worker's single thread is
    job,       \* the local variables of the function that it is in
    todo,      \* rows of the last findMany that its loop has not reached yet
    crashes,   \* exits of the worker process so far
    reboots    \* reboots of its host so far

workerVars == <<pc, job, todo, crashes, reboots>>
budgets == <<crashes, reboots>>

\* ref is the containerId (drainStops, drainDeletes) or the dashboardPort
\* (reconcileRoutes) that the findMany returned for the row.
Pending == [agent : Agents, ref : IdOrNone]

Labels ==
    {"down", "boot", "reconcile",
     "queue", "claim", "read", "staleBox", "staleRoute", "stalePorts",
     "staleClear", "allocating", "allocApi", "allocDash", "starting",
     "secret", "create", "start", "record", "healthStatus", "health",
     "registering", "addRoute", "running",
     "fail", "cleanBox", "cleanRoute", "cleanPorts",
     "updates", "updateClaim", "updateRead", "updating", "pull", "stopOld",
     "stops", "stopBox", "stopRoute", "stopPorts", "stopClear",
     "deletes", "deleteBox", "deleteRoute", "deletePorts", "deleteRow"}

\* kind   the function the job runs in
\* old    the containerId that was read from the row when the job began
\* api, dash, ctr, routed   the variables of drive that cleanup looks at
\* image  the version it starts;  first  the row had no hermesVersion yet
Job == [kind   : {"idle", "drive", "update", "sweep"},
        agent  : Agents \cup {None},
        old    : IdOrNone,
        api    : PortOrNone,
        dash   : PortOrNone,
        ctr    : IdOrNone,
        routed : BOOLEAN,
        image  : VersionOrNone,
        first  : BOOLEAN]

Idle == [kind |-> "idle", agent |-> None, old |-> None, api |-> None,
         dash |-> None, ctr |-> None, routed |-> FALSE, image |-> None,
         first |-> FALSE]

WorkerTypeOK ==
    /\ pc \in Labels
    /\ job \in Job
    /\ todo \in SUBSET Pending
    /\ crashes \in Nat
    /\ reboots \in Nat

WorkerInit ==
    /\ pc = "queue"
    /\ job = Idle
    /\ todo = {}
    /\ crashes = 0
    /\ reboots = 0

\* Leaving drive or updateAgent, normally or by an exception that
\* drainQueue and drainUpdates catch: the tick goes on with the next drain.
AfterJob == IF job.kind = "drive" THEN "updates" ELSE "stops"

Leave(next) == pc' = next /\ job' = Idle
Goto(next)  == pc' = next /\ UNCHANGED job

\* setStatus in a try block: the row first, then the frame.  The update
\* throws when the row is gone, which lands in the catch.
Announce(status, next) ==
    /\ IF Exists(job.agent)
       THEN SetStatus(job.agent, status) /\ Goto(next)
       ELSE UNCHANGED row /\ Goto("fail")
    /\ UNCHANGED <<alloc, route, docker, todo, budgets>>

-----------------------------------------------------------------------------
(* drainQueue *)

DrainQueueFind ==
    /\ pc = "queue"
    /\ \/ WithStatus("queued") = {} /\ Leave("updates")
       \/ \E a \in Agents :
             /\ Oldest(a, WithStatus("queued"))
             /\ pc' = "claim"
             /\ job' = [Idle EXCEPT !.kind = "drive", !.agent = a]
    /\ UNCHANGED <<platform, todo, budgets>>

DrainQueueClaim ==
    /\ pc = "claim"
    /\ IF row[job.agent].status = "queued"
       THEN SetStatus(job.agent, "allocating_ports") /\ Goto("read")
       ELSE UNCHANGED row /\ Leave("updates")
    /\ UNCHANGED <<alloc, route, docker, todo, budgets>>

-----------------------------------------------------------------------------
(* drive *)

\* Mutant of HasLeftovers: a redeploy never tears down the previous run.
NoLeftovers(r) == r.status = "unborn"

HasLeftovers(r) == r.containerId # None \/ r.apiPort # None \/ r.dashboardPort # None

DriveRead ==
    /\ pc = "read"
    /\ LET r == row[job.agent]
           j == [job EXCEPT !.old = r.containerId, !.image = BaseVersion,
                            !.first = (r.hermesVersion = None)]
       IN IF r.status \in ACTIVE_STATUSES
          THEN /\ job' = j
               /\ pc' = IF HasLeftovers(r) THEN "staleBox" ELSE "allocating"
          ELSE Leave("updates")
    /\ UNCHANGED <<platform, todo, budgets>>

\* "Restart safety": the previous run's container, route and ports go before
\* new ones are allocated.
StaleBox ==
    /\ pc = "staleBox"
    /\ StopAndRemove(job.agent, job.old, dies)
    /\ Goto("staleRoute")
    /\ UNCHANGED <<tables, route, gen, attached, deaths, todo, budgets>>

\* Mutant of StaleRoute: the old route is left to be overwritten later.
StaleRouteKept ==
    /\ pc = "staleRoute"
    /\ Goto("stalePorts")
    /\ UNCHANGED <<platform, todo, budgets>>

StaleRoute ==
    /\ pc = "staleRoute"
    /\ RemoveRoute(job.agent)
    /\ Goto("stalePorts")
    /\ UNCHANGED <<tables, docker, todo, budgets>>

StalePorts ==
    /\ pc = "stalePorts"
    /\ ReleasePort(job.agent)
    /\ Goto("staleClear")
    /\ UNCHANGED <<row, route, docker, todo, budgets>>

\* Outside the try block: a row that is gone throws out of drive.
StaleClear ==
    /\ pc = "staleClear"
    /\ IF Exists(job.agent)
       THEN /\ row' = [row EXCEPT ![job.agent] = Cleared(@)]
            /\ Goto("allocating")
       ELSE UNCHANGED row /\ Leave("updates")
    /\ UNCHANGED <<alloc, route, docker, todo, budgets>>

SetAllocatingPorts == pc = "allocating" /\ Announce("allocating_ports", "allocApi")

\* Mutant of AllocatePort: the first port of the range, whoever has it.
AllocateFirstPort(a, p) ==
    (\A q \in Ports : p <= q) /\ alloc' = [alloc EXCEPT ![p] = a]

\* allocatePort: the port's row is created, or the range is exhausted.
AllocatePort(a, p) == LowestFree(p) /\ alloc' = [alloc EXCEPT ![p] = a]

AllocateApiPort ==
    /\ pc = "allocApi"
    /\ \/ \E p \in Ports : /\ AllocatePort(job.agent, p)
                           /\ pc' = "allocDash"
                           /\ job' = [job EXCEPT !.api = p]
       \/ (\A p \in Ports : ~Free(p)) /\ UNCHANGED alloc /\ Goto("fail")
    /\ UNCHANGED <<row, route, docker, todo, budgets>>

AllocateDashboardPort ==
    /\ pc = "allocDash"
    /\ \/ \E p \in Ports : /\ AllocatePort(job.agent, p)
                           /\ pc' = "starting"
                           /\ job' = [job EXCEPT !.dash = p]
       \/ (\A p \in Ports : ~Free(p)) /\ UNCHANGED alloc /\ Goto("fail")
    /\ UNCHANGED <<row, route, docker, todo, budgets>>

SetStarting == pc = "starting" /\ Announce("starting", "secret")

\* readSecret throws without a blob; then mkdir, prepareDataDir and the
\* config seeding, which can fail on the host (drive only).
ReadSecretAndPrepare ==
    /\ pc = "secret"
    /\ \/ row[job.agent].secretBlob /\ Goto("create")
       \/ ~row[job.agent].secretBlob /\ Goto("fail")
       \/ job.kind = "drive" /\ "prepare" \in Faults /\ Goto("fail")
    /\ UNCHANGED <<platform, todo, budgets>>

-----------------------------------------------------------------------------
(* runContainer, for drive and updateAgent alike *)

NewContainer ==
    [id |-> gen[job.agent] + 1, state |-> "created", boot |-> 0,
     api |-> job.api, dash |-> job.dash, image |-> job.image]

\* createContainer throws on a name that is taken and on a NULL host port.
CreateContainer ==
    /\ pc = "create"
    /\ \/ /\ ~Has(job.agent) /\ job.api # None /\ job.dash # None
          /\ box' = [box EXCEPT ![job.agent] = NewContainer]
          /\ gen' = [gen EXCEPT ![job.agent] = @ + 1]
          /\ Goto("start")
       \/ /\ Has(job.agent) \/ None \in {job.api, job.dash} \/ "create" \in Faults
          /\ UNCHANGED <<box, gen>> /\ Goto("fail")
    /\ UNCHANGED <<tables, route, dies, attached, deaths, todo, budgets>>

\* start() throws on a host port that is bound; the caller then never learns
\* the id of the container that createContainer left behind.
StartContainer ==
    /\ pc = "start"
    /\ \/ /\ Has(job.agent)
          /\ \A p \in BoxPorts(job.agent) : ~Bound(p)
          /\ box' = [box EXCEPT ![job.agent].state = "up",
                                ![job.agent].boot = @ + 1]
          /\ pc' = "record"
          /\ job' = [job EXCEPT !.ctr = box[job.agent].id]
       \/ /\ \/ "start" \in Faults
             \/ \E p \in BoxPorts(job.agent) : Bound(p)
          /\ UNCHANGED box
          /\ Goto("fail")
    /\ UNCHANGED <<tables, route, gen, dies, attached, deaths, todo, budgets>>

\* Mutant of RecordContainer: an update forgets the id of its new container.
RecordDeployOnly ==
    /\ pc = "record"
    /\ IF Exists(job.agent)
       THEN /\ row' = IF job.kind = "drive"
                      THEN [row EXCEPT ![job.agent].containerId = job.ctr,
                              ![job.agent].apiPort = job.api,
                              ![job.agent].dashboardPort = job.dash]
                      ELSE row
            /\ Goto(IF job.kind = "drive" THEN "healthStatus" ELSE "health")
       ELSE UNCHANGED row /\ Goto("fail")
    /\ UNCHANGED <<alloc, route, docker, todo, budgets>>

RecordContainer ==
    /\ pc = "record"
    /\ IF Exists(job.agent)
       THEN /\ row' = [row EXCEPT ![job.agent].containerId = job.ctr,
                         ![job.agent].apiPort =
                             IF job.kind = "drive" THEN job.api ELSE @,
                         ![job.agent].dashboardPort =
                             IF job.kind = "drive" THEN job.dash ELSE @]
            /\ Goto(IF job.kind = "drive" THEN "healthStatus" ELSE "health")
       ELSE UNCHANGED row /\ Goto("fail")
    /\ UNCHANGED <<alloc, route, docker, todo, budgets>>

SetHealthChecking == pc = "healthStatus" /\ Announce("health_checking", "health")

\* waitForHealth asks the port, not the container: whoever listens answers.
Answers(p) == \E b \in Agents : IsUp(b) /\ box[b].api = p

WaitForHealth ==
    /\ pc = "health"
    /\ \/ Answers(job.api) /\ Goto(IF job.kind = "drive" THEN "registering"
                                                         ELSE "running")
       \/ ("health" \in Faults \/ ~Answers(job.api)) /\ Goto("fail")
    /\ UNCHANGED <<platform, todo, budgets>>

SetRegisteringRoute == pc = "registering" /\ Announce("registering_route", "addRoute")

\* Mutant of RegisterRoute: the API port in place of the dashboard port.
RegisterApiRoute ==
    /\ pc = "addRoute"
    /\ AddRoute(job.agent, job.api)
    /\ pc' = "running"
    /\ job' = [job EXCEPT !.routed = TRUE]
    /\ UNCHANGED <<tables, docker, todo, budgets>>

RegisterRoute ==
    /\ pc = "addRoute"
    /\ \/ /\ AddRoute(job.agent, job.dash)
          /\ pc' = "running"
          /\ job' = [job EXCEPT !.routed = TRUE]
       \/ "route" \in Faults /\ UNCHANGED route /\ Goto("fail")
    /\ UNCHANGED <<tables, docker, todo, budgets>>

\* Mutant of ShownVersion: an update leaves the version that was shown.
FirstVersion(r) == IF job.first THEN job.image ELSE r.hermesVersion

\* The version that the row shows once the job is done.  Every version of the
\* model is a release tag; of another tag drive shows nothing.
ShownVersion(r) ==
    IF job.kind = "update" \/ job.first THEN job.image ELSE r.hermesVersion

MarkRunning ==
    /\ pc = "running"
    /\ IF Exists(job.agent)
       THEN /\ row' = [row EXCEPT ![job.agent].status = "running",
                         ![job.agent].hermesVersion = ShownVersion(row[job.agent]),
                         ![job.agent].target =
                             IF job.kind = "update" THEN None ELSE @]
            /\ Leave(AfterJob)
       ELSE UNCHANGED row /\ Goto("fail")
    /\ UNCHANGED <<alloc, route, docker, todo, budgets>>

-----------------------------------------------------------------------------
(* failDeployment and the two cleanups it is given *)

\* Mutant of FailDeployment: cleans up without recording the failure.
FailSilently ==
    /\ pc = "fail"
    /\ IF Exists(job.agent) THEN Goto("cleanBox") ELSE Leave(AfterJob)
    /\ UNCHANGED <<platform, todo, budgets>>

\* The row is written before the cleanup runs, so a row that is gone throws
\* past the cleanup.  A failed update keeps targetHermesVersion.
FailDeployment ==
    /\ pc = "fail"
    /\ IF Exists(job.agent)
       THEN /\ row' = [row EXCEPT ![job.agent] = [Cleared(@) EXCEPT !.status = "failed"]]
            /\ Goto("cleanBox")
       ELSE UNCHANGED row /\ Leave(AfterJob)
    /\ UNCHANGED <<alloc, route, docker, todo, budgets>>

\* Mutant of CleanupTarget: always the container that was replaced.
CleanupReplaced == job.old

\* drive removes the container it started, updateAgent the one it replaced.
CleanupTarget == IF job.kind = "drive" THEN job.ctr ELSE job.old

CleanupBox ==
    /\ pc = "cleanBox"
    /\ IF CleanupTarget # None
       THEN StopAndRemove(job.agent, CleanupTarget, dies)
       ELSE UNCHANGED <<box, dies>>
    /\ IF job.kind = "drive" THEN Goto("cleanRoute") ELSE Leave("stops")
    /\ UNCHANGED <<tables, route, gen, attached, deaths, todo, budgets>>

CleanupRoute ==
    /\ pc = "cleanRoute"
    /\ IF job.routed THEN RemoveRoute(job.agent) ELSE UNCHANGED route
    /\ Goto("cleanPorts")
    /\ UNCHANGED <<tables, docker, todo, budgets>>

CleanupPorts ==
    /\ pc = "cleanPorts"
    /\ IF job.api # None \/ job.dash # None
       THEN ReleasePort(job.agent) ELSE UNCHANGED alloc
    /\ Leave("updates")
    /\ UNCHANGED <<row, route, docker, todo, budgets>>

-----------------------------------------------------------------------------
(* drainUpdates and updateAgent; runContainer, waitForHealth, the row update *)
(* and failDeployment are the actions above.                                 *)

Updatable == {a \in WithStatus("updating") : row[a].target # None}

DrainUpdatesFind ==
    /\ pc = "updates"
    /\ \/ Updatable = {} /\ Leave("stops")
       \/ \E a \in Agents :
             /\ Oldest(a, Updatable)
             /\ pc' = "updateClaim"
             /\ job' = [Idle EXCEPT !.kind = "update", !.agent = a]
    /\ UNCHANGED <<platform, todo, budgets>>

\* updateMany writes the status it finds: a claim that changes nothing.
DrainUpdatesClaim ==
    /\ pc = "updateClaim"
    /\ IF job.agent \in Updatable THEN Goto("updateRead") ELSE Leave("stops")
    /\ UNCHANGED <<platform, todo, budgets>>

\* A row that is claimed has a target, and only updateAgent clears it, so the
\* "no target version set" branch has no action here.
UpdateRead ==
    /\ pc = "updateRead"
    /\ LET r == row[job.agent]
       IN IF r.status = "updating"
          THEN /\ pc' = "updating"
               /\ job' = [job EXCEPT !.old = r.containerId, !.api = r.apiPort,
                            !.dash = r.dashboardPort, !.image = r.target]
          ELSE Leave("stops")
    /\ UNCHANGED <<platform, todo, budgets>>

SetUpdating == pc = "updating" /\ Announce("updating", "pull")

\* pullImage and the check that the data directory is still there.
PullImage ==
    /\ pc = "pull"
    /\ \/ Goto("stopOld")
       \/ "pull" \in Faults /\ Goto("fail")
    /\ UNCHANGED <<platform, todo, budgets>>

StopOldContainer ==
    /\ pc = "stopOld"
    /\ IF job.old # None
       THEN StopAndRemove(job.agent, job.old, dies)
       ELSE UNCHANGED <<box, dies>>
    /\ Goto("secret")
    /\ UNCHANGED <<tables, route, gen, attached, deaths, todo, budgets>>

-----------------------------------------------------------------------------
(* drainStops *)

Sweep(t, next) ==
    /\ todo' = todo \ {t}
    /\ pc' = next
    /\ job' = [Idle EXCEPT !.kind = "sweep", !.agent = t.agent, !.old = t.ref]

Stopped == {a \in WithStatus("stopped") : row[a].containerId # None}

DrainStopsFind ==
    /\ pc = "stops"
    /\ todo' = {[agent |-> a, ref |-> row[a].containerId] : a \in Stopped}
    /\ Leave(IF Stopped = {} THEN "deletes" ELSE "stopBox")
    /\ UNCHANGED <<platform, budgets>>

\* Mutant of StopsBox: goes on without stopping the container.
StopsBoxForgotten ==
    /\ pc = "stopBox"
    /\ \E t \in todo : Sweep(t, "stopRoute")
    /\ UNCHANGED <<platform, budgets>>

\* The loop body; findMany promises no order.
StopsBox ==
    /\ pc = "stopBox"
    /\ \E t \in todo :
          /\ StopAndRemove(t.agent, t.ref, dies)
          /\ Sweep(t, "stopRoute")
    /\ UNCHANGED <<tables, route, gen, attached, deaths, budgets>>

StopsRoute ==
    /\ pc = "stopRoute"
    /\ RemoveRoute(job.agent)
    /\ Goto("stopPorts")
    /\ UNCHANGED <<tables, docker, todo, budgets>>

StopsPorts ==
    /\ pc = "stopPorts"
    /\ ReleasePort(job.agent)
    /\ Goto("stopClear")
    /\ UNCHANGED <<row, route, docker, todo, budgets>>

\* Mutants of StopsClear: one clears the port columns only, the other waits
\* for a row that is gone.
StopsClearPorts ==
    /\ pc = "stopClear"
    /\ row' = IF Exists(job.agent)
              THEN [row EXCEPT ![job.agent].apiPort = None,
                               ![job.agent].dashboardPort = None]
              ELSE row
    /\ Leave(IF todo = {} THEN "deletes" ELSE "stopBox")
    /\ UNCHANGED <<alloc, route, docker, todo, budgets>>

StopsClearInsists ==
    /\ pc = "stopClear"
    /\ IF Exists(job.agent)
       THEN /\ row' = [row EXCEPT ![job.agent] = Cleared(@)]
            /\ Leave(IF todo = {} THEN "deletes" ELSE "stopBox")
       ELSE UNCHANGED <<row, pc, job>>
    /\ UNCHANGED <<alloc, route, docker, todo, budgets>>

\* The columns are cleared whatever failed before; a row that is gone throws
\* into the catch, which goes on with the next row.
StopsClear ==
    /\ pc = "stopClear"
    /\ IF Exists(job.agent)
       THEN row' = [row EXCEPT ![job.agent] = Cleared(@)]
       ELSE UNCHANGED row
    /\ Leave(IF todo = {} THEN "deletes" ELSE "stopBox")
    /\ UNCHANGED <<alloc, route, docker, todo, budgets>>

-----------------------------------------------------------------------------
(* drainDeletes *)

DrainDeletesFind ==
    /\ pc = "deletes"
    /\ LET D == WithStatus("deleting")
       IN /\ todo' = {[agent |-> a, ref |-> row[a].containerId] : a \in D}
          /\ Leave(IF D = {} THEN "queue" ELSE "deleteBox")
    /\ UNCHANGED <<platform, budgets>>

DeletesBox ==
    /\ pc = "deleteBox"
    /\ \E t \in todo :
          /\ IF t.ref # None
             THEN StopAndRemove(t.agent, t.ref, dies)
             ELSE UNCHANGED <<box, dies>>
          /\ Sweep(t, "deleteRoute")
    /\ UNCHANGED <<tables, route, gen, attached, deaths, budgets>>

DeletesRoute ==
    /\ pc = "deleteRoute"
    /\ RemoveRoute(job.agent)
    /\ Goto("deletePorts")
    /\ UNCHANGED <<tables, docker, todo, budgets>>

DeletesPorts ==
    /\ pc = "deletePorts"
    /\ ReleasePort(job.agent)
    /\ Goto("deleteRow")
    /\ UNCHANGED <<row, route, docker, todo, budgets>>

GoneRow == [UnbornRow EXCEPT !.status = "gone"]

\* Mutant of DeletesRow: the row stays for the next tick.
DeletesRowNever ==
    /\ pc = "deleteRow"
    /\ Leave(IF todo = {} THEN "queue" ELSE "deleteBox")
    /\ UNCHANGED <<platform, todo, budgets>>

\* delete by id alone: whatever the API wrote to the row since is lost.
DeletesRow ==
    /\ pc = "deleteRow"
    /\ row' = IF Exists(job.agent)
              THEN [row EXCEPT ![job.agent] = GoneRow] ELSE row
    /\ Leave(IF todo = {} THEN "queue" ELSE "deleteBox")
    /\ UNCHANGED <<alloc, route, docker, todo, budgets>>

-----------------------------------------------------------------------------
(* main: start-up, and the ends of the process *)

\* Events that occur while nobody listens, and handlers that were running in
\* the process, are lost.
ProcessEnds ==
    /\ pc' = "down"
    /\ job' = Idle
    /\ todo' = {}
    /\ dies' = {}
    /\ attached' = FALSE

WorkerCrash ==
    /\ pc # "down"
    /\ crashes < MaxCrashes
    /\ crashes' = crashes + 1
    /\ ProcessEnds
    /\ UNCHANGED <<tables, route, box, gen, deaths, reboots>>

\* Caddy reloads its static Caddyfile; the injected routes are gone.
HostReboot ==
    /\ reboots < MaxReboots
    /\ reboots' = reboots + 1
    /\ ProcessEnds
    /\ route' = [a \in Agents |-> None]
    /\ box' = [a \in Agents |-> BoxAfterReboot(box[a])]
    /\ UNCHANGED <<tables, gen, deaths, crashes>>

WorkerBoot == pc = "down" /\ Goto("boot") /\ UNCHANGED <<platform, todo, budgets>>

\* Mutant of Reconcilable: start-up restores no route.
NoneReconcilable == {}

Reconcilable ==
    {a \in WithStatus("running") :
        row[a].containerId # None /\ row[a].dashboardPort # None}

ReconcileFind ==
    /\ pc = "boot"
    /\ todo' = {[agent |-> a, ref |-> row[a].dashboardPort] : a \in Reconcilable}
    /\ Goto("reconcile")
    /\ UNCHANGED <<platform, budgets>>

ReconcileRoute ==
    /\ pc = "reconcile"
    /\ \E t \in todo :
          /\ \/ AddRoute(t.agent, t.ref)
             \/ "route" \in Faults /\ UNCHANGED route
          /\ todo' = todo \ {t}
    /\ UNCHANGED <<tables, docker, pc, job, budgets>>

\* watchCrashes attaches, then the tick loop starts.
MainLoopStarts ==
    /\ pc = "reconcile"
    /\ todo = {}
    /\ attached' = TRUE
    /\ Goto("queue")
    /\ UNCHANGED <<tables, route, box, gen, dies, deaths, todo, budgets>>

-----------------------------------------------------------------------------

DriveStep ==
    \/ DriveRead \/ StaleBox \/ StaleRoute \/ StalePorts \/ StaleClear
    \/ SetAllocatingPorts \/ AllocateApiPort \/ AllocateDashboardPort
    \/ SetStarting \/ ReadSecretAndPrepare
    \/ CreateContainer \/ StartContainer \/ RecordContainer
    \/ SetHealthChecking \/ WaitForHealth
    \/ SetRegisteringRoute \/ RegisterRoute \/ MarkRunning
    \/ FailDeployment \/ CleanupBox \/ CleanupRoute \/ CleanupPorts

DrainStep ==
    \/ DrainQueueFind \/ DrainQueueClaim
    \/ DrainUpdatesFind \/ DrainUpdatesClaim
    \/ UpdateRead \/ SetUpdating \/ PullImage \/ StopOldContainer
    \/ DrainStopsFind \/ StopsBox \/ StopsRoute \/ StopsPorts \/ StopsClear
    \/ DrainDeletesFind \/ DeletesBox \/ DeletesRoute \/ DeletesPorts \/ DeletesRow

BootStep == WorkerBoot \/ ReconcileFind \/ ReconcileRoute \/ MainLoopStarts

\* What the worker does by itself, and what befalls it.
WorkerStep  == DriveStep \/ DrainStep \/ BootStep
Interruption == WorkerCrash \/ HostReboot
=============================================================================
