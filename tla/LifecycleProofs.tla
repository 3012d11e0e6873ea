-------------------------- MODULE LifecycleProofs --------------------------
(***************************************************************************)
(* What becomes of agents once they are up: their routes across exits of   *)
(* the worker and reboots of its host, what stops, deletions and crashes   *)
(* leave behind, and what an update makes of a running agent, for every    *)
(* number of agents, any port range and any number of deaths and requests. *)
(***************************************************************************)
EXTENDS HermesDeployerProofs

-----------------------------------------------------------------------------
(* Routes, whatever ends: the conditions.  Nobody asks for an update and    *)
(* Caddy accepts new routes; while the health loop runs, the host does not  *)
(* reboot.  Containers may die, the worker may exit at any point, its host  *)
(* may reboot without the health loop, and every other call may fail.       *)

RoutesAccepted ==
    /\ "update" \notin Verbs
    /\ "route" \notin Faults
    /\ HealthLoopOn => MaxReboots = 0

\* The labels of drive from the allocation of the dashboard port, from the
\* start of the container, and from the update of the row on; and the labels
\* of the loops over a findMany.
Updating  == {"updateClaim", "updateRead", "updating", "pull", "stopOld"}
Published == {"healthStatus", "health", "registering", "addRoute", "running"}
Launched  == Published \cup {"record"}
Placed    == Launched \cup {"starting", "secret", "create", "start"}
Driven    == Placed \cup {"claim", "read", "staleBox", "staleRoute", "stalePorts",
                "staleClear", "allocating", "allocApi", "allocDash", "fail"}
Looping   == {"reconcile", "stopBox", "stopRoute", "stopPorts", "stopClear",
              "deleteBox", "deleteRoute", "deletePorts", "deleteRow"}

IsLive(a) == row[a].status \in {"running", "unhealthy"}

\* The row names a container and a port, and the port's route is there or is
\* about to be restored.
Restorable(a) ==
    \/ pc \in {"down", "boot"}
    \/ pc = "reconcile" /\ [agent |-> a, ref |-> row[a].dashboardPort] \in todo

Routed(a) ==
    /\ row[a].containerId # None
    /\ row[a].dashboardPort # None
    /\ route[a] = row[a].dashboardPort \/ (~HealthLoopOn /\ Restorable(a))

LiveInv == \A a \in Agents : IsLive(a) => Routed(a)

\* What drive has prepared of the row that it will mark `running`.
Prepared ==
    /\ pc \in Driven => job.kind = "drive"
    /\ pc \in Placed => job.dash # None
    /\ pc \in Launched => job.ctr # None
    /\ pc \in Published /\ Exists(job.agent) =>
          /\ row[job.agent].containerId = job.ctr
          /\ row[job.agent].dashboardPort = job.dash
    /\ pc = "running" => route[job.agent] = job.dash

\* The worker never works on a live row, whether it handles the agent or is
\* to reach it in its loop.
HandsOff ==
    /\ pc \in AtWork => ~IsLive(job.agent) /\ row[job.agent].status # "unborn"
    /\ pc \notin Looping => todo = {}
    /\ \A t \in todo :
          /\ row[t.agent].status # "unborn"
          /\ IsLive(t.agent) => pc = "reconcile" /\ t.ref = row[t.agent].dashboardPort

NoUpdateSeen ==
    /\ pc \notin Updating
    /\ \A a \in Agents : row[a].status # "updating"
    /\ \A c \in calls : c.at \in {"secret", "delete"}
    /\ ~HealthLoopOn => \A a \in Agents : row[a].status # "unhealthy"

RInv == IInv /\ Prepared /\ HandsOff /\ NoUpdateSeen /\ LiveInv

\* What the parts of the invariant say of the worker's job.
LEMMA Working ==
  ASSUME RInv, pc \in AtWork
  PROVE  /\ job.agent \in Agents /\ pc \notin Updating
         /\ ~IsLive(job.agent) /\ row[job.agent].status # "unborn"
  BY DEF RInv, IInv, JobInv, HandsOff, NoUpdateSeen

\* The worker writes the row of the agent that it handles, and makes it live
\* in one step only.
LEMMA WorkerWrites ==
  ASSUME RInv, WorkerStep, NEW b \in Agents
  PROVE  \/ row'[b] = row[b]
         \/ /\ pc \in AtWork /\ b = job.agent
            /\ row'[b].status \notin {"unborn", "updating", "unhealthy"}
            /\ row'[b].status = "running" => MarkRunning /\ Exists(b) /\ Columns(b)
<1>0. PlatformTypeOK
  BY DEF RInv, IInv, TypeOK
<1>1. CASE UNCHANGED row
  BY <1>1
<1>2. CASE DrainQueueClaim \/ SetAllocatingPorts \/ SetStarting \/ SetHealthChecking
           \/ SetRegisteringRoute
  <2>1. pc \in AtWork
    BY <1>2 DEF DrainQueueClaim, SetAllocatingPorts, SetStarting, SetHealthChecking,
       SetRegisteringRoute, AtWork, Labels
  <2> PICK a \in Agents : a = job.agent
    BY <2>1, Working
  <2>2. CASE UNCHANGED row
    BY <2>2
  <2>3. CASE \E s \in Pipeline : SetStatus(a, s)
    <3> PICK s \in Pipeline : SetStatus(a, s)
      BY <2>3
    <3>1. row'[a].status = s /\ \A c \in Agents \ {a} : row'[c] = row[c]
      BY <1>0, StatusOnly
    <3> QED
      BY <2>1, <3>1 DEF Pipeline
  <2>4. UNCHANGED row \/ \E s \in Pipeline : SetStatus(a, s)
    BY <1>2 DEF DrainQueueClaim, SetAllocatingPorts, SetStarting, SetHealthChecking,
       SetRegisteringRoute, Announce, Pipeline
  <2> QED
    BY <2>2, <2>3, <2>4
<1>3. CASE SetUpdating
  BY <1>3 DEF SetUpdating, RInv, NoUpdateSeen, Updating
<1>4. CASE StaleClear \/ StopsClear \/ RecordContainer \/ MarkRunning \/ FailDeployment
           \/ DeletesRow
  <2>1. pc \in AtWork
    BY <1>4 DEF StaleClear, StopsClear, RecordContainer, MarkRunning, FailDeployment,
       DeletesRow, AtWork, Labels
  <2> PICK a \in Agents : a = job.agent
    BY <2>1, Working
  <2>2. row[a].status \notin {"unborn", "running", "unhealthy", "updating"}
    BY <2>1, Working DEF IsLive, RInv, NoUpdateSeen
  <2>3. CASE ~Exists(a)
    BY <1>4, <2>3 DEF StaleClear, StopsClear, RecordContainer, MarkRunning,
       FailDeployment, DeletesRow
  <2>4. CASE Exists(a) /\ (StaleClear \/ StopsClear)
    <3>1. row' = [row EXCEPT ![a] = Cleared(@)]
      BY <2>4 DEF StaleClear, StopsClear
    <3> QED
      BY <1>0, <2>1, <2>2, <3>1, ColumnsOnly
  <2>5. CASE Exists(a) /\ RecordContainer
    BY <1>0, <2>1, <2>2, <2>5, RecordOnly
  <2>6. CASE Exists(a) /\ MarkRunning
    BY <1>0, <2>1, <2>6, RunningOnly
  <2>7. CASE Exists(a) /\ FailDeployment
    BY <1>0, <2>1, <2>7, FailureOnly
  <2>8. CASE Exists(a) /\ DeletesRow
    <3>1. row' = [row EXCEPT ![a] = GoneRow]
      BY <2>8 DEF DeletesRow
    <3> QED
      BY <1>0, <2>1, <3>1, GoneRowTyped DEF PlatformTypeOK
  <2> QED
    BY <1>4, <2>3, <2>4, <2>5, <2>6, <2>7, <2>8
<1> QED
  BY <1>1, <1>2, <1>3, <1>4, RowWriters

\* The worker changes the route of the agent that it handles, and at start-up
\* those of the rows that it found.
LEMMA WorkerRoutes ==
  ASSUME RInv, WorkerStep, NEW b \in Agents
  PROVE  \/ route'[b] = route[b]
         \/ pc \in AtWork /\ b = job.agent
         \/ pc = "reconcile" /\ \E t \in todo : t.agent = b /\ route'[b] = t.ref
<1>0. route \in [Agents -> PortOrNone]
  BY DEF RInv, IInv, TypeOK, PlatformTypeOK
<1>1. CASE RegisterRoute \/ StaleRoute \/ CleanupRoute \/ StopsRoute \/ DeletesRoute
  <2>1. pc \in AtWork
    BY <1>1 DEF RegisterRoute, StaleRoute, CleanupRoute, StopsRoute, DeletesRoute,
       AtWork, Labels
  <2> QED
    BY <1>0, <1>1, <2>1 DEF RegisterRoute, StaleRoute, CleanupRoute, StopsRoute,
       DeletesRoute, AddRoute, RemoveRoute
<1>2. CASE ReconcileRoute
  BY <1>0, <1>2 DEF ReconcileRoute, AddRoute
<1>3. CASE UNCHANGED route
  BY <1>3
<1> QED
  BY <1>1, <1>2, <1>3, RouteWriters

\* The variables of drive, and how the worker comes to the labels at which
\* they matter.
JobKept ==
    /\ pc' \notin Updating
    /\ pc' \in Driven => job'.kind = "drive"
    /\ pc' \in Placed => job'.dash # None
    /\ pc' \in Launched => job'.ctr # None
    /\ pc' \in Published =>
          /\ pc \in Launched /\ job'.agent = job.agent
          /\ job'.ctr = job.ctr /\ job'.dash = job.dash
          /\ pc = "record" => RecordContainer /\ Exists(job.agent)
    /\ pc' = "running" => RegisterRoute /\ route' = [route EXCEPT ![job.agent] = job.dash]

\* The job of drive stays filled in as far as drive has come.
LEMMA DriveJob ==
  ASSUME RInv, DriveStep
  PROVE  JobKept
<1> USE DEF JobKept, Goto, Leave, AfterJob, Driven, Placed, Launched, Published, Updating
<1>0. Prepared
  BY DEF RInv
<1>1. job \in Job /\ None \notin Ports /\ None \notin Nat
  BY PlatformAssumption DEF RInv, IInv, TypeOK, WorkerTypeOK
<1>2. CASE DriveRead \/ StaleBox \/ StaleRoute \/ StalePorts \/ StaleClear
  BY <1>0, <1>1, <1>2 DEF Prepared, DriveRead, StaleBox, StaleRoute, StalePorts,
     StaleClear, Job
<1>3. CASE SetAllocatingPorts \/ SetStarting \/ SetHealthChecking \/ SetRegisteringRoute
  BY <1>0, <1>3 DEF Prepared, SetAllocatingPorts, SetStarting, SetHealthChecking,
     SetRegisteringRoute, Announce
<1>4. CASE AllocateApiPort \/ AllocateDashboardPort
  BY <1>0, <1>1, <1>4 DEF Prepared, AllocateApiPort, AllocateDashboardPort, Job
<1>5. CASE ReadSecretAndPrepare \/ CreateContainer \/ RecordContainer \/ WaitForHealth
  BY <1>0, <1>5 DEF Prepared, ReadSecretAndPrepare, CreateContainer, RecordContainer,
     WaitForHealth
<1>6. CASE StartContainer
  <2>1. CASE pc' = "fail" /\ UNCHANGED job
    BY <1>0, <1>6, <2>1 DEF StartContainer, Prepared
  <2>2. CASE Has(job.agent) /\ pc' = "record" /\ job' = [job EXCEPT !.ctr = box[job.agent].id]
    <3>1. job.agent \in Agents
      BY <1>6, Working DEF StartContainer, AtWork, Labels
    <3>2. box[job.agent].id # None
      BY <1>1, <2>2, <3>1 DEF Has, RInv, IInv, TypeOK, PlatformTypeOK, Container
    <3> QED
      BY <1>0, <1>1, <1>6, <2>2, <3>2 DEF StartContainer, Prepared, Job
  <2> QED
    BY <1>6, <2>1, <2>2 DEF StartContainer
<1>7. CASE RegisterRoute
  BY <1>0, <1>1, <1>7 DEF Prepared, RegisterRoute, AddRoute, Job
<1>8. CASE MarkRunning \/ FailDeployment \/ CleanupBox \/ CleanupRoute \/ CleanupPorts
  BY <1>0, <1>8 DEF Prepared, MarkRunning, FailDeployment, CleanupBox, CleanupRoute,
     CleanupPorts
<1> QED
  BY <1>2, <1>3, <1>4, <1>5, <1>6, <1>7, <1>8 DEF DriveStep

\* So does that of the drains and of start-up, which hold an agent and no more.
LEMMA DrainJob ==
  ASSUME RInv, DrainStep \/ BootStep
  PROVE  JobKept
<1> USE DEF JobKept, Goto, Leave, Driven, Placed, Launched, Published, Updating
<1>0. Prepared /\ pc \notin Updating /\ Updatable = {}
  BY DEF RInv, NoUpdateSeen, Updatable, WithStatus
<1>1. CASE DrainQueueFind
  BY <1>1 DEF DrainQueueFind, Idle
<1>2. CASE DrainQueueClaim
  BY <1>0, <1>2 DEF DrainQueueClaim, Prepared
<1>3. CASE DrainUpdatesFind \/ DrainUpdatesClaim \/ UpdateRead \/ SetUpdating
           \/ PullImage \/ StopOldContainer
  BY <1>0, <1>3 DEF DrainUpdatesFind, DrainUpdatesClaim, UpdateRead, SetUpdating,
     PullImage, StopOldContainer, Oldest
<1>4. CASE DrainStopsFind \/ StopsBox \/ StopsRoute \/ StopsPorts \/ StopsClear
  BY <1>4 DEF DrainStopsFind, StopsBox, StopsRoute, StopsPorts, StopsClear, Sweep
<1>5. CASE DrainDeletesFind \/ DeletesBox \/ DeletesRoute \/ DeletesPorts \/ DeletesRow
  BY <1>5 DEF DrainDeletesFind, DeletesBox, DeletesRoute, DeletesPorts, DeletesRow, Sweep
<1>6. CASE BootStep
  BY <1>6 DEF BootStep, WorkerBoot, ReconcileFind, ReconcileRoute, MainLoopStarts
<1> QED
  BY <1>1, <1>2, <1>3, <1>4, <1>5, <1>6 DEF DrainStep

\* The worker keeps what drive has prepared.
LEMMA WorkerPrepares ==
  ASSUME RInv, WorkerStep
  PROVE  Prepared' /\ pc' \notin Updating
<1>0. JobKept /\ Prepared
  BY DriveJob, DrainJob DEF WorkerStep, RInv
<1>1. PlatformTypeOK
  BY DEF RInv, IInv, TypeOK
<1>2. CASE pc' \notin Published
  BY <1>0, <1>2 DEF Prepared, JobKept, Published
<1>3. CASE pc' \in Published
  <2>1. pc \in Launched /\ pc \in AtWork
    BY <1>0, <1>3 DEF JobKept, Launched, Published, AtWork, Labels
  <2> PICK a \in Agents : a = job.agent
    BY <2>1, Working
  <2>2. job'.agent = a /\ job'.ctr = job.ctr /\ job'.dash = job.dash
    BY <1>0, <1>3 DEF JobKept
  <2>3. CASE pc = "record"
    <3>1. RecordContainer /\ Exists(a) /\ job.kind = "drive"
      BY <1>0, <1>3, <2>3 DEF JobKept, Prepared, Driven, Placed, Launched
    <3>2. row'[a].containerId = job.ctr /\ row'[a].dashboardPort = job.dash
      BY <1>1, <3>1, RecordOnly
    <3> QED
      BY <1>0, <2>2, <2>3, <3>2 DEF JobKept, Prepared, RegisterRoute
  <2>4. CASE pc # "record"
    <3>1. pc \in Published
      BY <2>1, <2>4 DEF Launched
    <3>2. UNCHANGED row \/ (Exists(a) /\ \E s \in Statuses : SetStatus(a, s))
      <4>1. UNCHANGED row \/ SetHealthChecking \/ SetRegisteringRoute \/ MarkRunning
        BY <3>1, RowWriters DEF Published, DrainQueueClaim, SetAllocatingPorts,
           SetStarting, SetUpdating, StaleClear, StopsClear, RecordContainer,
           FailDeployment, DeletesRow
      <4>2. ~(MarkRunning /\ Exists(a))
        BY <1>0, <1>3 DEF MarkRunning, Leave, AfterJob, Published
      <4> QED
        BY <4>1, <4>2 DEF SetHealthChecking, SetRegisteringRoute, MarkRunning,
           Announce, Statuses, ACTIVE_STATUSES, Pipeline
    <3>3. Exists(a)' => Exists(a) /\ Columns(a)
      <4>1. CASE UNCHANGED row
        BY <4>1 DEF Exists, Columns
      <4>2. CASE Exists(a) /\ \E s \in Statuses : SetStatus(a, s)
        BY <1>1, <4>2, StatusOnly
      <4> QED
        BY <3>2, <4>1, <4>2
    <3> QED
      BY <1>0, <2>2, <3>1, <3>3, <1>1
      DEF JobKept, Prepared, Columns, RegisterRoute, PlatformTypeOK
  <2> QED
    BY <2>3, <2>4
<1> QED
  BY <1>2, <1>3

\* How the worker comes to handle an agent: it goes on with the one that it
\* handles, or takes the next of a search, which writes no row.
LEMMA WorkerTakes ==
  ASSUME RInv, WorkerStep, pc' \in AtWork
  PROVE  \/ pc \in AtWork /\ job'.agent = job.agent /\ ~(MarkRunning /\ Exists(job.agent))
         \/ /\ UNCHANGED row
            /\ \/ job'.agent \in WithStatus("queued")
               \/ pc \in {"stopBox", "deleteBox"} /\ \E t \in todo : job'.agent = t.agent
<1> USE DEF AtWork, Labels, Goto, Leave, AfterJob
<1>0. job \in Job /\ Updatable = {} /\ pc \notin Updating
  BY DEF RInv, IInv, TypeOK, WorkerTypeOK, NoUpdateSeen, Updatable, WithStatus
<1>1. CASE DriveStep
  <2>1. CASE DriveRead \/ StaleBox \/ StaleRoute \/ StalePorts \/ StaleClear
    BY <1>0, <2>1 DEF DriveRead, StaleBox, StaleRoute, StalePorts, StaleClear, Job,
       MarkRunning
  <2>2. CASE SetAllocatingPorts \/ SetStarting \/ SetHealthChecking \/ SetRegisteringRoute
    BY <2>2 DEF SetAllocatingPorts, SetStarting, SetHealthChecking,
       SetRegisteringRoute, Announce, MarkRunning
  <2>3. CASE AllocateApiPort \/ AllocateDashboardPort \/ StartContainer \/ RegisterRoute
    BY <1>0, <2>3 DEF AllocateApiPort, AllocateDashboardPort, StartContainer,
       RegisterRoute, Job, MarkRunning
  <2>4. CASE ReadSecretAndPrepare \/ CreateContainer \/ RecordContainer \/ WaitForHealth
    BY <2>4 DEF ReadSecretAndPrepare, CreateContainer, RecordContainer,
       WaitForHealth, MarkRunning
  <2>5. CASE MarkRunning
    BY <2>5 DEF MarkRunning
  <2>6. CASE FailDeployment \/ CleanupBox \/ CleanupRoute \/ CleanupPorts
    BY <2>6 DEF FailDeployment, CleanupBox, CleanupRoute, CleanupPorts, MarkRunning
  <2> QED
    BY <1>1, <2>1, <2>2, <2>3, <2>4, <2>5, <2>6 DEF DriveStep
<1>2. CASE DrainStep
  <2>1. CASE DrainQueueFind
    BY <2>1 DEF DrainQueueFind, platform, Oldest, Idle
  <2>2. CASE DrainQueueClaim
    BY <2>2 DEF DrainQueueClaim, MarkRunning
  <2>3. CASE DrainUpdatesFind \/ DrainUpdatesClaim \/ UpdateRead \/ SetUpdating
             \/ PullImage \/ StopOldContainer
    BY <1>0, <2>3 DEF DrainUpdatesFind, DrainUpdatesClaim, UpdateRead, SetUpdating,
       PullImage, StopOldContainer, Oldest, Updating
  <2>4. CASE StopsBox \/ DeletesBox
    BY <2>4 DEF StopsBox, DeletesBox, Sweep, Idle, tables
  <2>5. CASE DrainStopsFind \/ DrainDeletesFind
    BY <2>5 DEF DrainStopsFind, DrainDeletesFind
  <2>6. CASE StopsRoute \/ StopsPorts \/ StopsClear
    BY <2>6 DEF StopsRoute, StopsPorts, StopsClear, MarkRunning
  <2>7. CASE DeletesRoute \/ DeletesPorts \/ DeletesRow
    BY <2>7 DEF DeletesRoute, DeletesPorts, DeletesRow, MarkRunning
  <2> QED
    BY <1>2, <2>1, <2>2, <2>3, <2>4, <2>5, <2>6, <2>7 DEF DrainStep
<1>3. CASE BootStep
  BY <1>3 DEF BootStep, WorkerBoot, ReconcileFind, ReconcileRoute, MainLoopStarts
<1> QED
  BY <1>1, <1>2, <1>3 DEF WorkerStep

\* What is left to do in a loop, or what a search found for it.
LEMMA WorkerTodo ==
  ASSUME RInv, WorkerStep
  PROVE  /\ pc' \notin Looping => todo' = {}
         /\ \A t \in todo' :
              \/ t \in todo /\ (pc = "reconcile" => pc' = "reconcile")
              \/ /\ UNCHANGED row
                 /\ \/ t.agent \in WithStatus("stopped") \cup WithStatus("deleting")
                    \/ /\ pc' = "reconcile" /\ t.agent \in WithStatus("running")
                       /\ t.ref = row[t.agent].dashboardPort
<1> USE DEF Looping, Goto, Leave, AfterJob
<1>0. (pc \notin Looping => todo = {}) /\ Updatable = {}
  BY DEF RInv, HandsOff, NoUpdateSeen, Updatable, WithStatus
<1>1. CASE UNCHANGED todo /\ pc # "reconcile" /\ pc \notin Looping
  BY <1>0, <1>1
<1>2. CASE StopsRoute \/ StopsPorts \/ StopsClear \/ DeletesRoute \/ DeletesPorts \/ DeletesRow
  BY <1>2 DEF StopsRoute, StopsPorts, StopsClear, DeletesRoute, DeletesPorts, DeletesRow
<1>3. CASE StopsBox \/ DeletesBox
  BY <1>3 DEF StopsBox, DeletesBox, Sweep
<1>4. CASE DrainStopsFind
  BY <1>4 DEF DrainStopsFind, Stopped, WithStatus, platform
<1>5. CASE DrainDeletesFind
  BY <1>5 DEF DrainDeletesFind, WithStatus, platform
<1>6. CASE ReconcileFind
  BY <1>6 DEF ReconcileFind, Reconcilable, WithStatus, platform
<1>7. CASE ReconcileRoute \/ MainLoopStarts
  BY <1>7 DEF ReconcileRoute, MainLoopStarts
<1>8. CASE WorkerBoot
  BY <1>0, <1>8 DEF WorkerBoot
<1>9. CASE DriveStep
  <2>1. UNCHANGED todo /\ pc # "reconcile" /\ pc \notin Looping
    BY <1>9 DEF DriveStep, DriveRead, StaleBox, StaleRoute, StalePorts, StaleClear,
       SetAllocatingPorts, AllocateApiPort, AllocateDashboardPort, SetStarting,
       ReadSecretAndPrepare, CreateContainer, StartContainer, RecordContainer,
       SetHealthChecking, WaitForHealth, SetRegisteringRoute, RegisterRoute,
       MarkRunning, FailDeployment, CleanupBox, CleanupRoute, CleanupPorts, Announce
  <2> QED
    BY <1>1, <2>1
<1>10. CASE DrainQueueFind \/ DrainQueueClaim \/ DrainUpdatesFind \/ DrainUpdatesClaim
            \/ UpdateRead \/ SetUpdating \/ PullImage \/ StopOldContainer
  <2>1. UNCHANGED todo /\ pc # "reconcile" /\ pc \notin Looping
    BY <1>10 DEF DrainQueueFind, DrainQueueClaim, DrainUpdatesFind, DrainUpdatesClaim,
       UpdateRead, SetUpdating, PullImage, StopOldContainer, Announce
  <2> QED
    BY <1>1, <2>1
<1> QED
  BY <1>2, <1>3, <1>4, <1>5, <1>6, <1>7, <1>8, <1>9, <1>10
  DEF WorkerStep, DrainStep, BootStep

\* The worker keeps its hands off live rows.
LEMMA WorkerHandsOff ==
  ASSUME RInv, WorkerStep
  PROVE  HandsOff'
<1>0. HandsOff /\ (\A t \in todo : t.agent \in Agents)
  BY DEF RInv, IInv, TypeOK, WorkerTypeOK, Pending
<1>1. ASSUME pc' \in AtWork
      PROVE  ~IsLive(job.agent)' /\ row'[job'.agent].status # "unborn"
  <2>1. CASE pc \in AtWork /\ job'.agent = job.agent /\ ~(MarkRunning /\ Exists(job.agent))
    BY <2>1, Working, WorkerWrites DEF IsLive
  <2>2. CASE UNCHANGED row /\ job'.agent \in WithStatus("queued")
    BY <2>2 DEF WithStatus, IsLive
  <2>3. CASE UNCHANGED row /\ pc \in {"stopBox", "deleteBox"}
             /\ \E t \in todo : job'.agent = t.agent
    BY <1>0, <2>3 DEF HandsOff, IsLive
  <2> QED
    BY <1>1, <2>1, <2>2, <2>3, WorkerTakes
<1>2. ASSUME NEW t \in todo'
      PROVE  /\ row'[t.agent].status # "unborn"
             /\ IsLive(t.agent)' => pc' = "reconcile" /\ t.ref = row'[t.agent].dashboardPort
  <2>1. CASE t \in todo /\ (pc = "reconcile" => pc' = "reconcile")
    <3>1. CASE row'[t.agent] = row[t.agent]
      BY <1>0, <2>1, <3>1 DEF HandsOff, IsLive
    <3>2. CASE row'[t.agent] # row[t.agent]
      <4>1. /\ row'[t.agent].status \notin {"unborn", "unhealthy"}
            /\ row'[t.agent].status = "running" => MarkRunning
        BY <1>0, <2>1, <3>2, WorkerWrites
      <4>2. pc \in Looping
        BY <1>0, <2>1 DEF HandsOff
      <4> QED
        BY <4>1, <4>2 DEF MarkRunning, Looping, IsLive
    <3> QED
      BY <3>1, <3>2
  <2>2. CASE UNCHANGED row /\ t.agent \in WithStatus("stopped") \cup WithStatus("deleting")
    BY <2>2 DEF WithStatus, IsLive
  <2>3. CASE UNCHANGED row /\ pc' = "reconcile" /\ t.agent \in WithStatus("running")
             /\ t.ref = row[t.agent].dashboardPort
    BY <2>3 DEF WithStatus, IsLive
  <2> QED
    BY <1>2, <2>1, <2>2, <2>3, WorkerTodo
<1> QED
  BY <1>1, <1>2, WorkerTodo DEF HandsOff

\* At start-up the worker does nothing else.
LEMMA Starting ==
  ASSUME WorkerStep, pc \in {"down", "boot", "reconcile"}
  PROVE  BootStep
<1>1. ~DriveStep
  BY DEF DriveStep, DriveRead, StaleBox, StaleRoute, StalePorts, StaleClear,
     SetAllocatingPorts, AllocateApiPort, AllocateDashboardPort, SetStarting,
     ReadSecretAndPrepare, CreateContainer, StartContainer, RecordContainer,
     SetHealthChecking, WaitForHealth, SetRegisteringRoute, RegisterRoute,
     MarkRunning, FailDeployment, CleanupBox, CleanupRoute, CleanupPorts
<1>2. ~DrainStep
  BY DEF DrainStep, DrainQueueFind, DrainQueueClaim, DrainUpdatesFind,
     DrainUpdatesClaim, UpdateRead, SetUpdating, PullImage, StopOldContainer,
     DrainStopsFind, StopsBox, StopsRoute, StopsPorts, StopsClear,
     DrainDeletesFind, DeletesBox, DeletesRoute, DeletesPorts, DeletesRow
<1> QED
  BY <1>1, <1>2 DEF WorkerStep

\* A live row stays routed, or is routed when it comes to life.
LEMMA WorkerRoutesLive ==
  ASSUME RoutesAccepted, RInv, WorkerStep
  PROVE  LiveInv'
<1> SUFFICES ASSUME NEW b \in Agents, IsLive(b)' PROVE Routed(b)'
  BY DEF LiveInv
<1>1. CASE row'[b] = row[b]
  <2>1. IsLive(b) /\ Routed(b) /\ ~(pc \in AtWork /\ b = job.agent)
    BY <1>1, Working DEF IsLive, RInv, LiveInv
  <2>2. CASE route[b] = row[b].dashboardPort
    <3>1. route'[b] = row[b].dashboardPort
      <4>1. ASSUME NEW t \in todo, pc = "reconcile", t.agent = b
            PROVE  t.ref = row[b].dashboardPort
        BY <2>1, <4>1 DEF RInv, HandsOff
      <4> QED
        BY <2>1, <2>2, <4>1, WorkerRoutes
    <3> QED
      BY <1>1, <2>1, <3>1 DEF Routed
  <2>3. CASE ~HealthLoopOn /\ pc \in {"down", "boot"}
    <3>1. row[b].status = "running"
      BY <2>1, <2>3 DEF IsLive, RInv, NoUpdateSeen
    <3>2. WorkerBoot \/ ReconcileFind
      BY <2>3, Starting DEF BootStep, ReconcileRoute, MainLoopStarts
    <3>3. CASE WorkerBoot
      BY <1>1, <2>1, <2>3, <3>3 DEF WorkerBoot, Goto, Routed, Restorable
    <3>4. CASE ReconcileFind
      BY <1>1, <2>1, <2>3, <3>1, <3>4
      DEF ReconcileFind, Goto, Routed, Restorable, Reconcilable, WithStatus
    <3> QED
      BY <3>2, <3>3, <3>4
  <2>4. CASE ~HealthLoopOn /\ pc = "reconcile"
             /\ [agent |-> b, ref |-> row[b].dashboardPort] \in todo
    <3>1. ReconcileRoute
      BY <2>4, Starting DEF BootStep, WorkerBoot, ReconcileFind, MainLoopStarts
    <3>2. PICK t \in todo : /\ AddRoute(t.agent, t.ref)
                           /\ todo' = todo \ {t} /\ UNCHANGED pc
      BY <3>1 DEF ReconcileRoute, Goto, RoutesAccepted
    <3>3. CASE t.agent = b
      <4>1. t.ref = row[b].dashboardPort
        BY <2>1, <3>3 DEF RInv, HandsOff
      <4>2. route'[b] = row[b].dashboardPort
        BY <3>2, <3>3, <4>1 DEF AddRoute, RInv, IInv, TypeOK, PlatformTypeOK
      <4> QED
        BY <1>1, <2>1, <4>2 DEF Routed
    <3>4. CASE t.agent # b
      <4>1. [agent |-> b, ref |-> row[b].dashboardPort] \in todo' /\ pc' = "reconcile"
        BY <2>4, <3>2, <3>4
      <4> QED
        BY <1>1, <2>1, <2>4, <4>1 DEF Routed, Restorable
    <3> QED
      BY <3>3, <3>4
  <2> QED
    BY <2>1, <2>2, <2>3, <2>4 DEF Routed, Restorable
<1>2. CASE row'[b] # row[b]
  <2>1. b = job.agent /\ MarkRunning /\ Exists(b) /\ Columns(b)
    BY <1>2, WorkerWrites DEF IsLive
  <2>2. pc = "running" /\ UNCHANGED route
    BY <2>1 DEF MarkRunning
  <2>3. /\ row[b].containerId = job.ctr /\ job.ctr # None
        /\ row[b].dashboardPort = job.dash /\ job.dash # None
        /\ route[b] = job.dash
    BY <2>1, <2>2 DEF RInv, Prepared, Published, Launched, Placed
  <2> QED
    BY <2>1, <2>2, <2>3 DEF Routed, Columns
<1> QED
  BY <1>1, <1>2

\* The worker keeps the invariant.
LEMMA WorkerRecovers ==
  ASSUME RoutesAccepted, RInv, WorkerStep, IInv', UNCHANGED <<apiVars, healthVars>>
  PROVE  RInv'
<1>1. NoUpdateSeen'
  <2>1. pc' \notin Updating /\ NoUpdateSeen
    BY WorkerPrepares DEF RInv
  <2>2. UNCHANGED calls
    BY DEF apiVars
  <2>3. ASSUME NEW a \in Agents
        PROVE  /\ row'[a].status # "updating"
               /\ row'[a].status = "unhealthy" => row[a].status = "unhealthy"
    BY <2>1, WorkerWrites DEF NoUpdateSeen
  <2> QED
    BY <2>1, <2>2, <2>3 DEF NoUpdateSeen
<1> QED
  BY <1>1, WorkerPrepares, WorkerHandsOff, WorkerRoutesLive DEF RInv

\* The end of the process, and with the health loop off a reboot of the host.
LEMMA InterruptionRecovers ==
  ASSUME RoutesAccepted, RInv, Interrupted, UNCHANGED apiVars, IInv'
  PROVE  RInv'
<1>1. ProcessEnds /\ UNCHANGED <<row, calls>> /\ (HealthLoopOn => UNCHANGED route)
  BY WorkerAssumption
  DEF Interrupted, Interruption, WorkerCrash, HostReboot, tables, apiVars,
      RoutesAccepted, RInv, IInv, TypeOK, WorkerTypeOK
<1>2. pc' = "down" /\ todo' = {}
  BY <1>1 DEF ProcessEnds
<1>3. Prepared' /\ HandsOff' /\ NoUpdateSeen'
  BY <1>1, <1>2 DEF Prepared, HandsOff, NoUpdateSeen, RInv, Driven, Placed, Launched,
     Published, Updating, Looping, AtWork, Labels
<1>4. LiveInv'
  BY <1>1, <1>2 DEF RInv, LiveInv, IsLive, Routed, Restorable
<1> QED
  BY <1>3, <1>4 DEF RInv

\* What the other parts of the system do to a row: a live row was live before
\* and names the same container and ports, and so does the row of an agent
\* that the worker handles, unless the row goes.
Beside(a) ==
    /\ row[a].status # "unborn" => row'[a].status # "unborn"
    /\ row'[a].status # "updating"
    /\ ~HealthLoopOn => row'[a].status # "unhealthy"
    /\ IsLive(a)' => IsLive(a) /\ Columns(a)
    /\ row[a].status # "unborn" /\ Exists(a)' => Exists(a) /\ Columns(a)

\* Such steps keep the invariant.
LEMMA BesideRecovers ==
  ASSUME RInv, IInv', UNCHANGED <<workerVars, route>>, \A a \in Agents : Beside(a),
         \A c \in calls' : c.at \in {"secret", "delete"}
  PROVE  RInv'
<1>0. UNCHANGED <<pc, job, todo, route>> /\ (\A t \in todo : t.agent \in Agents)
  BY DEF workerVars, RInv, IInv, TypeOK, WorkerTypeOK, Pending
<1>1. Prepared'
  <2>1. CASE pc \in Published
    <3>1. job.agent \in Agents /\ row[job.agent].status # "unborn"
      BY <2>1, Working DEF Published, AtWork, Labels
    <3> QED
      BY <1>0, <3>1 DEF RInv, Prepared, Beside, Columns
  <2>2. CASE pc \notin Published
    BY <1>0, <2>2 DEF RInv, Prepared, Published
  <2> QED
    BY <2>1, <2>2
<1>2. HandsOff'
  <2>1. pc \in AtWork => ~IsLive(job.agent)' /\ row'[job'.agent].status # "unborn"
    BY <1>0, Working DEF Beside, IsLive
  <2> QED
    BY <1>0, <2>1 DEF RInv, HandsOff, Beside, IsLive, Columns
<1>3. NoUpdateSeen'
  BY <1>0 DEF RInv, NoUpdateSeen, Beside
<1>4. LiveInv'
  BY <1>0 DEF RInv, LiveInv, Beside, IsLive, Routed, Restorable, Columns
<1> QED
  BY <1>1, <1>2, <1>3, <1>4 DEF RInv

\* A step that writes no row.
LEMMA RowsBeside ==
  ASSUME RInv, UNCHANGED row
  PROVE  \A a \in Agents : Beside(a)
  BY DEF RInv, NoUpdateSeen, Beside, IsLive, Columns, Exists

\* The crash watcher, which writes `crashed` and releases ports.
LEMMA WatcherRecovers ==
  ASSUME RInv, WatcherStep, UNCHANGED <<workerVars, apiVars, healthVars>>, IInv'
  PROVE  RInv'
<1>1. PICK d \in dies : CrashRead(d) \/ CrashMark(d) \/ CrashLog(d)
                          \/ CrashRelease(d) \/ CrashSweep(d)
  BY DEF WatcherStep
<1>2. d.agent \in Agents /\ PlatformTypeOK
  BY DEF RInv, IInv, TypeOK, PlatformTypeOK, Death
<1>3. CASE UNCHANGED row
  BY <1>3, RowsBeside, BesideRecovers DEF WatcherStep, apiVars, RInv, NoUpdateSeen
<1>4. CASE Exists(d.agent) /\ SetStatus(d.agent, "crashed")
  <2>1. \A a \in Agents : Beside(a)
    BY <1>2, <1>4, StatusOnly DEF Beside, IsLive, Exists, NoRow, Columns, RInv, NoUpdateSeen
  <2> QED
    BY <2>1, BesideRecovers DEF WatcherStep, apiVars, RInv, NoUpdateSeen
<1> QED
  BY <1>1, <1>3, <1>4 DEF CrashRead, CrashMark, CrashLog, CrashRelease, CrashSweep

\* The health loop, which toggles live rows.
LEMMA HealthRecovers ==
  ASSUME RInv, HealthLoopOn, HealthStep, UNCHANGED <<workerVars, apiVars>>, IInv'
  PROVE  RInv'
<1>0. PlatformTypeOK /\ probes \in SUBSET Probe /\ UNCHANGED <<calls, route>>
  BY DEF RInv, IInv, TypeOK, HealthTypeOK, apiVars, HealthStep
<1>1. CASE UNCHANGED row
  BY <1>0, <1>1, RowsBeside, BesideRecovers DEF RInv, NoUpdateSeen
<1>2. CASE \E a \in Agents, from, to \in {"running", "unhealthy"} :
             row[a].status = from /\ SetStatus(a, to)
  <2>1. \A a \in Agents : Beside(a)
    BY <1>0, <1>2, StatusOnly DEF Beside, IsLive, Exists, NoRow, Columns, RInv, NoUpdateSeen
  <2> QED
    BY <1>0, <2>1, BesideRecovers DEF RInv, NoUpdateSeen
<1>3. UNCHANGED row \/ \E a \in Agents, from, to \in {"running", "unhealthy"} :
                         row[a].status = from /\ SetStatus(a, to)
  BY <1>0 DEF HealthStep, ProbeAllFind, ProbeSucceeds, ProbeFails, MarkUnhealthy,
     Recover, Toggle, Probe
<1> QED
  BY <1>1, <1>2, <1>3

\* The API: it creates rows, sets the status to queued, stopped or deleting,
\* and deletes rows.
LEMMA ApiRecovers ==
  ASSUME RoutesAccepted, RInv, ApiStep, UNCHANGED <<workerVars, healthVars>>, IInv'
  PROVE  RInv'
<1>0. PlatformTypeOK /\ calls \in SUBSET Call /\ NoUpdateSeen
  BY DEF RInv, IInv, TypeOK, ApiTypeOK
<1>1. UNCHANGED route
  BY DEF ApiStep, FinishCall
<1>2. ASSUME NEW a \in Agents, NEW s \in {"queued", "stopped", "deleting"}, SetStatus(a, s),
             Exists(a) \/ row[a].status = "unborn"
      PROVE  \A b \in Agents : Beside(b)
  BY <1>0, <1>2, StatusOnly DEF Beside, IsLive, Exists, NoRow, Columns, NoUpdateSeen
<1>3. CASE NewRequest
  <2>1. \A c \in calls' : c.at \in {"secret", "delete"}
    BY <1>0, <1>3 DEF NewRequest, CreateRow, Control, DeleteRead, UpdateRequest, Request,
       NewCall, RoutesAccepted, NoUpdateSeen
  <2>2. CASE UNCHANGED row
    BY <1>1, <2>1, <2>2, RowsBeside, BesideRecovers
  <2>3. CASE \E a \in Agents, s \in {"queued", "stopped", "deleting"} :
               SetStatus(a, s) /\ (Exists(a) \/ row[a].status = "unborn")
    BY <1>1, <1>2, <2>1, <2>3, BesideRecovers
  <2> QED
    BY <1>3, <2>2, <2>3 DEF NewRequest, CreateRow, Control, DeleteRead, UpdateRequest,
       SetStatus, ACTION_TO_STATUS, Oldest, WithStatus
<1>4. CASE FinishCall
  <2> PICK c \in calls : \/ WriteSecret(c) \/ UpdateCheck(c) \/ UpdateWrite(c)
                         \/ DeleteMarks(c) \/ DeletePurges(c)
    BY <1>4 DEF FinishCall
  <2>1. c \in Call /\ c.agent \in Agents /\ c.at \in {"secret", "delete"}
    BY <1>0 DEF NoUpdateSeen, Call
  <2>2. \A d \in calls' : d.at \in {"secret", "delete"}
    BY <1>0, <2>1 DEF WriteSecret, UpdateCheck, UpdateWrite, DeleteMarks, DeletePurges,
       End, NoUpdateSeen
  <2>3. CASE UNCHANGED row
    BY <1>1, <2>2, <2>3, RowsBeside, BesideRecovers
  <2>4. CASE Exists(c.agent) /\ WriteSecret(c)
    <3>1. row' = [row EXCEPT ![c.agent].secretBlob = TRUE]
      BY <2>4 DEF WriteSecret
    <3>2. \A b \in Agents : row'[b].status = row[b].status /\ Columns(b)
      BY <1>0, <2>1, <3>1 DEF PlatformTypeOK, Row, Columns
    <3>3. \A b \in Agents : Beside(b)
      BY <1>0, <3>2 DEF Beside, IsLive, Exists, NoUpdateSeen
    <3> QED
      BY <1>1, <2>2, <3>3, BesideRecovers
  <2>5. CASE Exists(c.agent) /\ DeleteMarks(c)
    BY <1>1, <1>2, <2>1, <2>2, <2>5, BesideRecovers DEF DeleteMarks
  <2>6. CASE Exists(c.agent) /\ DeletePurges(c)
    <3>1. row' = [row EXCEPT ![c.agent] = GoneRow]
      BY <2>6 DEF DeletePurges, GoneRow
    <3>2. row'[c.agent].status = "gone" /\ \A b \in Agents \ {c.agent} : row'[b] = row[b]
      BY <1>0, <2>1, <3>1, GoneRowTyped DEF PlatformTypeOK
    <3>3. \A b \in Agents : Beside(b)
      BY <1>0, <2>6, <3>2 DEF Beside, IsLive, Exists, NoRow, NoUpdateSeen, Columns
    <3> QED
      BY <1>1, <2>2, <3>3, BesideRecovers
  <2> QED
    BY <2>1, <2>3, <2>4, <2>5, <2>6
    DEF WriteSecret, UpdateCheck, UpdateWrite, DeleteMarks, DeletePurges, tables
<1> QED
  BY <1>3, <1>4 DEF ApiStep

\* The invariant holds initially.
LEMMA RecoveryInit == Init => RInv
<1> SUFFICES ASSUME Init PROVE RInv
  OBVIOUS
<1>1. /\ \A a \in Agents : row[a].status = "unborn"
      /\ pc = "queue" /\ todo = {} /\ calls = {} /\ IInv
  BY InitHolds DEF Init, PlatformInit, UnbornRow, WorkerInit, ApiInit
<1> QED
  BY <1>1 DEF RInv, Prepared, HandsOff, NoUpdateSeen, LiveInv, IsLive, Driven, Placed,
     Launched, Published, Updating, Looping, AtWork, Labels

\* Every step keeps the invariant.
LEMMA RecoveryStep ==
  ASSUME RoutesAccepted, RInv, [Next]_vars
  PROVE  RInv'
<1>0. IInv'
  BY StepHolds DEF RInv
<1>1. CASE WorkerStep /\ UNCHANGED <<apiVars, healthVars>>
  BY <1>0, <1>1, WorkerRecovers
<1>2. CASE Interrupted /\ UNCHANGED apiVars
  BY <1>0, <1>2, InterruptionRecovers
<1>3. CASE WatcherStep /\ UNCHANGED <<workerVars, apiVars, healthVars>>
  BY <1>0, <1>3, WatcherRecovers
<1>4. CASE DaemonStep /\ UNCHANGED <<workerVars, apiVars, healthVars>>
  BY <1>0, <1>4, RowsBeside, BesideRecovers
  DEF DaemonStep, ContainerDies, ContainerRestarts, apiVars, RInv, NoUpdateSeen
<1>5. CASE ApiStep /\ UNCHANGED <<workerVars, healthVars>>
  BY <1>0, <1>5, ApiRecovers
<1>6. CASE HealthLoopOn /\ HealthStep /\ UNCHANGED <<workerVars, apiVars>>
  BY <1>0, <1>6, HealthRecovers
<1>7. CASE UNCHANGED vars
  BY <1>0, <1>7, RowsBeside, BesideRecovers
  DEF vars, platform, apiVars, RInv, NoUpdateSeen
<1> QED
  BY <1>1, <1>2, <1>3, <1>4, <1>5, <1>6, <1>7 DEF Next

\* Once start-up has restored the routes that Caddy dropped, and until the
\* worker takes it up again, a running agent is reachable at its dashboard
\* port, wherever the worker exited and however often its host rebooted.
THEOREM RoutesRestored == RoutesAccepted => (Spec => []RunningIsRouted)
<1>1. RInv => RunningIsRouted
  BY DEF RInv, LiveInv, IsLive, Routed, Restorable, RunningIsRouted, WithStatus
<1>2. RoutesAccepted /\ RInv /\ [Next]_vars => RInv'
  BY RecoveryStep
<1>3. RoutesAccepted => RoutesAccepted'
  BY DEF RoutesAccepted
<1> QED
  BY RecoveryInit, <1>1, <1>2, <1>3, PTL DEF Spec

-----------------------------------------------------------------------------
(* Stops, deletions and crashes of agents that are up: the conditions.      *)
(* Owners stop and delete, Docker and Caddy remove what they are asked to.  *)
(* Containers die, the worker exits and its host reboots at any point.      *)

StopAndDelete ==
    /\ Verbs \subseteq {"stop", "delete"}
    /\ Faults \cap {"remove", "unroute"} = {}

\* The labels outside drive and updateAgent.
Tearing == Looping \cup {"down", "boot", "queue", "updates", "stops", "deletes"}

Torn == {"running", "unhealthy", "stopped", "crashed", "deleting", "gone"}

\* A row that names no container uses nothing of the host, and a container is
\* the one that its row names.
Accounted(a) ==
    /\ row[a].status \in Torn
    /\ row[a].status = "gone" => row[a].containerId = None
    /\ row[a].containerId = None => Clean(a)
    /\ Has(a) => box[a].id = row[a].containerId

TearStage(a) ==
    /\ pc \in {"stopRoute", "deleteRoute"} => ~Has(a)
    /\ pc \in {"stopPorts", "deletePorts"} => ~Has(a) /\ route[a] = None
    /\ pc \in {"stopClear", "deleteRow"} => Clean(a)

\* start-up restores the route of no row without a container, and the drains
\* know the container that the row still names.
ToTear(t) ==
    IF pc = "reconcile" THEN row[t.agent].containerId # None
                        ELSE row[t.agent].containerId \in {None, t.ref}

TearInv ==
    /\ IInv
    /\ pc \in Tearing
    /\ \A a \in Agents : Accounted(a)
    /\ pc \in AtWork => TearStage(job.agent)
    /\ \A t \in todo : ToTear(t)
    /\ \A c \in calls : c.at = "delete" /\ (~c.live => row[c.agent].containerId = None)

\* A step takes from an agent what it has, or leaves it alone.
Lessens(a) == /\ Has(a)' => Has(a) /\ box'[a].id = box[a].id
              /\ OwnedBy(a)' \subseteq OwnedBy(a)

RouteLessens(a) == route'[a] \in {route[a], None}

\* A step leaves the row as it is but for its status.
RowStays(a) ==
    /\ row'[a].containerId = row[a].containerId
    /\ row'[a].status \in Torn
    /\ row'[a].status = "gone" => row[a].containerId = None

\* Such steps keep the account of an agent.
LEMMA AccountKept ==
  ASSUME NEW a \in Agents, Accounted(a), RowStays(a), Lessens(a), RouteLessens(a)
  PROVE  Accounted(a)' /\ (Clean(a) => Clean(a)')
<1>1. Clean(a) => Clean(a)'
  BY DEF Clean, Lessens, RouteLessens
<1> QED
  BY <1>1 DEF Accounted, RowStays, Lessens

\* A step beside the worker.
LEMMA BesideTears ==
  ASSUME TearInv, IInv', UNCHANGED workerVars,
         \A a \in Agents : RowStays(a) /\ Lessens(a) /\ RouteLessens(a),
         \A c \in calls' : c.at = "delete" /\ (~c.live => row[c.agent].containerId = None),
         \A c \in calls' : c.agent \in Agents
  PROVE  TearInv'
<1>0. UNCHANGED <<pc, job, todo>> /\ \A t \in todo : t.agent \in Agents
  BY DEF workerVars, TearInv, IInv, TypeOK, WorkerTypeOK, Pending
<1>1. \A a \in Agents : Accounted(a)' /\ (Clean(a) => Clean(a)')
  BY AccountKept DEF TearInv
<1>2. pc' \in AtWork => TearStage(job.agent)'
  <2> SUFFICES ASSUME pc \in AtWork PROVE TearStage(job.agent)'
    BY <1>0
  <2>1. job.agent \in Agents /\ TearStage(job.agent)
    BY DEF TearInv, IInv, JobInv
  <2> QED
    BY <1>0, <1>1, <2>1 DEF TearStage, Lessens, RouteLessens
<1>3. \A t \in todo' : ToTear(t)'
  BY <1>0 DEF TearInv, ToTear, RowStays
<1>4. \A c \in calls' : c.at = "delete" /\ (~c.live => row'[c.agent].containerId = None)
  BY DEF RowStays
<1> QED
  BY <1>0, <1>1, <1>2, <1>3, <1>4 DEF TearInv

\* Rows that are not written stay, and what is not touched is not lessened.
LEMMA RowsStay ==
  ASSUME TearInv, UNCHANGED row
  PROVE  \A a \in Agents : RowStays(a)
  BY DEF TearInv, Accounted, RowStays

\* stopAndRemove takes containers only, and without a failure takes the one
\* that it is given.
LEMMA RemovalLessens ==
  ASSUME PlatformTypeOK, "remove" \notin Faults, NEW a \in Agents, NEW i, NEW pending,
         StopAndRemove(a, i, pending)
  PROVE  /\ \A b \in Agents : Has(b)' => Has(b) /\ box'[b] = box[b]
         /\ IsBox(a, i) => ~Has(a)'
         /\ pending \subseteq dies' /\ dies' \subseteq pending \cup DieEvent(a)
<1>1. box \in [Agents -> Container \cup {None}]
  BY DEF PlatformTypeOK
<1> QED
  BY <1>1 DEF StopAndRemove, IsBox, Has

\* ReleasePort takes the ports of one agent.
LEMMA ReleaseLessens ==
  ASSUME PlatformTypeOK, NEW a \in Agents, ReleasePort(a)
  PROVE  OwnedBy(a)' = {} /\ \A b \in Agents : OwnedBy(b)' \subseteq OwnedBy(b)
  BY PlatformAssumption DEF PlatformTypeOK, ReleasePort, OwnedBy

\* While rows are only stopped and deleted, these are the worker's steps.
LEMMA TearSteps ==
  ASSUME TearInv, WorkerStep
  PROVE  \/ UNCHANGED <<platform, todo>> /\ pc = "queue" /\ pc' = "updates" /\ job' = Idle
         \/ UNCHANGED <<platform, todo>> /\ pc = "updates" /\ pc' = "stops" /\ job' = Idle
         \/ DrainStopsFind \/ StopsBox \/ StopsRoute \/ StopsPorts \/ StopsClear
         \/ DrainDeletesFind \/ DeletesBox \/ DeletesRoute \/ DeletesPorts \/ DeletesRow
         \/ BootStep
<1>1. ~DriveStep
  BY DEF TearInv, Tearing, Looping, DriveStep, DriveRead, StaleBox, StaleRoute, StalePorts,
     StaleClear, SetAllocatingPorts, AllocateApiPort, AllocateDashboardPort, SetStarting,
     ReadSecretAndPrepare, CreateContainer, StartContainer, RecordContainer,
     SetHealthChecking, WaitForHealth, SetRegisteringRoute, RegisterRoute,
     MarkRunning, FailDeployment, CleanupBox, CleanupRoute, CleanupPorts
<1>2. ~(DrainQueueClaim \/ DrainUpdatesClaim \/ UpdateRead \/ SetUpdating \/ PullImage
           \/ StopOldContainer)
  BY DEF TearInv, Tearing, Looping, DrainQueueClaim, DrainUpdatesClaim, UpdateRead,
     SetUpdating, PullImage, StopOldContainer
<1>3. WithStatus("queued") = {} /\ Updatable = {}
  BY DEF TearInv, Accounted, Torn, WithStatus, Updatable
<1> QED
  BY <1>1, <1>2, <1>3 DEF WorkerStep, DrainStep, DrainQueueFind, DrainUpdatesFind, Oldest,
     Leave

\* What the worker takes, what it gives back at start-up, and the die events
\* that it causes.
LEMMA WorkerLessens ==
  ASSUME StopAndDelete, TearInv, WorkerStep, NEW b \in Agents
  PROVE  /\ Lessens(b)
         /\ RouteLessens(b) \/ (pc = "reconcile" /\ row[b].containerId # None)
<1>0. PlatformTypeOK /\ "remove" \notin Faults /\ "unroute" \notin Faults
      /\ \A t \in todo : t.agent \in Agents
  BY DEF TearInv, IInv, TypeOK, StopAndDelete, WorkerTypeOK, Pending
<1>1. UNCHANGED <<box, alloc>> => Lessens(b)
  BY DEF Lessens, Has, OwnedBy
<1>2. UNCHANGED route => RouteLessens(b)
  BY DEF RouteLessens
<1>3. CASE StopsBox \/ DeletesBox
  <2>1. UNCHANGED <<alloc, route>>
    BY <1>3 DEF StopsBox, DeletesBox, tables
  <2>2. PICK t \in todo : UNCHANGED box \/ StopAndRemove(t.agent, t.ref, dies)
    BY <1>3 DEF StopsBox, DeletesBox
  <2>3. Has(b)' => Has(b) /\ box'[b] = box[b]
    BY <1>0, <2>2, RemovalLessens DEF Has
  <2> QED
    BY <2>1, <2>3 DEF Lessens, RouteLessens, OwnedBy
<1>4. CASE StopsPorts \/ DeletesPorts
  <2>1. ReleasePort(job.agent) /\ UNCHANGED <<box, route>> /\ job.agent \in Agents
    BY <1>4 DEF StopsPorts, DeletesPorts, docker, TearInv, IInv, JobInv, AtWork, Labels
  <2>2. OwnedBy(b)' \subseteq OwnedBy(b)
    BY <1>0, <2>1, ReleaseLessens
  <2> QED
    BY <2>1, <2>2 DEF Lessens, RouteLessens, Has
<1>5. CASE StopsRoute \/ DeletesRoute
  <2>1. UNCHANGED <<box, alloc>> /\ route' = [route EXCEPT ![job.agent] = None]
    BY <1>0, <1>5 DEF StopsRoute, DeletesRoute, RemoveRoute, tables, docker
  <2> QED
    BY <1>0, <1>1, <2>1 DEF RouteLessens, PlatformTypeOK
<1>6. CASE ReconcileRoute
  <2>1. UNCHANGED <<box, alloc>> /\ pc = "reconcile"
    BY <1>6 DEF ReconcileRoute, tables, docker
  <2>2. PICK t \in todo : AddRoute(t.agent, t.ref) \/ UNCHANGED route
    BY <1>6 DEF ReconcileRoute
  <2>3. RouteLessens(b) \/ b = t.agent
    BY <1>0, <2>2 DEF RouteLessens, AddRoute, PlatformTypeOK
  <2> QED
    BY <1>1, <2>1, <2>3 DEF TearInv, ToTear
<1> QED
  BY <1>1, <1>2, <1>3, <1>4, <1>5, <1>6, TearSteps
  DEF BootStep, WorkerBoot, ReconcileFind, MainLoopStarts, DrainStopsFind, StopsClear,
      DrainDeletesFind, DeletesRow, platform, tables, docker

\* The rows that the worker clears or deletes belong to agents that use
\* nothing of the host any more.
TakesLeave(a) == /\ row'[a].containerId = None
                 /\ row'[a].status \in {"gone", row[a].status}
                 /\ Clean(a) /\ Lessens(a) /\ RouteLessens(a)
                 /\ pc \in {"stopClear", "deleteRow"}

\* A row changes under the worker only where its sweep of that row ends.
LEMMA WorkerClears ==
  ASSUME StopAndDelete, TearInv, WorkerStep, NEW b \in Agents
  PROVE  (RowStays(b) /\ row'[b] = row[b]) \/ TakesLeave(b)
<1>0. PlatformTypeOK
  BY DEF TearInv, IInv, TypeOK
<1>1. CASE UNCHANGED row
  BY <1>1, RowsStay
<1>2. CASE StopsClear \/ DeletesRow
  <2>1. job.agent \in Agents /\ Clean(job.agent)
        /\ pc \in {"stopClear", "deleteRow"}
    BY <1>2 DEF StopsClear, DeletesRow, TearInv, TearStage, IInv, JobInv, AtWork, Labels
  <2> PICK a \in Agents : a = job.agent
    BY <2>1
  <2>2. CASE Exists(a) /\ StopsClear
    <3>1. row' = [row EXCEPT ![a] = Cleared(@)]
      BY <2>2 DEF StopsClear
    <3>2. /\ row'[a].containerId = None /\ row'[a].status = row[a].status
          /\ \A c \in Agents \ {a} : row'[c] = row[c]
      BY <1>0, <3>1, ColumnsOnly DEF Blank
    <3> QED
      BY <2>1, <2>2, <3>2, WorkerLessens DEF TakesLeave, RowStays, TearInv, Accounted
  <2>3. CASE Exists(a) /\ DeletesRow
    <3>1. row' = [row EXCEPT ![a] = GoneRow]
      BY <2>3 DEF DeletesRow
    <3>2. /\ row'[a].containerId = None /\ row'[a].status = "gone"
          /\ \A c \in Agents \ {a} : row'[c] = row[c]
      BY <1>0, <3>1 DEF PlatformTypeOK, GoneRow, UnbornRow
    <3> QED
      BY <2>1, <2>3, <3>2, WorkerLessens DEF TakesLeave, RowStays, TearInv, Accounted, Torn
  <2>4. CASE ~Exists(a)
    BY <1>1, <1>2, <2>4 DEF StopsClear, DeletesRow
  <2> QED
    BY <1>2, <2>2, <2>3, <2>4
<1> QED
  BY <1>1, <1>2, TearSteps
  DEF BootStep, WorkerBoot, ReconcileFind, ReconcileRoute, MainLoopStarts, DrainStopsFind,
      StopsBox, StopsRoute, StopsPorts, DrainDeletesFind, DeletesBox, DeletesRoute,
      DeletesPorts, platform, tables

\* The worker takes what an agent has in the order in which the stages say.
LEMMA WorkerTearStage ==
  ASSUME StopAndDelete, TearInv, WorkerStep
  PROVE  pc' \in Tearing /\ (pc' \in AtWork => TearStage(job.agent)')
<1>0. PlatformTypeOK /\ "remove" \notin Faults /\ "unroute" \notin Faults
      /\ \A t \in todo : t.agent \in Agents
  BY DEF TearInv, IInv, TypeOK, StopAndDelete, WorkerTypeOK, Pending
<1> USE DEF Goto, Leave, Tearing, Looping, AtWork, Labels
<1>1. CASE StopsBox \/ DeletesBox
  <2> PICK t \in todo :
        /\ job' = [Idle EXCEPT !.kind = "sweep", !.agent = t.agent, !.old = t.ref]
        /\ pc \in {"stopBox", "deleteBox"}
        /\ \/ StopAndRemove(t.agent, t.ref, dies)
           \/ t.ref = None /\ UNCHANGED box
    BY <1>1 DEF StopsBox, DeletesBox, Sweep
  <2> PICK a \in Agents : a = t.agent
    BY <1>0
  <2>1. job'.agent = a /\ pc' \in {"stopRoute", "deleteRoute"}
    BY <1>1 DEF StopsBox, DeletesBox, Sweep, Idle
  <2>2. Has(a) => box[a].id = t.ref /\ t.ref # None
    BY DEF TearInv, ToTear, Accounted, Clean
  <2>3. ~Has(a)'
    <3>1. CASE StopAndRemove(a, t.ref, dies)
      BY <1>0, <2>2, <3>1, RemovalLessens DEF IsBox
    <3>2. CASE t.ref = None /\ UNCHANGED box
      BY <2>2, <3>2 DEF Has
    <3> QED
      BY <3>1, <3>2
  <2> QED
    BY <2>1, <2>3 DEF TearStage
<1>2. CASE StopsRoute \/ DeletesRoute
  <2> PICK a \in Agents : a = job.agent
    BY <1>2 DEF StopsRoute, DeletesRoute, TearInv, IInv, JobInv
  <2>1. job'.agent = a /\ pc' \in {"stopPorts", "deletePorts"} /\ ~Has(a) /\ UNCHANGED box
        /\ route' = [route EXCEPT ![a] = None]
    BY <1>0, <1>2 DEF StopsRoute, DeletesRoute, RemoveRoute, docker, TearInv, TearStage
  <2> QED
    BY <1>0, <2>1 DEF TearStage, Has, PlatformTypeOK
<1>3. CASE StopsPorts \/ DeletesPorts
  <2> PICK a \in Agents : a = job.agent
    BY <1>3 DEF StopsPorts, DeletesPorts, TearInv, IInv, JobInv
  <2>1. job'.agent = a /\ pc' \in {"stopClear", "deleteRow"} /\ ~Has(a) /\ route[a] = None
        /\ UNCHANGED <<box, route>> /\ ReleasePort(a)
    BY <1>3 DEF StopsPorts, DeletesPorts, docker, TearInv, TearStage
  <2>2. OwnedBy(a)' = {}
    BY <1>0, <2>1, ReleaseLessens
  <2> QED
    BY <2>1, <2>2 DEF TearStage, Has, Clean
<1>4. CASE StopsClear \/ DeletesRow \/ DrainStopsFind \/ DrainDeletesFind
  BY <1>4 DEF StopsClear, DeletesRow, DrainStopsFind, DrainDeletesFind
<1>5. CASE BootStep
  BY <1>5 DEF BootStep, WorkerBoot, ReconcileFind, ReconcileRoute, MainLoopStarts
<1> QED
  BY <1>1, <1>2, <1>3, <1>4, <1>5, TearSteps

\* The worker keeps the invariant.
LEMMA WorkerTears ==
  ASSUME StopAndDelete, TearInv, WorkerStep, IInv', UNCHANGED <<apiVars, healthVars>>
  PROVE  TearInv'
<1>1. \A a \in Agents : Accounted(a)'
  <2> SUFFICES ASSUME NEW a \in Agents PROVE Accounted(a)'
    OBVIOUS
  <2>1. Accounted(a) /\ Lessens(a)
    BY WorkerLessens DEF TearInv
  <2>2. CASE TakesLeave(a)
    BY <2>1, <2>2 DEF TakesLeave, Accounted, Torn, Lessens, RouteLessens, Clean
  <2>3. CASE RowStays(a) /\ RouteLessens(a)
    BY <2>1, <2>3, AccountKept
  <2>4. CASE RowStays(a) /\ row[a].containerId # None
    BY <2>1, <2>4 DEF RowStays, Accounted, Lessens
  <2> QED
    BY <2>2, <2>3, <2>4, WorkerClears, WorkerLessens
<1>2. \A t \in todo' : ToTear(t)'
  <2> SUFFICES ASSUME NEW t \in todo' PROVE ToTear(t)'
    OBVIOUS
  <2> USE DEF Goto, Leave
  <2>1. CASE t \in todo /\ (pc = "reconcile" <=> pc' = "reconcile")
    <3>1. t.agent \in Agents
      BY <2>1 DEF TearInv, IInv, TypeOK, WorkerTypeOK, Pending
    <3> QED
      BY <2>1, <3>1, WorkerClears DEF TearInv, ToTear, TakesLeave
  <2>2. CASE DrainStopsFind \/ DrainDeletesFind \/ ReconcileFind
    BY <2>2 DEF DrainStopsFind, DrainDeletesFind, ReconcileFind, ToTear, Reconcilable,
       platform
  <2>3. CASE UNCHANGED todo /\ pc \in {"queue", "updates"} /\ pc' \in {"updates", "stops"}
    BY <2>1, <2>3
  <2>4. CASE StopsBox \/ StopsRoute \/ StopsPorts \/ StopsClear
    BY <2>1, <2>4 DEF StopsBox, StopsRoute, StopsPorts, StopsClear, Sweep
  <2>5. CASE DeletesBox \/ DeletesRoute \/ DeletesPorts \/ DeletesRow
    BY <2>1, <2>5 DEF DeletesBox, DeletesRoute, DeletesPorts, DeletesRow, Sweep
  <2>6. CASE WorkerBoot \/ ReconcileRoute \/ MainLoopStarts
    BY <2>1, <2>6 DEF WorkerBoot, ReconcileRoute, MainLoopStarts
  <2> QED
    BY <2>2, <2>3, <2>4, <2>5, <2>6, TearSteps DEF BootStep
<1>3. \A c \in calls' : c.at = "delete" /\ (~c.live => row'[c.agent].containerId = None)
  <2> SUFFICES ASSUME NEW c \in calls
               PROVE  c.at = "delete" /\ (~c.live => row'[c.agent].containerId = None)
    BY DEF apiVars
  <2>1. c.agent \in Agents
    BY DEF TearInv, IInv, TypeOK, ApiTypeOK, Call
  <2> QED
    BY <2>1, WorkerClears DEF TearInv, TakesLeave
<1> QED
  BY <1>1, <1>2, <1>3, WorkerTearStage DEF TearInv

\* The end of the process and a reboot of the host.
LEMMA InterruptionTears ==
  ASSUME TearInv, Interrupted, UNCHANGED apiVars, IInv'
  PROVE  TearInv'
<1>1. /\ ProcessEnds /\ UNCHANGED <<row, alloc, calls>>
      /\ route' \in {route, [a \in Agents |-> None]}
      /\ UNCHANGED box \/ box' = [a \in Agents |-> BoxAfterReboot(box[a])]
  BY DEF Interrupted, Interruption, WorkerCrash, HostReboot, tables, apiVars
<1>2. ASSUME NEW a \in Agents PROVE RowStays(a) /\ Lessens(a) /\ RouteLessens(a)
  <2>1. box[a] \in Container \cup {None}
    BY DEF TearInv, IInv, TypeOK, PlatformTypeOK
  <2>2. /\ BoxAfterReboot(box[a]) # None => box[a] # None
        /\ box[a] # None => BoxAfterReboot(box[a]).id = box[a].id
    BY <2>1 DEF BoxAfterReboot, Container
  <2>3. Lessens(a)
    BY <1>1, <2>2 DEF Lessens, Has, OwnedBy
  <2> QED
    BY <1>1, <2>3, RowsStay DEF RouteLessens
<1>3. \A a \in Agents : Accounted(a)'
  BY <1>2, AccountKept DEF TearInv
<1>4. pc' = "down" /\ todo' = {}
  BY <1>1 DEF ProcessEnds
<1> QED
  BY <1>1, <1>3, <1>4 DEF TearInv, Tearing, AtWork, Labels

\* A step of the daemon changes the state of a container.
LEMMA DaemonLessens ==
  ASSUME PlatformTypeOK, DaemonStep
  PROVE  /\ \A a \in Agents : Lessens(a) /\ RouteLessens(a)
         /\ UNCHANGED <<row, alloc, route>>
         /\ dies \subseteq dies' /\ dies' \subseteq dies \cup UNION {DieEvent(a) : a \in Agents}
<1> PICK a \in Agents : ContainerDies(a) \/ ContainerRestarts(a)
  BY DEF DaemonStep
<1>1. box[a] \in Container /\ box \in [Agents -> Container \cup {None}]
  BY DEF PlatformTypeOK, ContainerDies, ContainerRestarts, IsUp, Has
<1>2. /\ \A b \in Agents \ {a} : box'[b] = box[b]
      /\ box'[a].id = box[a].id
  BY <1>1 DEF ContainerDies, ContainerRestarts, Container
<1>3. UNCHANGED <<row, alloc, route>>
  BY DEF ContainerDies, ContainerRestarts
<1>4. dies \subseteq dies' /\ dies' \subseteq dies \cup DieEvent(a)
  BY DEF ContainerDies, ContainerRestarts
<1> QED
  BY <1>1, <1>2, <1>3, <1>4, PlatformAssumption DEF Lessens, RouteLessens, Has, OwnedBy

\* The crash watcher marks, releases and removes.
LEMMA WatcherLessens ==
  ASSUME StopAndDelete, TearInv, WatcherStep
  PROVE  \A a \in Agents : RowStays(a) /\ Lessens(a) /\ RouteLessens(a)
<1>0. PlatformTypeOK /\ "remove" \notin Faults /\ UNCHANGED route
  BY DEF TearInv, IInv, TypeOK, StopAndDelete, WatcherStep
<1>1. PICK d \in dies : CrashRead(d) \/ CrashMark(d) \/ CrashLog(d)
                          \/ CrashRelease(d) \/ CrashSweep(d)
  BY DEF WatcherStep
<1>2. d.agent \in Agents
  BY <1>0 DEF PlatformTypeOK, Death
<1>3. \A a \in Agents : RouteLessens(a)
  BY <1>0 DEF RouteLessens
<1>4. \A a \in Agents : RowStays(a)
  <2>1. CASE UNCHANGED row
    BY <2>1, RowsStay
  <2>2. CASE Exists(d.agent) /\ SetStatus(d.agent, "crashed")
    BY <1>0, <1>2, <2>2, StatusOnly DEF RowStays, TearInv, Accounted, Torn, Columns
  <2> QED
    BY <1>1, <2>1, <2>2 DEF CrashRead, CrashMark, CrashLog, CrashRelease, CrashSweep
<1>5. ASSUME NEW a \in Agents PROVE Lessens(a)
  <2>1. CASE UNCHANGED <<box, alloc>>
    BY <2>1 DEF Lessens, Has, OwnedBy
  <2>2. CASE CrashRelease(d)
    <3>1. OwnedBy(a)' \subseteq OwnedBy(a) /\ UNCHANGED box
      BY <1>0, <1>2, <2>2, ReleaseLessens DEF CrashRelease
    <3> QED
      BY <3>1 DEF Lessens, Has
  <2>3. CASE CrashSweep(d)
    <3>1. StopAndRemove(d.agent, d.id, dies \ {d}) /\ UNCHANGED alloc
      BY <2>3 DEF CrashSweep
    <3>2. Has(a)' => Has(a) /\ box'[a] = box[a]
      BY <1>0, <1>2, <3>1, RemovalLessens DEF Has
    <3> QED
      BY <3>1, <3>2 DEF Lessens, OwnedBy
  <2> QED
    BY <1>1, <2>1, <2>2, <2>3 DEF CrashRead, CrashMark, CrashLog
<1> QED
  BY <1>3, <1>4, <1>5

\* The health loop toggles the status.
LEMMA HealthLessens ==
  ASSUME TearInv, HealthStep
  PROVE  /\ \A a \in Agents : RowStays(a) /\ Lessens(a) /\ RouteLessens(a)
         /\ \A a \in Agents : row'[a].status = "crashed" => row[a].status = "crashed"
<1>0. PlatformTypeOK /\ probes \in SUBSET Probe /\ UNCHANGED <<box, alloc, route>>
  BY DEF TearInv, IInv, TypeOK, HealthTypeOK, HealthStep, docker
<1>1. \A a \in Agents : Lessens(a) /\ RouteLessens(a)
  BY <1>0 DEF Lessens, RouteLessens, Has, OwnedBy
<1>2. CASE UNCHANGED row
  BY <1>1, <1>2, RowsStay
<1>3. CASE \E a \in Agents, from, to \in {"running", "unhealthy"} :
             row[a].status = from /\ SetStatus(a, to)
  BY <1>0, <1>1, <1>3, StatusOnly DEF RowStays, TearInv, Accounted, Torn, Columns
<1>4. UNCHANGED row \/ \E a \in Agents, from, to \in {"running", "unhealthy"} :
                         row[a].status = from /\ SetStatus(a, to)
  BY <1>0 DEF HealthStep, ProbeAllFind, ProbeSucceeds, ProbeFails, MarkUnhealthy,
     Recover, Toggle, Probe
<1> QED
  BY <1>2, <1>3, <1>4

\* A stop, and the two ends of a deletion, which the API carries out itself
\* when the row named no container.
LEMMA ApiLessens ==
  ASSUME StopAndDelete, TearInv, ApiStep
  PROVE  /\ \A a \in Agents : RowStays(a) /\ Lessens(a) /\ RouteLessens(a)
         /\ \A a \in Agents : row'[a].status = "crashed" => row[a].status = "crashed"
         /\ \A c \in calls' : c.at = "delete" /\ (~c.live => row[c.agent].containerId = None)
         /\ UNCHANGED dies
<1>0. PlatformTypeOK /\ calls \in SUBSET Call
  BY DEF TearInv, IInv, TypeOK, ApiTypeOK
<1>1. UNCHANGED <<box, route, dies>>
  BY DEF ApiStep, FinishCall, docker
<1>2. \A a \in Agents : RouteLessens(a) /\ (UNCHANGED alloc => Lessens(a))
  BY <1>1 DEF RouteLessens, Lessens, Has, OwnedBy
<1>3. ASSUME NEW a \in Agents, NEW s \in {"stopped", "deleting"}, SetStatus(a, s), Exists(a)
      PROVE  \A b \in Agents : /\ RowStays(b)
                               /\ row'[b].status = "crashed" => row[b].status = "crashed"
  BY <1>0, <1>3, StatusOnly DEF RowStays, TearInv, Accounted, Torn, Columns
<1>4. CASE NewRequest /\ UNCHANGED alloc
  <2>1. PICK a \in Agents : Control(a, "stop") \/ DeleteRead(a)
    BY <1>4 DEF NewRequest, CreateRow, Control, UpdateRequest, Request, StopAndDelete,
       TearInv, Accounted, Torn, Oldest, WithStatus
  <2>2. CASE Control(a, "stop")
    <3>1. SetStatus(a, "stopped") /\ Exists(a) /\ UNCHANGED calls
      BY <2>2 DEF Control, ACTION_TO_STATUS
    <3> QED
      BY <1>1, <1>2, <1>3, <1>4, <3>1 DEF TearInv
  <2>3. CASE DeleteRead(a)
    <3> DEFINE live == row[a].containerId # None
               c    == [NewCall(a, "delete") EXCEPT !.live = live]
    <3>1. c.at = "delete" /\ c.agent = a /\ c.live = live
      BY DEF NewCall
    <3>2. calls' = calls \cup {c} /\ UNCHANGED row
      BY <2>3 DEF DeleteRead
    <3>3. \A d \in calls' : d.at = "delete" /\ (~d.live => row[d.agent].containerId = None)
      BY <3>1, <3>2 DEF TearInv
    <3> QED
      BY <1>1, <1>2, <1>4, <3>2, <3>3, RowsStay
  <2> QED
    BY <2>1, <2>2, <2>3
<1>5. CASE FinishCall
  <2> PICK c \in calls : \/ WriteSecret(c) \/ UpdateCheck(c) \/ UpdateWrite(c)
                         \/ DeleteMarks(c) \/ DeletePurges(c)
    BY <1>5 DEF FinishCall
  <2>1. c.agent \in Agents /\ c.at = "delete"
        /\ (~c.live => row[c.agent].containerId = None)
    BY <1>0 DEF TearInv, Call
  <2>2. DeleteMarks(c) \/ DeletePurges(c)
    BY <2>1 DEF WriteSecret, UpdateCheck, UpdateWrite
  <2>3. \A d \in calls' : d.at = "delete" /\ (~d.live => row[d.agent].containerId = None)
    BY <2>2 DEF DeleteMarks, DeletePurges, End, TearInv
  <2>4. CASE UNCHANGED <<row, alloc>>
    BY <1>1, <1>2, <2>3, <2>4, RowsStay
  <2>5. CASE Exists(c.agent) /\ DeleteMarks(c)
    BY <1>1, <1>2, <1>3, <2>1, <2>3, <2>5 DEF DeleteMarks
  <2>6. CASE Exists(c.agent) /\ DeletePurges(c)
    <3>1. row' = [row EXCEPT ![c.agent] = GoneRow] /\ ReleasePort(c.agent)
          /\ row[c.agent].containerId = None
      BY <2>1, <2>6 DEF DeletePurges, GoneRow
    <3>2. /\ row'[c.agent].status = "gone" /\ row'[c.agent].containerId = None
          /\ \A b \in Agents \ {c.agent} : row'[b] = row[b]
      BY <1>0, <2>1, <3>1 DEF PlatformTypeOK, GoneRow, UnbornRow
    <3>3. \A b \in Agents : /\ RowStays(b)
                            /\ row'[b].status = "crashed" => row[b].status = "crashed"
      BY <3>1, <3>2 DEF RowStays, TearInv, Accounted, Torn
    <3>4. \A b \in Agents : Lessens(b)
      BY <1>0, <1>1, <2>1, <3>1, ReleaseLessens DEF Lessens, Has
    <3> QED
      BY <1>1, <1>2, <2>3, <3>3, <3>4
  <2> QED
    BY <2>2, <2>4, <2>5, <2>6 DEF DeleteMarks, DeletePurges, tables
<1> QED
  BY <1>4, <1>5 DEF ApiStep

\* Where every agent is up, the invariants hold.
LEMMA UpTyped == AllUp => IInv
<1> SUFFICES ASSUME AllUp PROVE IInv
  OBVIOUS
<1>1. WorkerTypeOK /\ JobInv
  BY IdleTyped DEF AllUp, WorkerInit, WorkerTypeOK, JobInv, AtWork, Imaged, Labels
<1>2. ApiTypeOK /\ HealthTypeOK
  BY HealthLoopAssumption
  DEF AllUp, ApiInit, ApiTypeOK, HealthInit, HealthTypeOK, NoFailures
<1>3. TargetInv
  BY DEF AllUp, WorkerInit, ApiInit, TargetInv
<1> QED
  BY <1>1, <1>2, <1>3 DEF AllUp, IInv, TypeOK

\* Every agent is up and served at first.
LEMMA TearInit == AllUp => TearInv
<1> SUFFICES ASSUME AllUp PROVE TearInv
  OBVIOUS
<1>1. ASSUME NEW a \in Agents PROVE Accounted(a)
  <2>1. /\ row[a].status = "running" /\ Has(a) /\ box[a].id = row[a].containerId
        /\ box[a] \in Container \cup {None}
    BY DEF AllUp, Served, IsUp, PlatformTypeOK
  <2>2. row[a].containerId # None
    BY <2>1, PlatformAssumption DEF Has, Container
  <2> QED
    BY <2>1, <2>2 DEF Accounted, Torn
<1>2. pc = "queue" /\ todo = {} /\ calls = {}
  BY DEF AllUp, WorkerInit, ApiInit
<1> QED
  BY <1>1, <1>2, UpTyped DEF TearInv, Tearing, AtWork, Labels

\* Every step keeps what the teardowns rely on.
LEMMA TearStep ==
  ASSUME StopAndDelete, TearInv, [Next]_vars
  PROVE  TearInv'
<1>0. IInv' /\ \A c \in calls' : c.agent \in Agents
  BY StepHolds DEF TearInv, IInv, TypeOK, ApiTypeOK, Call
<1>1. CASE WorkerStep /\ UNCHANGED <<apiVars, healthVars>>
  BY <1>0, <1>1, WorkerTears
<1>2. CASE Interrupted /\ UNCHANGED apiVars
  BY <1>0, <1>2, InterruptionTears
<1>3. CASE WatcherStep /\ UNCHANGED <<workerVars, apiVars, healthVars>>
  BY <1>0, <1>3, WatcherLessens, BesideTears DEF apiVars, TearInv
<1>4. CASE DaemonStep /\ UNCHANGED <<workerVars, apiVars, healthVars>>
  BY <1>0, <1>4, DaemonLessens, RowsStay, BesideTears
  DEF apiVars, TearInv, IInv, TypeOK
<1>5. CASE ApiStep /\ UNCHANGED <<workerVars, healthVars>>
  BY <1>0, <1>5, ApiLessens, BesideTears
<1>6. CASE HealthStep /\ UNCHANGED <<workerVars, apiVars>>
  BY <1>0, <1>6, HealthLessens, BesideTears DEF apiVars, TearInv
<1>7. CASE UNCHANGED vars
  <2>1. UNCHANGED <<row, alloc, box, route, workerVars, calls>>
    BY <1>7 DEF vars, platform, apiVars
  <2>2. \A a \in Agents : Lessens(a) /\ RouteLessens(a)
    BY <2>1 DEF Lessens, RouteLessens, Has, OwnedBy
  <2> QED
    BY <1>0, <2>1, <2>2, RowsStay, BesideTears DEF TearInv
<1> QED
  BY <1>1, <1>2, <1>3, <1>4, <1>5, <1>6, <1>7 DEF Next

\* The invariant of the teardowns, of every behaviour from there.
LEMMA TearHolds == StopAndDelete => (UpSpec => []TearInv)
<1>1. StopAndDelete /\ TearInv /\ [Next]_vars => TearInv'
  BY TearStep
<1>2. StopAndDelete => StopAndDelete'
  BY DEF StopAndDelete
<1> QED
  BY TearInit, <1>1, <1>2, PTL DEF UpSpec

\* A deleted agent that was up leaves nothing on the host, whichever of the API
\* and the worker deletes it, and whatever dies, exits or reboots meanwhile.
THEOREM DeletionCleans == StopAndDelete => (UpSpec => []GoneIsClean)
<1>1. TearInv => GoneIsClean
  BY DEF TearInv, Accounted, GoneIsClean, WithStatus
<1> QED
  BY <1>1, TearHolds, PTL

\* The same of a stopped agent: a stop takes effect although containers die,
\* the worker exits between its steps or its host reboots.
THEOREM StopsSurvive == StopAndDelete => (UpSpec => []StoppedIsClean)
<1>1. TearInv => StoppedIsClean
  BY DEF TearInv, Accounted, StoppedIsClean, Quiet, Stopped, WithStatus
<1> QED
  BY <1>1, TearHolds, PTL

-----------------------------------------------------------------------------
(* Crashes: besides the conditions above, the worker does not exit, for a   *)
(* handler of its process would be lost, and crashed containers are not     *)
(* kept.                                                                    *)

CrashesHandled ==
    /\ StopAndDelete
    /\ ~keepCrashedContainers
    /\ MaxCrashes = 0 /\ MaxReboots = 0

Swept(a) == ~Has(a) /\ OwnedBy(a) = {}

\* A handler that has marked the row and will remove the container.
Sweeps(d) == d.at \in {"log", "release"} \/ (d.at = "sweep" /\ OwnedBy(d.agent) = {})

SweptOrHandled(a) == Swept(a) \/ \E d \in dies : d.agent = a /\ Sweeps(d)

CrashInv ==
    /\ \A d \in dies : Has(d.agent) => d.id = box[d.agent].id
    /\ \A a \in Agents : row[a].status = "crashed" => SweptOrHandled(a)

\* Steps that handle no event and crash no row.
LEMMA CrashKept ==
  ASSUME TearInv, CrashInv, \A a \in Agents : Lessens(a), dies \subseteq dies',
         dies' \subseteq dies \cup UNION {DieEvent(a) : a \in Agents},
         \A a \in Agents : row'[a].status = "crashed" => row[a].status = "crashed"
  PROVE  CrashInv'
<1>0. \A d \in dies : d.agent \in Agents
  BY DEF TearInv, IInv, TypeOK, PlatformTypeOK, Death
<1>1. ASSUME NEW d \in dies', Has(d.agent)' PROVE d.id = box'[d.agent].id
  <2>1. d.agent \in Agents /\ (Has(d.agent) => d.id = box[d.agent].id)
    BY <1>0 DEF CrashInv, DieEvent
  <2> QED
    BY <1>1, <2>1 DEF Lessens
<1>2. ASSUME NEW a \in Agents, row'[a].status = "crashed" PROVE SweptOrHandled(a)'
  <2>1. Lessens(a) /\ SweptOrHandled(a)
    BY <1>2 DEF CrashInv
  <2>2. CASE Swept(a)
    BY <2>1, <2>2 DEF Swept, Lessens, SweptOrHandled
  <2>3. CASE \E d \in dies : d.agent = a /\ Sweeps(d)
    BY <2>1, <2>3 DEF Sweeps, Lessens, SweptOrHandled
  <2> QED
    BY <2>1, <2>2, <2>3 DEF SweptOrHandled
<1> QED
  BY <1>1, <1>2 DEF CrashInv

\* The worker's teardowns cause die events and crash no row.
LEMMA WorkerKeepsCrash ==
  ASSUME StopAndDelete, TearInv, CrashInv, WorkerStep
  PROVE  CrashInv'
<1>0. PlatformTypeOK /\ "remove" \notin Faults /\ \A t \in todo : t.agent \in Agents
  BY DEF TearInv, IInv, TypeOK, StopAndDelete, WorkerTypeOK, Pending
<1>1. dies \subseteq dies' /\ dies' \subseteq dies \cup UNION {DieEvent(a) : a \in Agents}
  <2>1. CASE UNCHANGED dies
    BY <2>1
  <2>2. CASE StopsBox \/ DeletesBox
    <3> PICK t \in todo : UNCHANGED dies \/ StopAndRemove(t.agent, t.ref, dies)
      BY <2>2 DEF StopsBox, DeletesBox
    <3> QED
      BY <1>0, RemovalLessens
  <2> QED
    BY <2>1, <2>2, TearSteps
    DEF BootStep, WorkerBoot, ReconcileFind, ReconcileRoute, MainLoopStarts, DrainStopsFind,
        StopsRoute, StopsPorts, StopsClear, DrainDeletesFind, DeletesRoute, DeletesPorts,
        DeletesRow, platform, docker
<1>2. ASSUME NEW a \in Agents, row'[a].status = "crashed" PROVE row[a].status = "crashed"
  BY <1>2, WorkerClears DEF TakesLeave
<1> QED
  BY <1>1, <1>2, WorkerLessens, CrashKept

\* The crash watcher: a row that it marks has a handler that goes on to sweep.
LEMMA WatcherKeepsCrash ==
  ASSUME CrashesHandled, TearInv, CrashInv, WatcherStep
  PROVE  CrashInv'
<1>0. PlatformTypeOK /\ "remove" \notin Faults /\ \A a \in Agents : Accounted(a)
  BY DEF TearInv, IInv, TypeOK, StopAndDelete, CrashesHandled
<1>1. PICK d \in dies : CrashRead(d) \/ CrashMark(d) \/ CrashLog(d)
                          \/ CrashRelease(d) \/ CrashSweep(d)
  BY DEF WatcherStep
<1>2. d \in Death /\ d.agent \in Agents
  BY <1>0 DEF PlatformTypeOK, Death
<1>3. \A a \in Agents : Lessens(a)
  BY WatcherLessens DEF CrashesHandled
<1>4. ASSUME NEW e \in Death, dies' = (dies \ {d}) \cup {e} \/ dies' = dies \ {d},
             e.agent = d.agent, e.id = d.id
      PROVE  \A c \in dies' : Has(c.agent)' => c.id = box'[c.agent].id
  <2> SUFFICES ASSUME NEW c \in dies', Has(c.agent)' PROVE c.id = box'[c.agent].id
    OBVIOUS
  <2>1. c.agent \in Agents /\ (Has(c.agent) => c.id = box[c.agent].id)
    BY <1>0, <1>2, <1>4 DEF CrashInv, PlatformTypeOK, Death
  <2> QED
    BY <1>3, <2>1 DEF Lessens
\* Whoever is swept or handled by another handler stays so.
<1>5. ASSUME NEW a \in Agents, row[a].status = "crashed", dies \ {d} \subseteq dies',
             d.agent = a => ~Sweeps(d)
      PROVE  SweptOrHandled(a)'
  <2>1. Lessens(a) /\ SweptOrHandled(a)
    BY <1>3, <1>5 DEF CrashInv
  <2>2. CASE Swept(a)
    BY <2>1, <2>2 DEF Swept, Lessens, SweptOrHandled
  <2>3. CASE \E c \in dies \ {d} : c.agent = a /\ Sweeps(c)
    BY <1>5, <2>1, <2>3 DEF Sweeps, Lessens, SweptOrHandled
  <2> QED
    BY <1>5, <2>1, <2>2, <2>3 DEF SweptOrHandled
<1>6. CASE CrashRead(d)
  <2>1. UNCHANGED row /\ d.at = "event" /\ (Finish(d) \/ Advance(d, "mark"))
    BY <1>6 DEF CrashRead
  <2> DEFINE e == [d EXCEPT !.at = "mark"]
  <2>2. e \in Death /\ e.agent = d.agent /\ e.id = d.id
    BY <1>2 DEF Death
  <2>3. dies' = (dies \ {d}) \cup {e} \/ dies' = dies \ {d}
    BY <2>1 DEF Finish, Advance
  <2> HIDE DEF e
  <2>4. ~Sweeps(d)
    BY <2>1 DEF Sweeps
  <2> QED
    BY <1>4, <1>5, <2>1, <2>2, <2>3, <2>4 DEF CrashInv
<1>7. CASE CrashMark(d) \/ CrashLog(d)
  <2> DEFINE e(at) == [d EXCEPT !.at = at]
  <2>1. \A at \in {"log", "release"} :
           /\ e(at) \in Death /\ e(at).agent = d.agent /\ e(at).id = d.id
           /\ e(at).at = at
    BY <1>2 DEF Death
  <2>2. CASE ~Exists(d.agent)
    <3>1. UNCHANGED row /\ dies' = dies \ {d} /\ row[d.agent].status # "crashed"
      BY <1>7, <2>2 DEF CrashMark, CrashLog, Finish, Exists, NoRow
    <3>2. ASSUME NEW a \in Agents, row'[a].status = "crashed" PROVE SweptOrHandled(a)'
      BY <1>5, <3>1, <3>2
    <3>3. \A c \in dies' : Has(c.agent)' => c.id = box'[c.agent].id
      BY <1>2, <1>4, <3>1
    <3> QED
      BY <3>2, <3>3 DEF CrashInv
  <2>3. CASE Exists(d.agent)
    <3>1. PICK at \in {"log", "release"} : dies' = (dies \ {d}) \cup {e(at)}
      BY <1>7, <2>3 DEF CrashMark, CrashLog, Advance
    <3>2. \A a \in Agents \ {d.agent} : row'[a] = row[a]
      BY <1>0, <1>2, <1>7, <2>3, StatusOnly DEF CrashMark, CrashLog
    <3>3. SweptOrHandled(d.agent)'
      <4> DEFINE f == e(at)
      <4>1. f \in dies' /\ f.agent = d.agent /\ f.at \in {"log", "release"}
        BY <2>1, <3>1
      <4> HIDE DEF f
      <4> QED
        BY <4>1 DEF SweptOrHandled, Sweeps
    <3>4. ASSUME NEW a \in Agents, row'[a].status = "crashed" PROVE SweptOrHandled(a)'
      BY <1>5, <3>1, <3>2, <3>3, <3>4
    <3>5. \A c \in dies' : Has(c.agent)' => c.id = box'[c.agent].id
      BY <1>4, <2>1, <3>1
    <3> QED
      BY <3>4, <3>5 DEF CrashInv
  <2> QED
    BY <2>2, <2>3
<1>8. CASE CrashRelease(d)
  <2> DEFINE e == [d EXCEPT !.at = "sweep"]
  <2>1. e \in Death /\ e.agent = d.agent /\ e.id = d.id /\ e.at = "sweep"
    BY <1>2 DEF Death
  <2>2. dies' = (dies \ {d}) \cup {e} /\ UNCHANGED row /\ ReleasePort(d.agent)
    BY <1>8 DEF CrashRelease, CrashesHandled, Advance
  <2> HIDE DEF e
  <2>3. OwnedBy(d.agent)' = {}
    BY <1>0, <1>2, <2>2, ReleaseLessens
  <2>4. SweptOrHandled(d.agent)'
    BY <2>1, <2>2, <2>3 DEF SweptOrHandled, Sweeps
  <2>5. ASSUME NEW a \in Agents, row'[a].status = "crashed" PROVE SweptOrHandled(a)'
    BY <1>5, <2>2, <2>4, <2>5
  <2>6. \A c \in dies' : Has(c.agent)' => c.id = box'[c.agent].id
    BY <1>4, <2>1, <2>2
  <2> QED
    BY <2>5, <2>6 DEF CrashInv
<1>9. CASE CrashSweep(d)
  <2>1. /\ StopAndRemove(d.agent, d.id, dies \ {d}) /\ UNCHANGED <<row, alloc>>
        /\ d.at = "sweep"
    BY <1>9 DEF CrashSweep
  <2>2. /\ ~Has(d.agent)'
        /\ dies \ {d} \subseteq dies' /\ dies' \subseteq (dies \ {d}) \cup DieEvent(d.agent)
    BY <1>0, <1>2, <2>1, RemovalLessens DEF CrashInv, IsBox
  <2>3. \A c \in dies' : Has(c.agent)' => c.id = box'[c.agent].id
    <3> SUFFICES ASSUME NEW c \in dies', Has(c.agent)' PROVE c.id = box'[c.agent].id
      OBVIOUS
    <3>1. c \in dies
      BY <2>2 DEF DieEvent
    <3>2. c.agent \in Agents /\ (Has(c.agent) => c.id = box[c.agent].id)
      BY <1>0, <3>1 DEF CrashInv, PlatformTypeOK, Death
    <3> QED
      BY <1>3, <3>2 DEF Lessens
  <2>4. ASSUME NEW a \in Agents, row'[a].status = "crashed" PROVE SweptOrHandled(a)'
    <3>1. CASE d.agent = a /\ Sweeps(d)
      BY <2>1, <2>2, <3>1 DEF Sweeps, SweptOrHandled, Swept, OwnedBy
    <3>2. CASE ~(d.agent = a /\ Sweeps(d))
      BY <1>5, <2>1, <2>2, <2>4, <3>2
    <3> QED
      BY <3>1, <3>2
  <2> QED
    BY <2>3, <2>4 DEF CrashInv
<1> QED
  BY <1>1, <1>6, <1>7, <1>8, <1>9

\* No crash has been handled at first.
LEMMA CrashInit == AllUp => CrashInv
  BY DEF AllUp, CrashInv

\* Every step keeps what a handled crash leaves behind.
LEMMA CrashStep ==
  ASSUME CrashesHandled, TearInv, CrashInv, [Next]_vars
  PROVE  CrashInv'
<1>0. StopAndDelete
  BY DEF CrashesHandled
<1>1. CASE WorkerStep
  BY <1>0, <1>1, WorkerKeepsCrash
<1>2. ~Interrupted
  BY DEF CrashesHandled, Interrupted, Interruption, WorkerCrash, HostReboot, TearInv, IInv,
     TypeOK, WorkerTypeOK
<1>3. CASE WatcherStep
  BY <1>3, WatcherKeepsCrash
<1>4. CASE DaemonStep
  BY <1>4, DaemonLessens, CrashKept DEF TearInv, IInv, TypeOK
<1>5. CASE ApiStep
  BY <1>0, <1>5, ApiLessens, CrashKept
<1>6. CASE HealthStep
  BY <1>6, HealthLessens, CrashKept DEF HealthStep, docker
<1>7. CASE UNCHANGED vars
  <2>1. UNCHANGED <<row, alloc, box, dies>>
    BY <1>7 DEF vars, platform
  <2> QED
    BY <2>1 DEF CrashInv, SweptOrHandled, Swept, Sweeps, Has, OwnedBy
<1> QED
  BY <1>1, <1>2, <1>3, <1>4, <1>5, <1>6, <1>7 DEF Next

\* Once every event is handled, a crashed agent keeps neither its container nor
\* its ports, although the daemon may restart the container meanwhile.
THEOREM CrashesSwept == CrashesHandled => (UpSpec => []CrashedIsSwept)
<1>1. CrashInv => CrashedIsSwept
  BY DEF CrashInv, SweptOrHandled, Swept, CrashedIsSwept, Quiet, WithStatus
<1>2. CrashesHandled /\ TearInv /\ CrashInv /\ [Next]_vars => CrashInv'
  BY CrashStep
<1>3. CrashesHandled => CrashesHandled' /\ StopAndDelete
  BY DEF CrashesHandled, StopAndDelete
<1> QED
  BY CrashInit, TearHolds, <1>1, <1>2, <1>3, PTL DEF UpSpec

-----------------------------------------------------------------------------
(* Updates: the conditions.  Owners update, stop and delete; every external *)
(* call may fail; nothing ends by itself, and the crash watcher reads an    *)
(* event before a health check that takes seconds returns.                  *)

UpdatesOnly ==
    /\ "start" \notin Verbs
    /\ MaxDeaths = 0 /\ MaxCrashes = 0 /\ MaxReboots = 0
    /\ WatcherKeepsUp

\* The labels of drainUpdates and updateAgent.
Prepares == {"updating", "pull", "stopOld", "secret", "create"}
Renewal  == Prepares \cup {"updateClaim", "updateRead", "start", "record", "health",
                           "running", "fail", "cleanBox"}

\* The row names no container: its ports are NULL too, on which createContainer
\* throws, so no update makes it run again.
Lost(a) == row[a].containerId = None

Intact(a) == Served(a) /\ row[a].hermesVersion = box[a].image

Rests(a) == Intact(a) \/ (Lost(a) /\ ~IsLive(a))

\* What updateAgent read from the row still holds, and its new container is
\* the one that it asked for.
Endowed(a) ==
    /\ row[a].apiPort = job.api /\ row[a].dashboardPort = job.dash
    /\ OwnedBy(a) = {job.api, job.dash} /\ route[a] = job.dash

Renewed(a) == /\ Has(a)
              /\ box[a].api = job.api /\ box[a].dash = job.dash
              /\ box[a].image = job.image

RenewStage(a) ==
    /\ pc \in {"updateClaim", "updateRead"} => Intact(a) \/ Lost(a)
    /\ pc \in Prepares => Endowed(a) \/ (Lost(a) /\ job.api = None)
    /\ pc \in {"start", "record", "health", "running"} => Endowed(a) /\ Renewed(a)
    /\ pc \in {"record", "health", "running"} => IsUp(a) /\ box[a].id = job.ctr
    /\ pc \in {"health", "running"} => row[a].containerId = job.ctr
    /\ pc = "cleanBox" => Lost(a)

Underway(a) == ~IsLive(a) /\ (pc \in Renewal => RenewStage(a))

\* Every agent, whoever works on it.
Standing(a) ==
    /\ row[a].status \notin {"unborn", "queued", "crashed"} \cup Pipeline
    /\ row[a].status = "gone" => Lost(a)
    /\ Lost(a) => row[a].apiPort = None
    /\ Has(a) => box[a].state # "exited"

AgentsUpdated ==
    \A a \in Agents : Standing(a) /\ (IF Handling(a) THEN Underway(a) ELSE Rests(a))

\* The die events are those of teardowns, and read before the next container
\* of the agent is up for good.
TeardownEvents ==
    \A d \in dies : /\ d.at = "event" /\ ~IsLive(d.agent)
                    /\ pc = "running" => d.agent # job.agent

\* A deletion that the API carries out itself found a row without a container.
PurgesOfLost ==
    \A c \in calls : c.at # "secret" /\ (c.at = "delete" /\ ~c.live => Lost(c.agent))

UpdateInv ==
    /\ IInv
    /\ pc \in (Tearing \ {"down", "boot", "reconcile"}) \cup Renewal
    /\ pc \in Renewal => job.kind = "update"
    /\ pc \notin AtWork => job = Idle
    /\ AgentsUpdated
    /\ pc \notin Looping => todo = {}
    /\ \A t \in todo : ~IsLive(t.agent)
    /\ TeardownEvents
    /\ PurgesOfLost

\* A step leaves the agent alone: its row, container, route and ports.
Same(a) == /\ row'[a] = row[a] /\ box'[a] = box[a] /\ route'[a] = route[a]
           /\ OwnedBy(a)' = OwnedBy(a)

\* An agent of which nothing changes keeps every condition on it.
LEMMA SameKept ==
  ASSUME NEW a \in Agents, Same(a)
  PROVE  /\ Lost(a)' = Lost(a) /\ IsLive(a)' = IsLive(a)
         /\ Standing(a) => Standing(a)'
         /\ Intact(a) => Intact(a)'
         /\ Rests(a) => Rests(a)'
<1>1. Lost(a)' = Lost(a) /\ IsLive(a)' = IsLive(a)
  BY DEF Same, Lost, IsLive
<1>2. Intact(a) => Intact(a)'
  BY DEF Same, Intact, Served, IsUp, Has, BoxPorts
<1>3. Standing(a) => Standing(a)'
  BY <1>1 DEF Same, Standing, Has
<1> QED
  BY <1>1, <1>2, <1>3 DEF Rests

\* A row that owns what updateAgent read, or whose container is up, is not lost.
LEMMA NotLost ==
  ASSUME UpdateInv, NEW a \in Agents
  PROVE  /\ Intact(a) => ~Lost(a)
         /\ pc \in Renewal /\ a = job.agent /\ Endowed(a) => ~Lost(a)
<1>1. /\ None \notin Nat /\ None \notin Ports /\ box[a] \in Container \cup {None}
  BY PlatformAssumption DEF UpdateInv, IInv, TypeOK, PlatformTypeOK
<1>2. Intact(a) => ~Lost(a)
  BY <1>1 DEF Intact, Served, IsUp, Has, Lost, Container
<1>3. Standing(a)
  BY DEF UpdateInv, AgentsUpdated
<1>4. Endowed(a) => row[a].apiPort # None
  BY <1>1 DEF Endowed, OwnedBy
<1> QED
  BY <1>2, <1>3, <1>4 DEF Standing

\* What the invariant says of the agent that the worker handles.
LEMMA UpdateJob ==
  ASSUME UpdateInv, pc \in AtWork
  PROVE  /\ job.agent \in Agents /\ Standing(job.agent) /\ Underway(job.agent)
         /\ ~IsLive(job.agent)
         /\ ~Exists(job.agent) => Lost(job.agent)
<1>1. job.agent \in Agents
  BY DEF UpdateInv, IInv, JobInv
<1>2. Standing(job.agent) /\ Underway(job.agent)
  BY <1>1 DEF UpdateInv, AgentsUpdated, Handling
<1> QED
  BY <1>1, <1>2 DEF Underway, Standing, Exists, NoRow

\* A step of the worker on one agent, the one that it handles or takes up.
LEMMA UpdateKept ==
  ASSUME UpdateInv, IInv', NEW a \in Agents, job.agent \in {a, None},
         job'.agent \in {a, None},
         \A b \in Agents \ {a} : Same(b),
         Standing(a)', IF job'.agent = a THEN Underway(a)' ELSE Rests(a)',
         pc' \in (Tearing \ {"down", "boot", "reconcile"}) \cup Renewal,
         pc' \in Renewal => job'.kind = "update",
         pc' \notin AtWork => job' = Idle,
         Lost(a) => Lost(a)',
         todo' \subseteq todo, pc' \notin Looping => todo' = {},
         IsLive(a)' => pc = "running",
         dies' \subseteq dies \cup DieEvent(a),
         IsLive(a)' \/ pc' = "running" => \A d \in dies' : d.agent # a,
         UNCHANGED calls
  PROVE  UpdateInv'
<1>0. /\ None \notin Agents /\ \A t \in todo : t.agent \in Agents
      /\ \A d \in dies : d.agent \in Agents
      /\ \A c \in calls : c.agent \in Agents
  BY PlatformAssumption
  DEF UpdateInv, IInv, TypeOK, PlatformTypeOK, WorkerTypeOK, ApiTypeOK, Pending, Death, Call
<1>1. AgentsUpdated'
  <2> SUFFICES ASSUME NEW b \in Agents, b # a PROVE Standing(b)' /\ ~Handling(b)' /\ Rests(b)'
    BY <1>0 DEF AgentsUpdated, Handling
  <2>1. Standing(b) /\ Rests(b)
    BY <1>0 DEF UpdateInv, AgentsUpdated, Handling
  <2> QED
    BY <1>0, <2>1, SameKept DEF Handling
<1>2. \A t \in todo' : ~IsLive(t.agent)'
  <2> SUFFICES ASSUME NEW t \in todo' PROVE ~IsLive(t.agent)'
    OBVIOUS
  <2>1. t \in todo /\ ~IsLive(t.agent)
    BY DEF UpdateInv
  <2>2. pc # "running"
    BY <2>1 DEF UpdateInv, Looping
  <2> QED
    BY <1>0, <2>1, <2>2, SameKept
<1>3. TeardownEvents'
  <2> SUFFICES ASSUME NEW d \in dies'
               PROVE  /\ d.at = "event" /\ ~IsLive(d.agent)'
                      /\ pc' = "running" => d.agent # job'.agent
    BY DEF TeardownEvents
  <2>1. d.at = "event" /\ d.agent \in Agents /\ (d.agent # a => ~IsLive(d.agent))
    BY <1>0 DEF UpdateInv, TeardownEvents, DieEvent
  <2>2. ~IsLive(d.agent)'
    BY <2>1, SameKept
  <2> QED
    BY <1>0, <2>1, <2>2
<1>4. PurgesOfLost'
  BY <1>0, SameKept DEF UpdateInv, PurgesOfLost
<1> QED
  BY <1>1, <1>2, <1>3, <1>4 DEF UpdateInv

\* A step of the worker on no agent: a search that finds nothing, or the rows
\* of a loop.
LEMMA UpdateRoams ==
  ASSUME UpdateInv, IInv', UNCHANGED <<platform, calls>>, job = Idle, job' = Idle,
         pc' \in (Tearing \ {"down", "boot", "reconcile"}), pc' \notin AtWork,
         pc' \notin Looping => todo' = {},
         \A t \in todo' : t.agent \in WithStatus("stopped") \cup WithStatus("deleting")
  PROVE  UpdateInv'
<1>0. UNCHANGED <<row, alloc, route, box, dies>> /\ None \notin Agents /\ Idle.agent = None
  BY PlatformAssumption DEF platform, Idle
<1>1. \A a \in Agents : Same(a) /\ ~Handling(a) /\ ~Handling(a)'
  BY <1>0 DEF Same, OwnedBy, Handling
<1>2. AgentsUpdated'
  BY <1>1, SameKept DEF UpdateInv, AgentsUpdated
<1>3. \A t \in todo' : ~IsLive(t.agent)'
  BY <1>0 DEF WithStatus, IsLive
<1>4. pc' \notin Renewal
  BY DEF Tearing, Looping, Renewal, Prepares
<1>5. TeardownEvents' /\ PurgesOfLost'
  BY <1>0, <1>4
  DEF UpdateInv, TeardownEvents, PurgesOfLost, IsLive, Lost, Renewal
<1> QED
  BY <1>2, <1>3, <1>4, <1>5 DEF UpdateInv

\* While rows are only updated, stopped and deleted, these are the worker's
\* steps.
LEMMA UpdateSteps ==
  ASSUME UpdateInv, WorkerStep
  PROVE  \/ UNCHANGED <<platform, todo>> /\ pc = "queue" /\ pc' = "updates" /\ job' = Idle
         \/ DrainUpdatesFind \/ DrainUpdatesClaim \/ UpdateRead \/ SetUpdating
         \/ PullImage \/ StopOldContainer \/ ReadSecretAndPrepare \/ CreateContainer
         \/ StartContainer \/ RecordContainer \/ WaitForHealth \/ MarkRunning
         \/ FailDeployment \/ CleanupBox
         \/ DrainStopsFind \/ StopsBox \/ StopsRoute \/ StopsPorts \/ StopsClear
         \/ DrainDeletesFind \/ DeletesBox \/ DeletesRoute \/ DeletesPorts \/ DeletesRow
<1> USE DEF UpdateInv, Tearing, Looping, Renewal, Prepares
<1>1. ~(DriveRead \/ StaleBox \/ StaleRoute \/ StalePorts \/ StaleClear
           \/ SetAllocatingPorts \/ AllocateApiPort \/ AllocateDashboardPort
           \/ SetStarting \/ SetHealthChecking \/ SetRegisteringRoute \/ RegisterRoute
           \/ CleanupRoute \/ CleanupPorts)
  BY DEF DriveRead, StaleBox, StaleRoute, StalePorts, StaleClear,
     SetAllocatingPorts, AllocateApiPort, AllocateDashboardPort, SetStarting,
     SetHealthChecking, SetRegisteringRoute, RegisterRoute, CleanupRoute, CleanupPorts
<1>2. ~(DrainQueueClaim \/ BootStep)
  BY DEF DrainQueueClaim, BootStep, WorkerBoot, ReconcileFind, ReconcileRoute, MainLoopStarts
<1>3. WithStatus("queued") = {}
  BY DEF AgentsUpdated, Standing, WithStatus
<1> QED
  BY <1>1, <1>2, <1>3 DEF WorkerStep, DriveStep, DrainStep, DrainQueueFind, Oldest, Leave

\* The searches.
LEMMA SearchKeepsUpdate ==
  ASSUME UpdateInv, IInv', UNCHANGED calls,
         \/ UNCHANGED <<platform, todo>> /\ pc = "queue" /\ pc' = "updates" /\ job' = Idle
         \/ DrainUpdatesFind \/ DrainStopsFind \/ DrainDeletesFind
  PROVE  UpdateInv'
<1> USE DEF Tearing, Looping, AtWork, Labels, Leave
<1>0. job = Idle
  BY DEF UpdateInv, DrainUpdatesFind, DrainStopsFind, DrainDeletesFind
<1>1. CASE UNCHANGED <<platform, todo>> /\ pc = "queue" /\ pc' = "updates" /\ job' = Idle
  BY <1>0, <1>1, UpdateRoams DEF UpdateInv
<1>2. CASE DrainStopsFind \/ DrainDeletesFind
  BY <1>0, <1>2, UpdateRoams DEF DrainStopsFind, DrainDeletesFind, Stopped, WithStatus
<1>3. CASE DrainUpdatesFind
  <2>1. CASE Leave("stops")
    BY <1>0, <1>3, <2>1, UpdateRoams DEF DrainUpdatesFind, UpdateInv
  <2>2. CASE pc' = "updateClaim"
    <3> PICK a \in Agents : /\ Oldest(a, Updatable)
                            /\ job' = [Idle EXCEPT !.kind = "update", !.agent = a]
      BY <1>3, <2>2 DEF DrainUpdatesFind
    <3>1. job'.agent = a /\ job'.kind = "update" /\ job.agent = None
      BY <1>0 DEF Idle
    <3>2. /\ UNCHANGED <<row, alloc, route, box, dies, todo>> /\ todo = {}
          /\ row[a].status = "updating"
      BY <1>3 DEF DrainUpdatesFind, platform, Oldest, Updatable, WithStatus, UpdateInv
    <3>3. \A b \in Agents : Same(b)
      BY <3>2 DEF Same, OwnedBy
    <3>4. Standing(a) /\ Rests(a) /\ ~IsLive(a)
      BY <1>0, <3>2, PlatformAssumption
      DEF UpdateInv, AgentsUpdated, Handling, Idle, IsLive
    <3>5. Standing(a)' /\ (Intact(a) \/ Lost(a))' /\ ~IsLive(a)' /\ Lost(a)' = Lost(a)
      BY <3>3, <3>4, SameKept DEF Rests
    <3>6. Underway(a)'
      BY <2>2, <3>5 DEF Underway, RenewStage, Prepares
    <3> QED
      BY <2>2, <3>1, <3>2, <3>3, <3>5, <3>6, UpdateKept DEF Renewal
  <2> QED
    BY <1>3, <2>1, <2>2 DEF DrainUpdatesFind
<1> QED
  BY <1>1, <1>2, <1>3

\* A step that only moves the worker on in its job on an agent.
LEMMA MoveKeepsUpdate ==
  ASSUME UpdateInv, IInv', UNCHANGED <<row, alloc, route, box, dies, todo, calls>>,
         pc \in AtWork, job' = Idle \/ job'.agent = job.agent,
         IF job' = Idle THEN Rests(job.agent) ELSE pc' \in Renewal => RenewStage(job.agent)',
         pc' \in (Tearing \ {"down", "boot", "reconcile"}) \cup Renewal,
         pc' \in Renewal => job'.kind = "update",
         pc' \notin AtWork => job' = Idle,
         pc' \notin Looping => todo = {},
         pc' = "running" => \A d \in dies : d.agent # job.agent
  PROVE  UpdateInv'
<1> PICK a \in Agents : a = job.agent
  BY UpdateJob
<1>1. a # None /\ Idle.agent = None
  BY PlatformAssumption DEF Idle
<1>2. \A b \in Agents : Same(b)
  BY DEF Same, OwnedBy
<1>3. Standing(a)' /\ ~IsLive(a)' /\ Lost(a)' = Lost(a)
  BY <1>2, UpdateJob, SameKept
<1>4. job' = Idle => Rests(a)'
  BY <1>2, SameKept
<1>5. job' # Idle => Underway(a)'
  BY <1>3 DEF Underway
<1> QED
  BY <1>1, <1>2, <1>3, <1>4, <1>5, UpdateKept

\* The steps of an update that only read or wait.
LEMMA ReadsKeepUpdate ==
  ASSUME UpdatesOnly, UpdateInv, IInv', UNCHANGED calls, Timely,
         DrainUpdatesClaim \/ UpdateRead \/ PullImage \/ ReadSecretAndPrepare \/ WaitForHealth
  PROVE  UpdateInv'
<1> USE DEF Goto, Leave, AtWork, Labels
<1>0. /\ UNCHANGED <<row, alloc, route, box, dies, todo, calls>>
      /\ pc \in Renewal /\ pc \in AtWork
  BY DEF DrainUpdatesClaim, UpdateRead, PullImage, ReadSecretAndPrepare, WaitForHealth,
     platform, Renewal, Prepares
<1> PICK a \in Agents : a = job.agent
  BY <1>0, UpdateJob
<1>1. /\ job.kind = "update" /\ todo = {} /\ Idle.kind = "idle" /\ job \in Job
      /\ Standing(a) /\ ~IsLive(a) /\ RenewStage(a)
  BY <1>0, UpdateJob
  DEF UpdateInv, IInv, TypeOK, WorkerTypeOK, Idle, Underway, Looping, Renewal, Prepares
<1>2. Intact(a)' = Intact(a) /\ Lost(a)' = Lost(a) /\ OwnedBy(a)' = OwnedBy(a)
  BY <1>0 DEF Intact, Served, IsUp, Has, Lost, OwnedBy, BoxPorts
<1>4. CASE DrainUpdatesClaim
  <2>1. Intact(a) \/ Lost(a)
    BY <1>1, <1>4 DEF RenewStage, DrainUpdatesClaim
  <2>2. CASE pc' = "updateRead" /\ UNCHANGED job
    <3>1. RenewStage(a)'
      BY <1>2, <2>1, <2>2 DEF RenewStage, Prepares
    <3> QED
      BY <1>0, <1>1, <2>2, <3>1, MoveKeepsUpdate DEF Renewal
  <2>3. CASE pc' = "stops" /\ job' = Idle
    BY <1>0, <1>1, <2>1, <2>3, MoveKeepsUpdate DEF Renewal, Prepares, Tearing, Rests
  <2> QED
    BY <1>4, <2>2, <2>3 DEF DrainUpdatesClaim
<1>5. CASE UpdateRead
  <2>1. Intact(a) \/ Lost(a)
    BY <1>1, <1>5 DEF RenewStage, UpdateRead
  <2>2. CASE row[a].status = "updating"
    <3>1. /\ pc' = "updating" /\ job'.agent = a /\ job'.kind = "update"
          /\ job'.api = row[a].apiPort /\ job'.dash = row[a].dashboardPort
      BY <1>1, <1>5, <2>2 DEF UpdateRead, Job
    <3>2. Intact(a) => Endowed(a)'
      BY <1>0, <1>2, <3>1 DEF Intact, Served, BoxPorts, Endowed
    <3>3. Lost(a) => row[a].apiPort = None
      BY <1>1 DEF Standing
    <3>4. RenewStage(a)'
      BY <1>2, <2>1, <3>1, <3>2, <3>3 DEF RenewStage, Prepares
    <3> QED
      BY <1>0, <1>1, <3>1, <3>4, MoveKeepsUpdate DEF Renewal, Prepares
  <2>3. CASE pc' = "stops" /\ job' = Idle
    BY <1>0, <1>1, <2>1, <2>3, MoveKeepsUpdate DEF Renewal, Prepares, Tearing, Rests
  <2> QED
    BY <1>5, <2>2, <2>3 DEF UpdateRead
<1>6. CASE PullImage \/ ReadSecretAndPrepare
  <2>1. Endowed(a) \/ (Lost(a) /\ job.api = None)
    BY <1>1, <1>6 DEF RenewStage, PullImage, ReadSecretAndPrepare, Prepares
  <2>2. UNCHANGED job /\ pc' \in {"stopOld", "create", "fail"}
    BY <1>1, <1>6 DEF PullImage, ReadSecretAndPrepare
  <2>3. Endowed(a)' = Endowed(a)
    BY <1>0, <1>2, <2>2 DEF Endowed
  <2>4. RenewStage(a)'
    BY <1>2, <2>1, <2>2, <2>3 DEF RenewStage, Prepares
  <2> QED
    BY <1>0, <1>1, <2>2, <2>4, MoveKeepsUpdate DEF Renewal, Prepares
<1>7. CASE WaitForHealth
  <2>1. /\ pc = "health" /\ Endowed(a) /\ Renewed(a) /\ IsUp(a)
        /\ box[a].id = job.ctr /\ row[a].containerId = job.ctr
    BY <1>1, <1>7 DEF RenewStage, WaitForHealth
  <2>2. UNCHANGED job /\ pc' \in {"running", "fail"}
    BY <1>1, <1>7 DEF WaitForHealth
  <2>3. Endowed(a)' /\ Renewed(a)' /\ IsUp(a)'
    BY <1>0, <1>2, <2>1, <2>2 DEF Endowed, Renewed, IsUp, Has
  <2>4. RenewStage(a)'
    BY <1>0, <2>1, <2>2, <2>3 DEF RenewStage, Prepares
  <2>5. \A d \in dies : d.agent # a
    BY <2>1 DEF UpdatesOnly, Timely, UpdateInv, TeardownEvents
  <2> QED
    BY <1>0, <1>1, <2>2, <2>4, <2>5, MoveKeepsUpdate DEF Renewal, Prepares
<1> QED
  BY <1>4, <1>5, <1>6, <1>7

\* stopAndRemove, failing or not: no other container, and no exit.
LEMMA RemovalOnly ==
  ASSUME PlatformTypeOK, NEW a \in Agents, NEW i, NEW pending, StopAndRemove(a, i, pending)
  PROVE  /\ \A b \in Agents \ {a} : box'[b] = box[b]
         /\ Has(a)' => Has(a) /\ (box'[a].state = "exited" => box[a].state = "exited")
         /\ dies' \subseteq pending \cup DieEvent(a)
  BY DEF PlatformTypeOK, StopAndRemove, Has, Container, IsBox

\* The removal of containers in an update: the one that is replaced, and after
\* a failure the same one again.
LEMMA RemovalsKeepUpdate ==
  ASSUME UpdatesOnly, UpdateInv, IInv', UNCHANGED calls, StopOldContainer \/ CleanupBox
  PROVE  UpdateInv'
<1> USE DEF Goto, Leave, AtWork, Labels
<1>0. /\ UNCHANGED <<row, alloc, route, todo, calls>> /\ PlatformTypeOK
      /\ pc \in Renewal /\ pc \in AtWork
  BY DEF StopOldContainer, CleanupBox, tables, Renewal, Prepares, UpdateInv, IInv, TypeOK
<1> PICK a \in Agents : a = job.agent
  BY <1>0, UpdateJob
<1>1. /\ job.kind = "update" /\ todo = {} /\ Idle.agent = None /\ a # None
      /\ Standing(a) /\ ~IsLive(a) /\ RenewStage(a)
  BY <1>0, UpdateJob, PlatformAssumption
  DEF UpdateInv, Idle, Underway, Looping, Renewal, Prepares
<1>2. /\ \A b \in Agents \ {a} : box'[b] = box[b]
      /\ Has(a)' => Has(a) /\ (box'[a].state = "exited" => box[a].state = "exited")
      /\ dies' \subseteq dies \cup DieEvent(a)
  <2>1. CASE \E i : StopAndRemove(a, i, dies)
    BY <1>0, <2>1, RemovalOnly
  <2>2. CASE UNCHANGED <<box, dies>>
    BY <2>2 DEF Has
  <2> QED
    BY <2>1, <2>2 DEF StopOldContainer, CleanupBox
<1>3. /\ \A b \in Agents \ {a} : Same(b)
      /\ Lost(a)' = Lost(a) /\ IsLive(a)' = IsLive(a) /\ OwnedBy(a)' = OwnedBy(a)
  BY <1>0, <1>2 DEF Same, OwnedBy, Lost, IsLive
<1>4. Standing(a)'
  BY <1>0, <1>1, <1>2, <1>3 DEF Standing
<1>5. CASE StopOldContainer
  <2>1. /\ Endowed(a) \/ (Lost(a) /\ job.api = None)
        /\ UNCHANGED job /\ pc' = "secret"
    BY <1>1, <1>5 DEF RenewStage, StopOldContainer, Prepares
  <2>2. Endowed(a)' = Endowed(a)
    BY <1>0, <1>3, <2>1 DEF Endowed
  <2>3. Underway(a)'
    BY <1>1, <1>3, <2>1, <2>2 DEF Underway, RenewStage, Prepares
  <2> QED
    BY <1>0, <1>1, <1>2, <1>3, <1>4, <2>1, <2>3, UpdateKept DEF Renewal, Prepares
<1>6. CASE CleanupBox
  <2>1. Lost(a) /\ job' = Idle /\ pc' = "stops"
    BY <1>1, <1>6 DEF RenewStage, CleanupBox
  <2>2. Rests(a)'
    BY <1>1, <1>3, <2>1 DEF Rests
  <2> QED
    BY <1>0, <1>1, <1>2, <1>3, <1>4, <2>1, <2>2, UpdateKept DEF Renewal, Prepares, Tearing
<1> QED
  BY <1>5, <1>6

\* runContainer: a container on the ports that updateAgent read.
LEMMA RunKeepsUpdate ==
  ASSUME UpdatesOnly, UpdateInv, IInv', UNCHANGED calls, CreateContainer \/ StartContainer
  PROVE  UpdateInv'
<1> USE DEF Goto, AtWork, Labels
<1>0. /\ UNCHANGED <<row, alloc, route, dies, todo, calls>> /\ PlatformTypeOK
      /\ pc \in Renewal /\ pc \in AtWork
  BY DEF CreateContainer, StartContainer, tables, Renewal, Prepares, UpdateInv, IInv, TypeOK
<1> PICK a \in Agents : a = job.agent
  BY <1>0, UpdateJob
<1>1. /\ job.kind = "update" /\ todo = {} /\ Idle.kind = "idle" /\ job \in Job
      /\ Standing(a) /\ ~IsLive(a) /\ RenewStage(a) /\ a # None
  BY <1>0, UpdateJob, PlatformAssumption
  DEF UpdateInv, IInv, TypeOK, WorkerTypeOK, Idle, Underway, Looping, Renewal, Prepares
<1>2. CASE UNCHANGED box /\ UNCHANGED job /\ pc' = "fail"
  BY <1>0, <1>1, <1>2, MoveKeepsUpdate DEF Renewal, RenewStage, Prepares
<1>3. ASSUME NEW c \in Container, box' = [box EXCEPT ![a] = c], c.state # "exited",
             job'.agent = a, job'.kind = "update", pc' \in {"start", "record"},
             Underway(a)'
      PROVE  UpdateInv'
  <2>1. box'[a] = c /\ \A b \in Agents \ {a} : box'[b] = box[b]
    BY <1>0, <1>3 DEF PlatformTypeOK
  <2>2. /\ \A b \in Agents \ {a} : Same(b)
        /\ Lost(a)' = Lost(a) /\ IsLive(a)' = IsLive(a)
    BY <1>0, <2>1 DEF Same, OwnedBy, Lost, IsLive
  <2>3. Standing(a)'
    BY <1>0, <1>1, <1>3, <2>1, <2>2 DEF Standing
  <2> QED
    BY <1>0, <1>1, <1>3, <2>2, <2>3, UpdateKept DEF Renewal, Prepares, Looping
<1>4. CASE /\ CreateContainer /\ job.api # None /\ job.dash # None
           /\ box' = [box EXCEPT ![a] = NewContainer] /\ pc' = "start"
  <2> DEFINE c == NewContainer
  <2>1. /\ box' = [box EXCEPT ![a] = c] /\ pc' = "start" /\ UNCHANGED job
        /\ Endowed(a)
    BY <1>1, <1>4 DEF CreateContainer, RenewStage, Prepares
  <2>2. /\ c \in Container /\ c.state = "created"
        /\ c.api = job.api /\ c.dash = job.dash /\ c.image = job.image
    <3>1. gen[a] + 1 \in Nat /\ job.api \in Ports /\ job.dash \in Ports
      BY <1>0, <1>1, <1>4 DEF PlatformTypeOK, Job, PortOrNone
    <3>2. job.image \in Versions
      BY <1>4 DEF CreateContainer, UpdateInv, IInv, JobInv, Imaged
    <3> QED
      BY <3>1, <3>2 DEF NewContainer, Container
  <2> HIDE DEF c
  <2>3. box'[a] = c /\ c # None
    BY <1>0, <2>1, <2>2, PlatformAssumption DEF PlatformTypeOK
  <2>4. Endowed(a)' /\ Renewed(a)'
    BY <1>0, <2>1, <2>2, <2>3 DEF Endowed, OwnedBy, Renewed, Has
  <2>5. Underway(a)'
    BY <1>0, <1>1, <2>1, <2>4 DEF Underway, RenewStage, Prepares, IsLive
  <2> QED
    BY <1>1, <1>3, <2>1, <2>2, <2>5
<1>5. CASE /\ StartContainer /\ Has(a) /\ pc' = "record"
           /\ box' = [box EXCEPT ![a].state = "up", ![a].boot = @ + 1]
           /\ job' = [job EXCEPT !.ctr = box[a].id]
  <2> DEFINE c == box'[a]
  <2>1. Endowed(a) /\ Renewed(a)
    BY <1>1, <1>5 DEF StartContainer, RenewStage
  <2>2. box[a] \in Container
    BY <1>0, <1>5 DEF PlatformTypeOK, Has
  <2>3. /\ c \in Container /\ c.state = "up" /\ c.id = box[a].id
        /\ c.api = box[a].api /\ c.dash = box[a].dash /\ c.image = box[a].image
    BY <1>0, <1>5, <2>2 DEF PlatformTypeOK, Container
  <2>4. box' = [box EXCEPT ![a] = c]
    BY <1>0, <1>5 DEF PlatformTypeOK
  <2>5. c # None
    BY <2>3, PlatformAssumption
  <2>6. /\ job'.agent = a /\ job'.kind = "update" /\ job'.ctr = box[a].id
        /\ job'.api = job.api /\ job'.dash = job.dash /\ job'.image = job.image
    BY <1>1, <1>5 DEF Job
  <2>7. Endowed(a)' /\ Renewed(a)' /\ IsUp(a)' /\ box'[a].id = job'.ctr
    BY <1>0, <2>1, <2>3, <2>5, <2>6 DEF Endowed, OwnedBy, Renewed, IsUp, Has
  <2>8. Underway(a)'
    BY <1>0, <1>1, <1>5, <2>7 DEF Underway, RenewStage, Prepares, IsLive
  <2> QED
    <3> HIDE DEF c
    <3> QED
      BY <1>3, <1>5, <2>3, <2>4, <2>6, <2>8
<1> QED
  BY <1>2, <1>4, <1>5 DEF CreateContainer, StartContainer

\* The row updates of an update: the status is announced and the new container
\* recorded, and either the row runs the version that it asked for or it is lost.
LEMMA WritesKeepUpdate ==
  ASSUME UpdatesOnly, UpdateInv, IInv', UNCHANGED calls,
         SetUpdating \/ RecordContainer \/ MarkRunning \/ FailDeployment
  PROVE  UpdateInv'
<1> USE DEF Goto, Leave, AfterJob, AtWork, Labels
<1>0. /\ UNCHANGED <<alloc, route, box, dies, todo, calls>> /\ PlatformTypeOK
      /\ pc \in Renewal /\ pc \in AtWork
  BY DEF SetUpdating, Announce, RecordContainer, MarkRunning, FailDeployment, docker,
     Renewal, Prepares, UpdateInv, IInv, TypeOK
<1> PICK a \in Agents : a = job.agent
  BY <1>0, UpdateJob
<1>1. /\ job.kind = "update" /\ todo = {} /\ Idle.kind = "idle" /\ Idle.agent = None
      /\ Standing(a) /\ ~IsLive(a) /\ RenewStage(a) /\ a # None
      /\ ~Exists(a) => Lost(a)
  BY <1>0, UpdateJob, PlatformAssumption
  DEF UpdateInv, Idle, Underway, Looping, Renewal, Prepares
<1>2. OwnedBy(a)' = OwnedBy(a) /\ Has(a)' = Has(a) /\ IsUp(a)' = IsUp(a)
  BY <1>0 DEF OwnedBy, Has, IsUp
<1>3. (\A b \in Agents \ {a} : row'[b] = row[b]) => \A b \in Agents \ {a} : Same(b)
  BY <1>0 DEF Same, OwnedBy
<1>4. CASE UNCHANGED <<row, job>> /\ pc' = "fail"
  BY <1>0, <1>1, <1>4, MoveKeepsUpdate DEF Renewal, RenewStage, Prepares
<1>5. CASE Exists(a) /\ SetUpdating
  <2>1. SetStatus(a, "updating") /\ UNCHANGED job /\ pc = "updating" /\ pc' = "pull"
    BY <1>1, <1>5 DEF SetUpdating, Announce
  <2>2. /\ row'[a].status = "updating" /\ Columns(a)
        /\ \A b \in Agents \ {a} : row'[b] = row[b]
    BY <1>0, <2>1, StatusOnly
  <2>3. Endowed(a) \/ (Lost(a) /\ job.api = None)
    BY <1>1, <2>1 DEF RenewStage, Prepares
  <2>4. Lost(a)' = Lost(a) /\ Endowed(a)' = Endowed(a) /\ ~IsLive(a)'
    BY <1>0, <1>2, <2>1, <2>2 DEF Lost, Endowed, Columns, IsLive
  <2>5. Standing(a)'
    BY <1>0, <1>1, <1>2, <2>2, <2>4 DEF Standing, Pipeline, Columns
  <2>6. Underway(a)'
    BY <2>1, <2>3, <2>4 DEF Underway, RenewStage, Prepares
  <2> QED
    BY <1>0, <1>1, <1>3, <2>1, <2>2, <2>4, <2>5, <2>6, UpdateKept
    DEF Renewal, Prepares, Looping
<1>6. CASE Exists(a) /\ RecordContainer
  <2>1. /\ Endowed(a) /\ Renewed(a) /\ IsUp(a) /\ box[a].id = job.ctr
        /\ UNCHANGED job /\ pc' = "health"
    BY <1>1, <1>6 DEF RecordContainer, RenewStage
  <2>2. /\ row'[a].status = row[a].status /\ row'[a].containerId = job.ctr
        /\ row'[a].apiPort = row[a].apiPort
        /\ row'[a].dashboardPort = row[a].dashboardPort
        /\ \A b \in Agents \ {a} : row'[b] = row[b]
    BY <1>0, <1>1, <1>6, RecordOnly
  <2>3. job.ctr # None
    BY <1>0, <2>1, PlatformAssumption DEF PlatformTypeOK, IsUp, Has, Container
  <2>4. ~Lost(a) /\ ~Lost(a)' /\ ~IsLive(a)'
    BY <1>0, <1>1, <2>1, <2>2, <2>3, NotLost DEF Lost, IsLive
  <2>5. Endowed(a)' /\ Renewed(a)'
    BY <1>0, <1>2, <2>1, <2>2 DEF Endowed, Renewed
  <2>6. Standing(a)'
    BY <1>0, <1>1, <1>2, <2>2, <2>4 DEF Standing, Exists, NoRow, Lost
  <2>7. Underway(a)'
    BY <1>0, <1>2, <2>1, <2>2, <2>4, <2>5 DEF Underway, RenewStage, Prepares
  <2> QED
    BY <1>0, <1>1, <1>3, <2>1, <2>2, <2>4, <2>6, <2>7, UpdateKept
    DEF Renewal, Prepares, Looping
<1>7. CASE Exists(a) /\ MarkRunning
  <2>1. /\ pc = "running" /\ Endowed(a) /\ Renewed(a) /\ IsUp(a) /\ box[a].id = job.ctr
        /\ row[a].containerId = job.ctr /\ job' = Idle /\ pc' = "stops"
    BY <1>1, <1>7 DEF MarkRunning, RenewStage
  <2>2. /\ row'[a].status = "running" /\ Columns(a) /\ row'[a].hermesVersion = job.image
        /\ \A b \in Agents \ {a} : row'[b] = row[b]
    BY <1>0, <1>1, <1>7, RunningOnly DEF ShownVersion
  <2>3. ~Lost(a) /\ ~Lost(a)'
    BY <1>0, <2>1, <2>2, NotLost DEF Lost, Columns
  <2>4. Intact(a)'
    BY <1>0, <1>2, <2>1, <2>2 DEF Intact, Served, Endowed, Renewed, Columns, BoxPorts
  <2>5. Standing(a)'
    BY <1>0, <1>1, <1>2, <2>2, <2>3 DEF Standing, Pipeline
  <2>6. \A d \in dies' : d.agent # a
    BY <1>0, <2>1 DEF UpdateInv, TeardownEvents
  <2> QED
    BY <1>0, <1>1, <1>3, <2>1, <2>2, <2>3, <2>4, <2>5, <2>6, UpdateKept
    DEF Renewal, Prepares, Tearing, Rests
<1>8. CASE Exists(a) /\ FailDeployment
  <2>1. UNCHANGED job /\ pc' = "cleanBox"
    BY <1>8 DEF FailDeployment
  <2>2. /\ row'[a].status = "failed" /\ Blank(a)'
        /\ \A b \in Agents \ {a} : row'[b] = row[b]
    BY <1>0, <1>8, FailureOnly
  <2>3. Lost(a)' /\ Standing(a)' /\ Underway(a)'
    BY <1>0, <1>1, <1>2, <2>1, <2>2
    DEF Lost, Standing, Underway, RenewStage, Prepares, IsLive, Blank, Pipeline
  <2> QED
    BY <1>0, <1>1, <1>3, <2>1, <2>2, <2>3, UpdateKept
    DEF Renewal, Prepares, Tearing, Looping, Underway
<1>9. CASE ~Exists(a) /\ FailDeployment
  <2>1. UNCHANGED row /\ job' = Idle /\ pc' = "stops"
    BY <1>1, <1>9 DEF FailDeployment
  <2>2. Rests(a)
    BY <1>1, <1>9 DEF Rests
  <2> QED
    BY <1>0, <1>1, <2>1, <2>2, MoveKeepsUpdate DEF Renewal, Prepares, Tearing
<1> QED
  BY <1>4, <1>5, <1>6, <1>7, <1>8, <1>9
  DEF SetUpdating, Announce, RecordContainer, MarkRunning, FailDeployment

\* The loops of drainStops and drainDeletes: no row that they reach is live,
\* and each is left without its columns.
LEMMA SweepKeepsUpdate ==
  ASSUME UpdatesOnly, UpdateInv, IInv', UNCHANGED calls,
         \/ StopsBox \/ StopsRoute \/ StopsPorts \/ StopsClear
         \/ DeletesBox \/ DeletesRoute \/ DeletesPorts \/ DeletesRow
  PROVE  UpdateInv'
<1> USE DEF Goto, Leave, AtWork, Labels, Tearing, Looping
<1>0. PlatformTypeOK /\ None \notin Agents /\ Idle.agent = None
  BY PlatformAssumption DEF UpdateInv, IInv, TypeOK, Idle
<1>1. CASE StopsBox \/ DeletesBox
  <2> PICK t \in todo : /\ \/ StopAndRemove(t.agent, t.ref, dies)
                           \/ UNCHANGED <<box, dies>>
                        /\ Sweep(t, "stopRoute") \/ Sweep(t, "deleteRoute")
    BY <1>1 DEF StopsBox, DeletesBox
  <2> PICK a \in Agents : a = t.agent
    BY DEF UpdateInv, IInv, TypeOK, WorkerTypeOK, Pending
  <2>1. /\ UNCHANGED <<row, alloc, route>> /\ job = Idle
        /\ pc \in {"stopBox", "deleteBox"}
    BY <1>1 DEF StopsBox, DeletesBox, tables, UpdateInv
  <2>2. /\ todo' = todo \ {t} /\ pc' \in {"stopRoute", "deleteRoute"}
        /\ job'.agent = a
    BY DEF Sweep, Idle
  <2>3. /\ \A b \in Agents \ {a} : box'[b] = box[b]
        /\ Has(a)' => Has(a) /\ (box'[a].state = "exited" => box[a].state = "exited")
        /\ dies' \subseteq dies \cup DieEvent(a)
    BY <1>0, RemovalOnly DEF Has
  <2>4. /\ \A b \in Agents \ {a} : Same(b)
        /\ Lost(a)' = Lost(a) /\ IsLive(a)' = IsLive(a)
    BY <2>1, <2>3 DEF Same, OwnedBy, Lost, IsLive
  <2>5. Standing(a) /\ ~IsLive(a)
    BY DEF UpdateInv, AgentsUpdated
  <2>6. Standing(a)' /\ Underway(a)'
    BY <2>1, <2>2, <2>3, <2>4, <2>5 DEF Standing, Underway, Renewal, Prepares
  <2> QED
    BY <1>0, <2>1, <2>2, <2>3, <2>4, <2>5, <2>6, UpdateKept DEF Renewal, Prepares
<1>2. CASE StopsRoute \/ StopsPorts \/ DeletesRoute \/ DeletesPorts
  <2>1. /\ UNCHANGED <<row, box, dies, todo, job>> /\ pc \in AtWork
        /\ pc' \in {"stopPorts", "stopClear", "deletePorts", "deleteRow"}
    BY <1>2 DEF StopsRoute, StopsPorts, DeletesRoute, DeletesPorts, tables, docker
  <2> PICK a \in Agents : a = job.agent
    BY <2>1, UpdateJob
  <2>2. Standing(a) /\ ~IsLive(a)
    BY <2>1, UpdateJob
  <2>3. \A b \in Agents \ {a} : Same(b)
    <3>1. CASE RemoveRoute(a) /\ UNCHANGED alloc
      BY <1>0, <2>1, <3>1 DEF RemoveRoute, PlatformTypeOK, Same, OwnedBy
    <3>2. CASE ReleasePort(a) /\ UNCHANGED route
      BY <1>0, <2>1, <3>2 DEF ReleasePort, PlatformTypeOK, Same, OwnedBy
    <3> QED
      BY <1>2, <3>1, <3>2 DEF StopsRoute, StopsPorts, DeletesRoute, DeletesPorts, tables
  <2>4. Lost(a)' = Lost(a) /\ IsLive(a)' = IsLive(a)
    BY <2>1 DEF Lost, IsLive
  <2>5. Standing(a)' /\ Underway(a)'
    BY <2>1, <2>2, <2>4 DEF Standing, Has, Underway, Renewal, Prepares
  <2> QED
    BY <1>0, <2>1, <2>2, <2>3, <2>4, <2>5, UpdateKept DEF Renewal, Prepares
<1>3. CASE StopsClear \/ DeletesRow
  <2>1. /\ UNCHANGED <<alloc, route, box, dies, todo>> /\ pc \in AtWork /\ job' = Idle
        /\ \/ pc' \in {"deletes", "queue"} /\ todo = {}
           \/ pc' \in {"stopBox", "deleteBox"}
    BY <1>3 DEF StopsClear, DeletesRow, docker
  <2> PICK a \in Agents : a = job.agent
    BY <2>1, UpdateJob
  <2>2. Standing(a) /\ ~IsLive(a) /\ (~Exists(a) => Lost(a))
    BY <2>1, UpdateJob
  <2>3. /\ \A b \in Agents \ {a} : row'[b] = row[b]
        /\ row'[a].status \in {row[a].status, "gone"}
        /\ Lost(a)' /\ row'[a].apiPort = None
    <3>1. CASE ~Exists(a)
      <4>1. UNCHANGED row
        BY <1>3, <3>1 DEF StopsClear, DeletesRow
      <4> QED
        BY <2>2, <3>1, <4>1 DEF Lost, Standing
    <3>2. CASE Exists(a) /\ StopsClear
      <4>1. row' = [row EXCEPT ![a] = Cleared(@)]
        BY <3>2 DEF StopsClear
      <4> QED
        BY <1>0, <4>1, ColumnsOnly DEF Blank, Lost
    <3>3. CASE Exists(a) /\ DeletesRow
      <4>1. row' = [row EXCEPT ![a] = GoneRow]
        BY <3>3 DEF DeletesRow
      <4> QED
        BY <1>0, <4>1 DEF PlatformTypeOK, GoneRow, UnbornRow, Lost
    <3> QED
      BY <1>3, <3>1, <3>2, <3>3
  <2>4. \A b \in Agents \ {a} : Same(b)
    BY <2>1, <2>3 DEF Same, OwnedBy
  <2>5. Standing(a)' /\ ~IsLive(a)' /\ Rests(a)'
    BY <2>1, <2>2, <2>3 DEF Standing, Has, Rests, IsLive, Pipeline
  <2> QED
    BY <1>0, <2>1, <2>3, <2>4, <2>5, UpdateKept DEF Renewal, Prepares
<1> QED
  BY <1>1, <1>2, <1>3

\* The worker keeps the invariant.
LEMMA WorkerKeepsUpdate ==
  ASSUME UpdatesOnly, UpdateInv, IInv', WorkerStep, Timely, UNCHANGED <<apiVars, healthVars>>
  PROVE  UpdateInv'
  BY UpdateSteps, SearchKeepsUpdate, ReadsKeepUpdate, RemovalsKeepUpdate, RunKeepsUpdate,
     WritesKeepUpdate, SweepKeepsUpdate DEF apiVars

\* What the other parts of the system do to a row: they bring no row to life,
\* and what a row names stays unless it names nothing.
Spared(a) ==
    /\ row'[a].status \notin {"unborn", "queued", "crashed"} \cup Pipeline
    /\ row'[a].status = "gone" => Lost(a)
    /\ IsLive(a)' => IsLive(a)
    /\ IF Lost(a)
       THEN row'[a].containerId = None /\ row'[a].apiPort = None
       ELSE /\ Columns(a) /\ row'[a].hermesVersion = row[a].hermesVersion
            /\ OwnedBy(a)' = OwnedBy(a)

\* Such steps keep the invariant.
LEMMA BesideUpdate ==
  ASSUME UpdateInv, IInv', UNCHANGED <<workerVars, box, route>>, dies' \subseteq dies,
         \A a \in Agents : Spared(a),
         \A c \in calls' : /\ c.agent \in Agents /\ c.at # "secret"
                           /\ c.at = "delete" /\ ~c.live => Lost(c.agent)
  PROVE  UpdateInv'
<1>0. /\ UNCHANGED <<pc, job, todo, box, route>>
      /\ \A t \in todo : t.agent \in Agents
      /\ \A d \in dies : d.agent \in Agents
  BY DEF workerVars, UpdateInv, IInv, TypeOK, PlatformTypeOK, WorkerTypeOK, Pending, Death
<1>1. \A a \in Agents : Lost(a) => Lost(a)'
  BY DEF Spared, Lost
<1>2. ASSUME NEW a \in Agents
      PROVE  Standing(a)' /\ (IF Handling(a)' THEN Underway(a)' ELSE Rests(a)')
  <2>1. Spared(a) /\ Standing(a) /\ (IF Handling(a) THEN Underway(a) ELSE Rests(a))
    BY <1>2 DEF UpdateInv, AgentsUpdated
  <2>2. Standing(a)'
    BY <1>0, <2>1 DEF Spared, Standing, Lost, Has, Columns
  <2>3. Intact(a) => Intact(a)'
    BY <1>0, <2>1, NotLost
    DEF Spared, Columns, Intact, Served, IsUp, Has, BoxPorts
  <2>4. CASE ~Handling(a)
    BY <1>0, <1>1, <1>2, <2>1, <2>2, <2>3, <2>4 DEF Handling, Rests, Spared
  <2>5. CASE Handling(a)
    <3>1. Underway(a) /\ a = job.agent /\ ~IsLive(a)'
      BY <2>1, <2>5 DEF Underway, Spared, Handling
    <3>2. pc \in Renewal /\ Endowed(a) => Endowed(a)' /\ Columns(a)
      BY <1>0, <2>1, <3>1, NotLost DEF Spared, Columns, Endowed
    <3>3. Renewed(a)' = Renewed(a) /\ IsUp(a)' = IsUp(a)
      BY <1>0 DEF Renewed, Has, IsUp
    <3>4. pc \in Renewal => RenewStage(a)'
      <4>1. CASE pc \in {"updateClaim", "updateRead", "cleanBox", "fail"}
        BY <1>0, <1>1, <2>3, <3>1, <4>1 DEF Underway, RenewStage, Prepares
      <4>2. CASE pc \in Prepares
        BY <1>0, <1>1, <3>1, <3>2, <4>2 DEF Underway, RenewStage, Prepares, Renewal
      <4>3. CASE pc \in {"start", "record", "health", "running"}
        BY <1>0, <3>1, <3>2, <3>3, <4>3
        DEF Underway, RenewStage, Prepares, Renewal, Columns
      <4> QED
        BY <4>1, <4>2, <4>3 DEF Renewal
    <3> QED
      BY <1>0, <2>5, <2>2, <3>1, <3>4 DEF Handling, Underway
  <2> QED
    BY <2>2, <2>4, <2>5
<1>3. \A t \in todo' : ~IsLive(t.agent)'
  BY <1>0 DEF UpdateInv, Spared
<1>4. TeardownEvents'
  BY <1>0 DEF UpdateInv, TeardownEvents, Spared
<1>5. PurgesOfLost'
  BY <1>1 DEF PurgesOfLost
<1> QED
  BY <1>0, <1>2, <1>3, <1>4, <1>5 DEF UpdateInv, AgentsUpdated

\* A row that is not written is spared while no ports change hands.
LEMMA RowsSpared ==
  ASSUME UpdateInv, UNCHANGED <<row, alloc>>
  PROVE  \A a \in Agents : Spared(a)
  BY DEF UpdateInv, AgentsUpdated, Standing, Spared, Columns, OwnedBy, IsLive, Lost

\* So is a row of which the status is written.
LEMMA StatusSpared ==
  ASSUME UpdateInv, UNCHANGED alloc, NEW a \in Agents,
         NEW s \in {"running", "unhealthy", "stopped", "deleting", "updating"},
         \A b \in Agents \ {a} : row'[b] = row[b],
         row'[a].status = s, Columns(a), row'[a].hermesVersion = row[a].hermesVersion,
         s \in {"running", "unhealthy"} => IsLive(a)
  PROVE  \A b \in Agents : Spared(b)
<1>1. ASSUME NEW b \in Agents PROVE OwnedBy(b)' = OwnedBy(b) /\ Standing(b)
  BY DEF OwnedBy, UpdateInv, AgentsUpdated
<1>2. Spared(a)
  BY <1>1 DEF Standing, Spared, Columns, IsLive, Lost, Pipeline
<1>3. ASSUME NEW b \in Agents, b # a PROVE Spared(b)
  BY <1>1, <1>3 DEF Standing, Spared, Columns, IsLive, Lost
<1> QED
  BY <1>2, <1>3

\* The calls under way, as the invariant has them.
LEMMA CallsOfLost ==
  ASSUME UpdateInv
  PROVE  \A c \in calls : /\ c \in Call /\ c.agent \in Agents /\ c.at # "secret"
                          /\ c.at = "delete" /\ ~c.live => Lost(c.agent)
  BY DEF UpdateInv, IInv, TypeOK, ApiTypeOK, Call, PurgesOfLost

\* The crash watcher drops every event: the row is in none of the states that
\* it takes for a crash.
LEMMA WatcherKeepsUpdate ==
  ASSUME UpdateInv, IInv', WatcherStep, UNCHANGED <<workerVars, apiVars, healthVars>>
  PROVE  UpdateInv'
<1>1. PICK d \in dies : CrashRead(d) \/ CrashMark(d) \/ CrashLog(d)
                          \/ CrashRelease(d) \/ CrashSweep(d)
  BY DEF WatcherStep
<1>2. d.at = "event" /\ ~IsLive(d.agent) /\ d.agent \in Agents
  BY DEF UpdateInv, TeardownEvents, IInv, TypeOK, PlatformTypeOK, Death
<1>3. ~Exists(d.agent) \/ row[d.agent].status \in SKIP_STATUSES
  BY <1>2
  DEF IsLive, Exists, UpdateInv, IInv, TypeOK, PlatformTypeOK, Row, Statuses,
      ACTIVE_STATUSES, SKIP_STATUSES, Pipeline
<1>4. dies' \subseteq dies /\ UNCHANGED <<row, alloc, box, route, calls>>
  BY <1>1, <1>2, <1>3
  DEF CrashRead, CrashMark, CrashLog, CrashRelease, CrashSweep, Finish, WatcherStep, apiVars
<1> QED
  BY <1>4, RowsSpared, CallsOfLost, BesideUpdate

\* The health loop toggles the status of a live row.
LEMMA HealthKeepsUpdate ==
  ASSUME UpdateInv, IInv', HealthStep, UNCHANGED <<workerVars, apiVars>>
  PROVE  UpdateInv'
<1>0. /\ PlatformTypeOK /\ probes \in SUBSET Probe
      /\ UNCHANGED <<box, alloc, route, dies, calls>>
  BY DEF UpdateInv, IInv, TypeOK, HealthTypeOK, HealthStep, docker, apiVars
<1>1. CASE UNCHANGED row
  BY <1>0, <1>1, RowsSpared, CallsOfLost, BesideUpdate
<1>2. CASE \E a \in Agents, from, to \in {"running", "unhealthy"} :
             row[a].status = from /\ SetStatus(a, to)
  <2> PICK a \in Agents, from \in {"running", "unhealthy"}, to \in {"running", "unhealthy"} :
             row[a].status = from /\ SetStatus(a, to)
    BY <1>2
  <2>1. row'[a] = [row[a] EXCEPT !.status = to] /\ row[a] \in Row
    BY <1>0 DEF SetStatus, PlatformTypeOK
  <2>2. row'[a].hermesVersion = row[a].hermesVersion
    BY <2>1 DEF Row
  <2>3. \A b \in Agents : Spared(b)
    BY <1>0, <2>2, StatusOnly, StatusSpared DEF IsLive
  <2> QED
    BY <1>0, <2>3, CallsOfLost, BesideUpdate
<1>3. UNCHANGED row \/ \E a \in Agents, from, to \in {"running", "unhealthy"} :
                         row[a].status = from /\ SetStatus(a, to)
  BY <1>0 DEF HealthStep, ProbeAllFind, ProbeSucceeds, ProbeFails, MarkUnhealthy,
     Recover, Toggle, Probe
<1> QED
  BY <1>1, <1>2, <1>3

\* The API: a stop, a deletion and an update write the status, and a row that
\* the API deletes itself had lost its container.
LEMMA ApiKeepsUpdate ==
  ASSUME UpdatesOnly, UpdateInv, IInv', ApiStep, UNCHANGED <<workerVars, healthVars>>
  PROVE  UpdateInv'
<1>0. PlatformTypeOK /\ UNCHANGED <<box, route, dies>>
      /\ \A a \in Agents : Standing(a)
  BY DEF UpdateInv, IInv, TypeOK, AgentsUpdated, ApiStep, FinishCall, docker
<1>1. ASSUME NEW a \in Agents, SetStatus(a, "stopped") \/ SetStatus(a, "deleting"),
             UNCHANGED alloc
      PROVE  \A b \in Agents : Spared(b)
  <2> PICK s \in {"stopped", "deleting"} : SetStatus(a, s)
    BY <1>1
  <2>1. row'[a] = [row[a] EXCEPT !.status = s] /\ row[a] \in Row
    BY <1>0 DEF SetStatus, PlatformTypeOK
  <2>2. row'[a].hermesVersion = row[a].hermesVersion
    BY <2>1 DEF Row
  <2> QED
    BY <1>0, <1>1, <2>2, StatusOnly, StatusSpared
<1>2. CASE NewRequest /\ UNCHANGED alloc
  <2>1. PICK a \in Agents : \/ Control(a, "stop") \/ DeleteRead(a)
                            \/ \E v \in Versions : UpdateRequest(a, v)
    BY <1>0, <1>2 DEF NewRequest, CreateRow, Control, Request, UpdatesOnly,
       Oldest, WithStatus, Standing
  <2>2. CASE Control(a, "stop")
    <3>1. SetStatus(a, "stopped") /\ UNCHANGED calls
      BY <2>2 DEF Control, ACTION_TO_STATUS
    <3> QED
      BY <1>0, <1>1, <1>2, <3>1, CallsOfLost, BesideUpdate
  <2>3. CASE DeleteRead(a) \/ \E v \in Versions : UpdateRequest(a, v)
    <3>1. UNCHANGED row
      BY <2>3 DEF DeleteRead, UpdateRequest
    <3>2. PICK c : /\ calls' = calls \cup {c} /\ c.agent = a /\ c.at # "secret"
                   /\ c.at = "delete" /\ ~c.live => Lost(a)
      <4>1. CASE DeleteRead(a)
        <5> DEFINE c == [NewCall(a, "delete") EXCEPT !.live = row[a].containerId # None]
        <5>1. /\ c.agent = a /\ c.at = "delete"
              /\ c.live = (row[a].containerId # None)
          BY DEF NewCall
        <5>2. calls' = calls \cup {c}
          BY <4>1 DEF DeleteRead
        <5> HIDE DEF c
        <5> QED
          BY <5>1, <5>2 DEF Lost
      <4>2. CASE \E v \in Versions : UpdateRequest(a, v)
        <5> PICK v \in Versions : UpdateRequest(a, v)
          BY <4>2
        <5> DEFINE c == [NewCall(a, "updateCheck") EXCEPT !.version = v]
        <5>1. c.agent = a /\ c.at = "updateCheck"
          BY DEF NewCall
        <5>2. calls' = calls \cup {c}
          BY DEF UpdateRequest
        <5> HIDE DEF c
        <5> QED
          BY <5>1, <5>2
      <4> QED
        BY <2>3, <4>1, <4>2
    <3>3. \A d \in calls' : /\ d.agent \in Agents /\ d.at # "secret"
                            /\ d.at = "delete" /\ ~d.live => Lost(d.agent)
      BY <3>2, CallsOfLost
    <3> QED
      BY <1>0, <1>2, <3>1, <3>3, RowsSpared, BesideUpdate
  <2> QED
    BY <2>1, <2>2, <2>3
<1>3. CASE FinishCall
  <2> PICK c \in calls : \/ (UpdateCheck(c) \/ UpdateWrite(c)) /\ UNCHANGED alloc
                         \/ DeleteMarks(c) \/ DeletePurges(c)
    BY <1>3, CallsOfLost DEF FinishCall, WriteSecret
  <2>1. c \in Call /\ c.agent \in Agents /\ (c.at = "delete" /\ ~c.live => Lost(c.agent))
    BY CallsOfLost
  <2>2. \A d \in calls' : /\ d.agent \in Agents /\ d.at # "secret"
                          /\ d.at = "delete" /\ ~d.live => Lost(d.agent)
    <3>1. CASE UpdateCheck(c)
      <4> DEFINE e == [c EXCEPT !.at = "updateWrite"]
      <4>1. e.at = "updateWrite" /\ e.agent = c.agent
        BY <2>1 DEF Call
      <4>2. calls' \subseteq calls \cup {e}
        BY <3>1 DEF UpdateCheck
      <4> HIDE DEF e
      <4> QED
        BY <2>1, <4>1, <4>2, CallsOfLost
    <3>2. CASE calls' = calls \ {c}
      BY <3>2, CallsOfLost
    <3> QED
      BY <3>1, <3>2 DEF UpdateWrite, DeleteMarks, DeletePurges, End
  <2> PICK a \in Agents : a = c.agent
    BY <2>1
  <2>3. CASE UNCHANGED <<row, alloc>>
    BY <1>0, <2>2, <2>3, RowsSpared, BesideUpdate
  <2>4. CASE Exists(a) /\ UpdateWrite(c) /\ UNCHANGED alloc
    <3>1. row' = [row EXCEPT ![a].status = "updating", ![a].target = c.version]
      BY <2>4 DEF UpdateWrite
    <3>2. /\ row'[a] = [row[a] EXCEPT !.status = "updating", !.target = c.version]
          /\ row[a] \in Row /\ \A b \in Agents \ {a} : row'[b] = row[b]
      BY <1>0, <3>1 DEF PlatformTypeOK
    <3>3. row'[a].status = "updating" /\ Columns(a)
          /\ row'[a].hermesVersion = row[a].hermesVersion
      BY <3>2 DEF Row, Columns
    <3> QED
      BY <1>0, <2>2, <2>4, <3>2, <3>3, StatusSpared, BesideUpdate
  <2>5. CASE Exists(a) /\ DeleteMarks(c)
    <3>1. SetStatus(a, "deleting") /\ UNCHANGED alloc
      BY <2>5 DEF DeleteMarks
    <3> QED
      BY <1>0, <1>1, <2>2, <3>1, BesideUpdate
  <2>6. CASE Exists(a) /\ DeletePurges(c)
    <3>1. row' = [row EXCEPT ![a] = GoneRow] /\ ReleasePort(a) /\ Lost(a)
      BY <2>1, <2>6 DEF DeletePurges, GoneRow
    <3>2. /\ row'[a].status = "gone" /\ row'[a].containerId = None
          /\ row'[a].apiPort = None
          /\ \A b \in Agents \ {a} : row'[b] = row[b]
      BY <1>0, <3>1 DEF PlatformTypeOK, GoneRow, UnbornRow
    <3>3. \A b \in Agents \ {a} : OwnedBy(b)' = OwnedBy(b)
      BY <1>0, <3>1, PlatformAssumption DEF ReleasePort, PlatformTypeOK, OwnedBy
    <3>4. Spared(a)
      BY <3>1, <3>2 DEF Spared, IsLive, Pipeline
    <3>5. ASSUME NEW b \in Agents, b # a PROVE Spared(b)
      BY <1>0, <3>2, <3>3, <3>5 DEF Spared, Standing, IsLive, Lost, Columns
    <3> QED
      BY <1>0, <2>2, <3>4, <3>5, BesideUpdate
  <2> QED
    BY <2>3, <2>4, <2>5, <2>6 DEF UpdateCheck, UpdateWrite, DeleteMarks, DeletePurges, tables
<1> QED
  BY <1>2, <1>3 DEF ApiStep

\* The invariant holds where every agent is up.
LEMMA UpdateInit == AllUp => UpdateInv
<1> SUFFICES ASSUME AllUp PROVE UpdateInv
  OBVIOUS
<1>1. /\ pc = "queue" /\ job = Idle /\ todo = {} /\ calls = {} /\ dies = {} /\ IInv
  BY UpTyped DEF AllUp, WorkerInit, ApiInit
<1>2. ASSUME NEW a \in Agents PROVE Standing(a) /\ ~Handling(a) /\ Rests(a)
  <2>1. /\ row[a].status = "running" /\ Intact(a) /\ IsUp(a) /\ box[a].id = row[a].containerId
        /\ box[a] \in Container \cup {None}
    BY DEF AllUp, Intact, Served, PlatformTypeOK
  <2>2. ~Lost(a)
    BY <2>1, PlatformAssumption DEF Lost, IsUp, Has, Container
  <2>3. ~Handling(a)
    BY <1>1, PlatformAssumption DEF Handling, Idle
  <2> QED
    BY <2>1, <2>2, <2>3 DEF Standing, Rests, IsUp, Pipeline
<1> QED
  BY <1>1, <1>2
  DEF UpdateInv, AgentsUpdated, TeardownEvents, PurgesOfLost, Tearing, Looping, Renewal,
      Prepares, AtWork, Labels

\* Every step keeps it.
LEMMA UpdateStep ==
  ASSUME UpdatesOnly, UpdateInv, [Next]_vars
  PROVE  UpdateInv'
<1>0. IInv'
  BY StepHolds DEF UpdateInv
<1>1. CASE WorkerStep /\ Timely /\ UNCHANGED <<apiVars, healthVars>>
  BY <1>0, <1>1, WorkerKeepsUpdate
<1>2. ~Interrupted
  BY DEF UpdatesOnly, Interrupted, Interruption, WorkerCrash, HostReboot, UpdateInv, IInv,
     TypeOK, WorkerTypeOK
<1>3. CASE WatcherStep /\ UNCHANGED <<workerVars, apiVars, healthVars>>
  BY <1>0, <1>3, WatcherKeepsUpdate
<1>4. ~DaemonStep
  <2> SUFFICES ASSUME NEW a \in Agents PROVE ~ContainerDies(a) /\ ~ContainerRestarts(a)
    BY DEF DaemonStep
  <2>1. Standing(a) /\ deaths \in Nat
    BY DEF UpdateInv, AgentsUpdated, IInv, TypeOK, PlatformTypeOK
  <2> QED
    BY <2>1 DEF UpdatesOnly, ContainerDies, ContainerRestarts, Standing
<1>5. CASE ApiStep /\ UNCHANGED <<workerVars, healthVars>>
  BY <1>0, <1>5, ApiKeepsUpdate
<1>6. CASE HealthStep /\ UNCHANGED <<workerVars, apiVars>>
  BY <1>0, <1>6, HealthKeepsUpdate
<1>7. CASE UNCHANGED vars
  BY <1>0, <1>7, RowsSpared, CallsOfLost, BesideUpdate DEF vars, platform, apiVars
<1> QED
  BY <1>1, <1>2, <1>3, <1>4, <1>5, <1>6, <1>7 DEF Next

\* The invariant holds in every state.
LEMMA UpdateHolds == UpdatesOnly => (UpSpec => []UpdateInv)
<1>1. UpdatesOnly /\ UpdateInv /\ [Next]_vars => UpdateInv'
  BY UpdateStep
<1>2. UpdatesOnly => UpdatesOnly'
  BY DEF UpdatesOnly
<1> QED
  BY UpdateInit, <1>1, <1>2, PTL DEF UpSpec

\* A running agent shows the version of the image that its container runs,
\* whatever failed in the updates that it went through.
THEOREM UpdatesShowVersion == UpdatesOnly => (UpSpec => []VersionShown)
<1>1. UpdateInv => VersionShown
  BY DEF UpdateInv, AgentsUpdated, Rests, Intact, IsLive, VersionShown, WithStatus
<1> QED
  BY <1>1, UpdateHolds, PTL

\* A running agent is served by a container on its own ports after any number
\* of updates: one that fails half-way never leaves a running row behind.
THEOREM UpdatesServed == UpdatesOnly => (UpSpec => []RunningIsServed)
<1>1. UpdateInv => RunningIsServed
  BY DEF UpdateInv, AgentsUpdated, Rests, Intact, IsLive, RunningIsServed, WithStatus
<1> QED
  BY <1>1, UpdateHolds, PTL
=============================================================================
