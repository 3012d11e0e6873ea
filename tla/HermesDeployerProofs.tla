------------------------ MODULE HermesDeployerProofs ------------------------
(***************************************************************************)
(* What HermesDeployer guarantees for every number of agents, any port     *)
(* range, any faults and any number of crashes, reboots and requests.      *)
(***************************************************************************)
EXTENDS HermesDeployer, TLAPS

-----------------------------------------------------------------------------
(* The inductive invariant.  TypeOK alone is not inductive: the worker      *)
(* writes the row of job.agent and starts an image job.image, which are     *)
(* None while no job is under way, and updateAgent reads a target version   *)
(* that only the API's check makes sure of.                                 *)

\* The labels at which the worker handles an agent, and those from which it
\* may still start a container.
AtWork == Labels \ {"down", "boot", "reconcile", "queue", "updates",
                    "stops", "stopBox", "deletes", "deleteBox"}

Imaged == {"staleBox", "staleRoute", "stalePorts", "staleClear", "allocating",
           "allocApi", "allocDash", "starting", "secret", "create",
           "updating", "pull", "stopOld"}

JobInv ==
    /\ pc \in AtWork => job.agent \in Agents
    /\ pc \in Imaged => job.image \in Versions
    /\ pc = "reconcile" => \A t \in todo : t.ref \in Ports

Targeted(a) == row[a].status = "gone" \/ row[a].target # None

TargetInv ==
    /\ \A a \in Agents : row[a].status = "updating" => row[a].target # None
    /\ pc = "updating" => Targeted(job.agent)
    /\ \A c \in calls : c.at \in {"updateCheck", "updateWrite"} => c.version # None

IInv == TypeOK /\ JobInv /\ TargetInv

-----------------------------------------------------------------------------
(* The helpers of Platform *)

\* Whatever stopAndRemove does, containers and die events stay well-formed.
LEMMA StopAndRemoveTyped ==
  ASSUME PlatformTypeOK, NEW a \in Agents, NEW i, NEW pending \in SUBSET Death,
         StopAndRemove(a, i, pending)
  PROVE  box' \in [Agents -> Container \cup {None}] /\ dies' \in SUBSET Death
<1> USE PlatformAssumption DEF PlatformTypeOK
<1>1. DieEvent(a) \in SUBSET Death
  BY DEF DieEvent, IsUp, Has, Death, Container
<1> QED
  BY <1>1 DEF StopAndRemove, IsBox, Has, Container

\* Clearing the container and port columns keeps status and target.
LEMMA ClearedTyped ==
  ASSUME NEW r \in Row
  PROVE  /\ Cleared(r) \in Row
         /\ Cleared(r).status = r.status
         /\ Cleared(r).target = r.target
  BY DEF Cleared, Row, IdOrNone, PortOrNone

\* Overwriting the status keeps the target.
LEMMA WithStatusTyped ==
  ASSUME NEW r \in Row, NEW s \in Statuses
  PROVE  /\ [r EXCEPT !.status = s] \in Row
         /\ [r EXCEPT !.status = s].status = s
         /\ [r EXCEPT !.status = s].target = r.target
  BY DEF Row

\* The row that a deletion leaves behind.
LEMMA GoneRowTyped == GoneRow \in Row /\ GoneRow.status = "gone"
<1>1. UnbornRow \in Row
  BY DEF UnbornRow, Row, Statuses, NoRow, IdOrNone, PortOrNone, VersionOrNone
<1> QED
  BY <1>1, WithStatusTyped DEF GoneRow, Statuses, NoRow

\* What every step keeps of the Agent table: a deleted row stays deleted, an
\* updating row has a target.
RowMove(a) ==
    row'[a] # row[a] =>
        /\ row[a].status # "gone"
        /\ row'[a].status = "updating" => row'[a].target # None

RowsKept == row' \in [Agents -> Row] /\ \A a \in Agents : RowMove(a)

\* A write of one existing row by a permitted one.
LEMMA RowWritten ==
  ASSUME PlatformTypeOK, NEW a \in Agents, NEW r \in Row,
         row' = [row EXCEPT ![a] = r],
         row[a].status # "gone",
         r.status = "updating" => r.target # None
  PROVE  RowsKept
  BY DEF PlatformTypeOK, RowsKept, RowMove

\* A step that writes no row.
LEMMA RowsUnchanged ==
  ASSUME PlatformTypeOK, UNCHANGED row
  PROVE  RowsKept
  BY DEF PlatformTypeOK, RowsKept, RowMove

\* A status that is neither unhealthy nor updating may overwrite any status of
\* a row that exists.
LEMMA StatusWritten ==
  ASSUME PlatformTypeOK, NEW a \in Agents, Exists(a),
         NEW s \in Statuses \ {"unhealthy", "updating"}, SetStatus(a, s)
  PROVE  RowsKept
<1> DEFINE r == [row[a] EXCEPT !.status = s]
<1>1. row[a] \in Row
  BY DEF PlatformTypeOK
<1>2. r \in Row /\ r.status = s
  BY <1>1, WithStatusTyped
<1>3. row' = [row EXCEPT ![a] = r]
  BY DEF SetStatus
<1>4. row[a].status # "gone"
  BY DEF Exists, NoRow
<1> HIDE DEF r
<1> QED
  BY <1>2, <1>3, <1>4, RowWritten


\* The columns that name an agent's container and ports.
Columns(a) == /\ row'[a].containerId = row[a].containerId
              /\ row'[a].apiPort = row[a].apiPort
              /\ row'[a].dashboardPort = row[a].dashboardPort

Blank(a) == /\ row[a].containerId = None
            /\ row[a].apiPort = None
            /\ row[a].dashboardPort = None

\* A write of the status leaves the columns and every other row alone.
LEMMA StatusOnly ==
  ASSUME PlatformTypeOK, NEW a \in Agents, NEW s, SetStatus(a, s)
  PROVE  /\ row'[a].status = s /\ Columns(a)
         /\ \A b \in Agents \ {a} : row'[b] = row[b]
<1>1. row \in [Agents -> Row] /\ row[a] \in Row
  BY DEF PlatformTypeOK
<1>2. row'[a] = [row[a] EXCEPT !.status = s] /\ \A b \in Agents \ {a} : row'[b] = row[b]
  BY <1>1 DEF SetStatus
<1> QED
  BY <1>1, <1>2 DEF Row, Columns

\* The columns are set to NULL.
LEMMA ColumnsOnly ==
  ASSUME PlatformTypeOK, NEW a \in Agents, row' = [row EXCEPT ![a] = Cleared(@)]
  PROVE  /\ row'[a].status = row[a].status /\ Blank(a)'
         /\ \A b \in Agents \ {a} : row'[b] = row[b]
<1>1. row \in [Agents -> Row] /\ row[a] \in Row
  BY DEF PlatformTypeOK
<1>2. row'[a] = Cleared(row[a]) /\ \A b \in Agents \ {a} : row'[b] = row[b]
  BY <1>1
<1> QED
  BY <1>1, <1>2 DEF Row, Cleared, Blank

\* The update after a container has started.
LEMMA RecordOnly ==
  ASSUME PlatformTypeOK, RecordContainer, NEW a \in Agents, a = job.agent, Exists(a)
  PROVE  /\ row'[a].status = row[a].status
         /\ row'[a].hermesVersion = row[a].hermesVersion
         /\ row'[a].containerId = job.ctr
         /\ row'[a].apiPort = IF job.kind = "drive" THEN job.api ELSE row[a].apiPort
         /\ row'[a].dashboardPort =
               IF job.kind = "drive" THEN job.dash ELSE row[a].dashboardPort
         /\ \A b \in Agents \ {a} : row'[b] = row[b]
<1>1. row \in [Agents -> Row] /\ row[a] \in Row
  BY DEF PlatformTypeOK
<1>2. /\ row'[a] = [row[a] EXCEPT !.containerId = job.ctr,
                !.apiPort = IF job.kind = "drive" THEN job.api ELSE @,
                !.dashboardPort = IF job.kind = "drive" THEN job.dash ELSE @]
      /\ \A b \in Agents \ {a} : row'[b] = row[b]
  BY <1>1 DEF RecordContainer
<1> QED
  BY <1>1, <1>2 DEF Row

\* The update at the end of drive and updateAgent.
LEMMA RunningOnly ==
  ASSUME PlatformTypeOK, MarkRunning, NEW a \in Agents, a = job.agent, Exists(a)
  PROVE  /\ row'[a].status = "running" /\ Columns(a)
         /\ row'[a].hermesVersion = ShownVersion(row[a])
         /\ \A b \in Agents \ {a} : row'[b] = row[b]
<1>1. row \in [Agents -> Row] /\ row[a] \in Row
  BY DEF PlatformTypeOK
<1>2. /\ row'[a] = [row[a] EXCEPT !.status = "running",
                !.hermesVersion = ShownVersion(row[a]),
                !.target = IF job.kind = "update" THEN None ELSE @]
      /\ \A b \in Agents \ {a} : row'[b] = row[b]
  BY <1>1 DEF MarkRunning
<1> QED
  BY <1>1, <1>2 DEF Row, Columns

\* The update of failDeployment.
LEMMA FailureOnly ==
  ASSUME PlatformTypeOK, FailDeployment, NEW a \in Agents, a = job.agent, Exists(a)
  PROVE  /\ row'[a].status = "failed" /\ Blank(a)'
         /\ \A b \in Agents \ {a} : row'[b] = row[b]
<1>1. row \in [Agents -> Row] /\ row[a] \in Row
  BY DEF PlatformTypeOK
<1>2. /\ row'[a] = [Cleared(row[a]) EXCEPT !.status = "failed"]
      /\ \A b \in Agents \ {a} : row'[b] = row[b]
  BY <1>1 DEF FailDeployment
<1> QED
  BY <1>1, <1>2 DEF Row, Cleared, Blank

-----------------------------------------------------------------------------
(* The worker: rows *)

\* setStatus in a try block.
LEMMA AnnounceRows ==
  ASSUME PlatformTypeOK, job.agent \in Agents, NEW next,
         NEW s \in Statuses \ {"unhealthy", "updating"}, Announce(s, next)
  PROVE  RowsKept
<1>1. CASE Exists(job.agent)
  BY <1>1, StatusWritten DEF Announce
<1>2. CASE ~Exists(job.agent)
  BY <1>2, RowsUnchanged DEF Announce
<1> QED
  BY <1>1, <1>2

\* The update that sets the container and port columns to NULL.
LEMMA ClearedRows ==
  ASSUME PlatformTypeOK, TargetInv, NEW a \in Agents, Exists(a),
         row' = [row EXCEPT ![a] = Cleared(@)]
  PROVE  RowsKept
<1>1. row[a] \in Row
  BY DEF PlatformTypeOK
<1> DEFINE r == Cleared(row[a])
<1>2. r \in Row /\ r.status = row[a].status /\ r.target = row[a].target
  BY <1>1, ClearedTyped
<1>3. row' = [row EXCEPT ![a] = r]
  OBVIOUS
<1>4. row[a].status # "gone" /\ (row[a].status = "updating" => row[a].target # None)
  BY DEF Exists, NoRow, TargetInv
<1> HIDE DEF r
<1> QED
  BY <1>2, <1>3, <1>4, RowWritten

\* The steps of the worker that write to the Agent table.
LEMMA RowWriters ==
  ASSUME WorkerStep
  PROVE  \/ DrainQueueClaim
         \/ SetAllocatingPorts \/ SetStarting \/ SetHealthChecking \/ SetRegisteringRoute
         \/ SetUpdating
         \/ StaleClear \/ StopsClear
         \/ RecordContainer \/ MarkRunning \/ FailDeployment \/ DeletesRow
         \/ UNCHANGED row
<1>1. CASE DriveStep
  BY <1>1 DEF DriveStep, DriveRead, StaleBox, StaleRoute, StalePorts,
     AllocateApiPort, AllocateDashboardPort, ReadSecretAndPrepare,
     CreateContainer, StartContainer, WaitForHealth, RegisterRoute,
     CleanupBox, CleanupRoute, CleanupPorts, platform, tables
<1>2. CASE DrainStep
  BY <1>2 DEF DrainStep, DrainQueueFind, DrainUpdatesFind, DrainUpdatesClaim,
     UpdateRead, PullImage, StopOldContainer, DrainStopsFind, StopsBox,
     StopsRoute, StopsPorts, DrainDeletesFind, DeletesBox, DeletesRoute,
     DeletesPorts, platform, tables
<1>3. CASE BootStep
  BY <1>3 DEF BootStep, WorkerBoot, ReconcileFind, ReconcileRoute,
     MainLoopStarts, platform, tables
<1> QED
  BY <1>1, <1>2, <1>3 DEF WorkerStep

\* Every write of the worker to the Agent table is a permitted one: it checks
\* that the row exists, or its update throws.
LEMMA WorkerRows ==
  ASSUME IInv, WorkerStep
  PROVE  RowsKept
<1> USE DEF IInv, TypeOK
<1>0. pc \in AtWork => job.agent \in Agents
  BY DEF JobInv
<1>1. CASE DrainQueueClaim
  <2>1. job.agent \in Agents
    BY <1>0, <1>1 DEF DrainQueueClaim, AtWork, Labels
  <2>2. CASE row[job.agent].status = "queued"
    <3>1. Exists(job.agent)
      BY <2>2 DEF Exists, NoRow
    <3>2. SetStatus(job.agent, "allocating_ports")
      BY <1>1, <2>2 DEF DrainQueueClaim
    <3> QED
      BY <2>1, <3>1, <3>2, StatusWritten DEF Statuses, ACTIVE_STATUSES, Pipeline
  <2>3. CASE row[job.agent].status # "queued"
    BY <1>1, <2>3, RowsUnchanged DEF DrainQueueClaim
  <2> QED
    BY <2>2, <2>3
<1>2. CASE SetAllocatingPorts \/ SetStarting \/ SetHealthChecking \/ SetRegisteringRoute
  <2>1. job.agent \in Agents
    BY <1>0, <1>2 DEF SetAllocatingPorts, SetStarting, SetHealthChecking,
                      SetRegisteringRoute, AtWork, Labels
  <2>2. PICK s \in Pipeline : \E next : Announce(s, next)
    BY <1>2 DEF SetAllocatingPorts, SetStarting, SetHealthChecking,
                SetRegisteringRoute, Pipeline
  <2>3. s \in Statuses \ {"unhealthy", "updating"}
    BY DEF Statuses, ACTIVE_STATUSES, Pipeline
  <2> QED
    BY <2>1, <2>2, <2>3, AnnounceRows
<1>3. CASE SetUpdating
  <2>1. job.agent \in Agents
    BY <1>0, <1>3 DEF SetUpdating, AtWork, Labels
  <2>2. CASE Exists(job.agent)
    <3> DEFINE r == [row[job.agent] EXCEPT !.status = "updating"]
    <3>1. row[job.agent] \in Row
      BY <2>1 DEF PlatformTypeOK
    <3>2. r \in Row /\ r.status = "updating" /\ r.target = row[job.agent].target
      BY <3>1, WithStatusTyped DEF Statuses, ACTIVE_STATUSES
    <3>3. row' = [row EXCEPT ![job.agent] = r]
      BY <1>3, <2>2 DEF SetUpdating, Announce, SetStatus
    <3>4. row[job.agent].status # "gone" /\ row[job.agent].target # None
      BY <1>3, <2>2 DEF SetUpdating, Exists, NoRow, TargetInv, Targeted
    <3> HIDE DEF r
    <3> QED
      BY <2>1, <3>2, <3>3, <3>4, RowWritten
  <2>3. CASE ~Exists(job.agent)
    BY <1>3, <2>3, RowsUnchanged DEF SetUpdating, Announce
  <2> QED
    BY <2>2, <2>3
<1>4. CASE StaleClear \/ StopsClear
  <2>1. job.agent \in Agents
    BY <1>0, <1>4 DEF StaleClear, StopsClear, AtWork, Labels
  <2>2. CASE Exists(job.agent)
    BY <1>4, <2>1, <2>2, ClearedRows DEF StaleClear, StopsClear
  <2>3. CASE ~Exists(job.agent)
    BY <1>4, <2>3, RowsUnchanged DEF StaleClear, StopsClear
  <2> QED
    BY <2>2, <2>3
<1>5. CASE RecordContainer
  <2>1. job.agent \in Agents
    BY <1>0, <1>5 DEF RecordContainer, AtWork, Labels
  <2>2. CASE Exists(job.agent)
    <3> DEFINE r0 == row[job.agent]
               r  == [r0 EXCEPT !.containerId = job.ctr,
                        !.apiPort = IF job.kind = "drive" THEN job.api ELSE @,
                        !.dashboardPort = IF job.kind = "drive" THEN job.dash ELSE @]
    <3>1. r0 \in Row
      BY <2>1 DEF PlatformTypeOK
    <3>2. /\ job.ctr \in IdOrNone /\ job.api \in PortOrNone
          /\ job.dash \in PortOrNone
      BY DEF WorkerTypeOK, Job
    <3>3. r \in Row /\ r.status = r0.status /\ r.target = r0.target
      BY <3>1, <3>2 DEF Row
    <3>4. row' = [row EXCEPT ![job.agent] = r]
      BY <1>5, <2>2 DEF RecordContainer
    <3>5. r0.status # "gone" /\ (r0.status = "updating" => r0.target # None)
      BY <2>1, <2>2 DEF Exists, NoRow, TargetInv
    <3> HIDE DEF r
    <3> QED
      BY <2>1, <3>3, <3>4, <3>5, RowWritten
  <2>3. CASE ~Exists(job.agent)
    BY <1>5, <2>3, RowsUnchanged DEF RecordContainer
  <2> QED
    BY <2>2, <2>3
<1>6. CASE MarkRunning
  <2>1. job.agent \in Agents
    BY <1>0, <1>6 DEF MarkRunning, AtWork, Labels
  <2>2. CASE Exists(job.agent)
    <3> DEFINE r0 == row[job.agent]
               r  == [r0 EXCEPT !.status = "running",
                        !.hermesVersion = ShownVersion(r0),
                        !.target = IF job.kind = "update" THEN None ELSE @]
    <3>1. r0 \in Row
      BY <2>1 DEF PlatformTypeOK
    <3>2. ShownVersion(r0) \in VersionOrNone
      BY <3>1 DEF ShownVersion, WorkerTypeOK, Job, Row
    <3>3. r \in Row /\ r.status = "running"
      BY <3>1, <3>2 DEF Row, VersionOrNone, Statuses, ACTIVE_STATUSES
    <3>4. row' = [row EXCEPT ![job.agent] = r]
      BY <1>6, <2>2 DEF MarkRunning
    <3>5. r0.status # "gone"
      BY <2>2 DEF Exists, NoRow
    <3> HIDE DEF r
    <3> QED
      BY <2>1, <3>3, <3>4, <3>5, RowWritten
  <2>3. CASE ~Exists(job.agent)
    BY <1>6, <2>3, RowsUnchanged DEF MarkRunning
  <2> QED
    BY <2>2, <2>3
<1>7. CASE FailDeployment
  <2>1. job.agent \in Agents
    BY <1>0, <1>7 DEF FailDeployment, AtWork, Labels
  <2>2. CASE Exists(job.agent)
    <3> DEFINE r == [Cleared(row[job.agent]) EXCEPT !.status = "failed"]
    <3>1. r \in Row /\ r.status = "failed"
      BY <2>1, ClearedTyped, WithStatusTyped DEF PlatformTypeOK, Statuses
    <3>2. row' = [row EXCEPT ![job.agent] = r]
      BY <1>7, <2>2 DEF FailDeployment
    <3>3. row[job.agent].status # "gone"
      BY <2>2 DEF Exists, NoRow
    <3> HIDE DEF r
    <3> QED
      BY <2>1, <3>1, <3>2, <3>3, RowWritten
  <2>3. CASE ~Exists(job.agent)
    BY <1>7, <2>3, RowsUnchanged DEF FailDeployment
  <2> QED
    BY <2>2, <2>3
<1>8. CASE DeletesRow
  <2>1. job.agent \in Agents
    BY <1>0, <1>8 DEF DeletesRow, AtWork, Labels
  <2>2. CASE Exists(job.agent)
    <3>1. row' = [row EXCEPT ![job.agent] = GoneRow]
      BY <1>8, <2>2 DEF DeletesRow
    <3>2. row[job.agent].status # "gone"
      BY <2>2 DEF Exists, NoRow
    <3> QED
      BY <2>1, <3>1, <3>2, GoneRowTyped, RowWritten
  <2>3. CASE ~Exists(job.agent)
    BY <1>8, <2>3, RowsUnchanged DEF DeletesRow
  <2> QED
    BY <2>2, <2>3
<1>9. CASE UNCHANGED row
  BY <1>9, RowsUnchanged
<1> QED
  BY <1>1, <1>2, <1>3, <1>4, <1>5, <1>6, <1>7, <1>8, <1>9, RowWriters

-----------------------------------------------------------------------------
(* The worker: ports, routes and containers *)

TableKept ==
    /\ alloc' \in [Ports -> Agents \cup {None}]
    /\ Pool!Next \/ UNCHANGED alloc

RouteKept == route' \in [Agents -> PortOrNone]

DockerKept ==
    /\ box' \in [Agents -> Container \cup {None}]
    /\ gen' \in [Agents -> Nat]
    /\ dies' \in SUBSET Death
    /\ attached' \in BOOLEAN
    /\ deaths' \in Nat

\* releasePort is the contract's GiveBack.
LEMMA PortsReleased ==
  ASSUME PlatformTypeOK, NEW a \in Agents, ReleasePort(a)
  PROVE  TableKept
<1>1. alloc' \in [Ports -> Agents \cup {None}]
  BY DEF PlatformTypeOK, ReleasePort
<1>2. Pool!Next
  BY DEF Pool!Next, Pool!GiveBack, ReleasePort
<1> QED
  BY <1>1, <1>2 DEF TableKept

\* A successful allocatePort is the contract's Take.
LEMMA PortTaken ==
  ASSUME PlatformTypeOK, NEW a \in Agents, NEW p \in Ports, AllocatePort(a, p)
  PROVE  TableKept
<1>1. alloc' \in [Ports -> Agents \cup {None}]
  BY DEF PlatformTypeOK, AllocatePort
<1>2. Pool!Next
  BY DEF Pool!Next, Pool!Take, AllocatePort, LowestFree, Free
<1> QED
  BY <1>1, <1>2 DEF TableKept

\* The steps of the worker that change the table PortAllocation.
LEMMA PortWriters ==
  ASSUME WorkerStep
  PROVE  \/ AllocateApiPort \/ AllocateDashboardPort
         \/ StalePorts \/ CleanupPorts \/ StopsPorts \/ DeletesPorts
         \/ UNCHANGED alloc
<1>1. CASE DriveStep
  BY <1>1 DEF DriveStep, DriveRead, StaleBox, StaleRoute, StaleClear,
     SetAllocatingPorts, SetStarting, ReadSecretAndPrepare, CreateContainer,
     StartContainer, RecordContainer, SetHealthChecking, WaitForHealth,
     SetRegisteringRoute, RegisterRoute, MarkRunning, FailDeployment,
     CleanupBox, CleanupRoute, Announce, platform, tables
<1>2. CASE DrainStep
  BY <1>2 DEF DrainStep, DrainQueueFind, DrainQueueClaim, DrainUpdatesFind,
     DrainUpdatesClaim, UpdateRead, SetUpdating, PullImage, StopOldContainer,
     DrainStopsFind, StopsBox, StopsRoute, StopsClear, DrainDeletesFind,
     DeletesBox, DeletesRoute, DeletesRow, Announce, platform, tables
<1>3. CASE BootStep
  BY <1>3 DEF BootStep, WorkerBoot, ReconcileFind, ReconcileRoute,
     MainLoopStarts, platform, tables
<1> QED
  BY <1>1, <1>2, <1>3 DEF WorkerStep

\* The worker uses PortAllocation as its contract says, because it allocates
\* and releases only for the agent that it handles.
LEMMA WorkerTable ==
  ASSUME IInv, WorkerStep
  PROVE  TableKept
<1> USE DEF IInv, TypeOK
<1>0. pc \in AtWork => job.agent \in Agents
  BY DEF JobInv
<1>1. CASE AllocateApiPort \/ AllocateDashboardPort
  <2>1. job.agent \in Agents
    BY <1>0, <1>1 DEF AllocateApiPort, AllocateDashboardPort, AtWork, Labels
  <2>2. CASE UNCHANGED alloc
    BY <2>2 DEF TableKept, PlatformTypeOK
  <2>3. CASE \E p \in Ports : AllocatePort(job.agent, p)
    BY <2>1, <2>3, PortTaken
  <2> QED
    BY <1>1, <2>2, <2>3 DEF AllocateApiPort, AllocateDashboardPort
<1>2. CASE StalePorts \/ CleanupPorts \/ StopsPorts \/ DeletesPorts
  <2>1. job.agent \in Agents
    BY <1>0, <1>2 DEF StalePorts, CleanupPorts, StopsPorts, DeletesPorts,
                      AtWork, Labels
  <2>2. CASE UNCHANGED alloc
    BY <2>2 DEF TableKept, PlatformTypeOK
  <2>3. CASE ReleasePort(job.agent)
    BY <2>1, <2>3, PortsReleased
  <2> QED
    BY <1>2, <2>2, <2>3 DEF StalePorts, CleanupPorts, StopsPorts, DeletesPorts
<1>3. CASE UNCHANGED alloc
  BY <1>3 DEF TableKept, PlatformTypeOK
<1> QED
  BY <1>1, <1>2, <1>3, PortWriters

\* The steps of the worker that change Caddy's routes.
LEMMA RouteWriters ==
  ASSUME WorkerStep
  PROVE  \/ RegisterRoute
         \/ StaleRoute \/ CleanupRoute \/ StopsRoute \/ DeletesRoute
         \/ ReconcileRoute
         \/ UNCHANGED route
<1>1. CASE DriveStep
  BY <1>1 DEF DriveStep, DriveRead, StaleBox, StalePorts, StaleClear,
     SetAllocatingPorts, AllocateApiPort, AllocateDashboardPort, SetStarting,
     ReadSecretAndPrepare, CreateContainer, StartContainer, RecordContainer,
     SetHealthChecking, WaitForHealth, SetRegisteringRoute, MarkRunning,
     FailDeployment, CleanupBox, CleanupPorts, Announce, platform
<1>2. CASE DrainStep
  BY <1>2 DEF DrainStep, DrainQueueFind, DrainQueueClaim, DrainUpdatesFind,
     DrainUpdatesClaim, UpdateRead, SetUpdating, PullImage, StopOldContainer,
     DrainStopsFind, StopsBox, StopsPorts, StopsClear, DrainDeletesFind,
     DeletesBox, DeletesPorts, DeletesRow, Announce, platform
<1>3. CASE BootStep
  BY <1>3 DEF BootStep, WorkerBoot, ReconcileFind, MainLoopStarts, platform
<1> QED
  BY <1>1, <1>2, <1>3 DEF WorkerStep

\* A route leads to a port of the range or is absent.
LEMMA WorkerRoute ==
  ASSUME IInv, WorkerStep
  PROVE  RouteKept
<1> USE DEF IInv, TypeOK
<1>1. CASE RegisterRoute
  <2>1. job.agent \in Agents /\ job.dash \in PortOrNone
    BY <1>1 DEF RegisterRoute, JobInv, AtWork, Labels, WorkerTypeOK, Job
  <2> QED
    BY <1>1, <2>1 DEF RegisterRoute, AddRoute, RouteKept, PlatformTypeOK
<1>2. CASE StaleRoute \/ CleanupRoute \/ StopsRoute \/ DeletesRoute
  <2>1. job.agent \in Agents
    BY <1>2 DEF StaleRoute, CleanupRoute, StopsRoute, DeletesRoute, JobInv,
                AtWork, Labels
  <2> QED
    BY <1>2, <2>1 DEF StaleRoute, CleanupRoute, StopsRoute, DeletesRoute,
       RemoveRoute, RouteKept, PlatformTypeOK, PortOrNone
<1>3. CASE ReconcileRoute
  <2> PICK t \in todo : AddRoute(t.agent, t.ref) \/ UNCHANGED route
    BY <1>3 DEF ReconcileRoute
  <2>1. t.agent \in Agents /\ t.ref \in Ports
    BY <1>3 DEF ReconcileRoute, JobInv, WorkerTypeOK, Pending
  <2> QED
    BY <2>1 DEF AddRoute, RouteKept, PlatformTypeOK, PortOrNone
<1>4. CASE UNCHANGED route
  BY <1>4 DEF RouteKept, PlatformTypeOK
<1> QED
  BY <1>1, <1>2, <1>3, <1>4, RouteWriters

\* A step that leaves the daemon alone.
LEMMA DockerUnchanged ==
  ASSUME PlatformTypeOK, UNCHANGED docker
  PROVE  DockerKept
  BY DEF PlatformTypeOK, DockerKept, docker

\* A call of stopAndRemove with the die events as they are.
LEMMA DockerStopped ==
  ASSUME PlatformTypeOK, NEW a \in Agents, NEW i, NEW pending \in SUBSET Death,
         StopAndRemove(a, i, pending), UNCHANGED <<gen, attached, deaths>>
  PROVE  DockerKept
<1>1. box' \in [Agents -> Container \cup {None}] /\ dies' \in SUBSET Death
  BY StopAndRemoveTyped
<1> QED
  BY <1>1 DEF PlatformTypeOK, DockerKept

\* The steps of the worker that change containers and die events.
LEMMA DockerWriters ==
  ASSUME WorkerStep
  PROVE  \/ StaleBox \/ CleanupBox \/ StopOldContainer
         \/ StopsBox \/ DeletesBox
         \/ CreateContainer \/ StartContainer \/ MainLoopStarts
         \/ UNCHANGED docker
<1>1. CASE DriveStep
  BY <1>1 DEF DriveStep, DriveRead, StaleRoute, StalePorts, StaleClear,
     SetAllocatingPorts, AllocateApiPort, AllocateDashboardPort, SetStarting,
     ReadSecretAndPrepare, RecordContainer, SetHealthChecking, WaitForHealth,
     SetRegisteringRoute, RegisterRoute, MarkRunning, FailDeployment,
     CleanupRoute, CleanupPorts, Announce, platform, docker
<1>2. CASE DrainStep
  BY <1>2 DEF DrainStep, DrainQueueFind, DrainQueueClaim, DrainUpdatesFind,
     DrainUpdatesClaim, UpdateRead, SetUpdating, PullImage, DrainStopsFind,
     StopsRoute, StopsPorts, StopsClear, DrainDeletesFind, DeletesRoute,
     DeletesPorts, DeletesRow, Announce, platform, docker
<1>3. CASE BootStep
  BY <1>3 DEF BootStep, WorkerBoot, ReconcileFind, ReconcileRoute, platform,
     docker
<1> QED
  BY <1>1, <1>2, <1>3 DEF WorkerStep

\* A container gets two ports of the range and an image version.
LEMMA WorkerDocker ==
  ASSUME IInv, WorkerStep
  PROVE  DockerKept
<1> USE DEF IInv, TypeOK
<1>0. pc \in AtWork => job.agent \in Agents
  BY DEF JobInv
<1>1. CASE StaleBox \/ CleanupBox \/ StopOldContainer
  <2>1. job.agent \in Agents
    BY <1>0, <1>1 DEF StaleBox, CleanupBox, StopOldContainer, AtWork, Labels
  <2>2. UNCHANGED <<gen, attached, deaths>>
    BY <1>1 DEF StaleBox, CleanupBox, StopOldContainer
  <2>3. UNCHANGED docker \/ \E i : StopAndRemove(job.agent, i, dies)
    BY <1>1, <2>2 DEF StaleBox, CleanupBox, StopOldContainer, docker
  <2> QED
    BY <2>1, <2>2, <2>3, DockerStopped, DockerUnchanged DEF PlatformTypeOK
<1>2. CASE StopsBox \/ DeletesBox
  <2>1. UNCHANGED <<gen, attached, deaths>>
    BY <1>2 DEF StopsBox, DeletesBox
  <2>2. PICK t \in todo : UNCHANGED docker \/ StopAndRemove(t.agent, t.ref, dies)
    BY <1>2, <2>1 DEF StopsBox, DeletesBox, docker
  <2>3. t.agent \in Agents
    BY DEF WorkerTypeOK, Pending
  <2> QED
    BY <2>1, <2>2, <2>3, DockerStopped, DockerUnchanged DEF PlatformTypeOK
<1>3. CASE CreateContainer
  <2>1. job.agent \in Agents /\ job.image \in Versions
    BY <1>3 DEF CreateContainer, JobInv, AtWork, Imaged, Labels
  <2>2. CASE /\ job.api # None /\ job.dash # None
             /\ box' = [box EXCEPT ![job.agent] = NewContainer]
             /\ gen' = [gen EXCEPT ![job.agent] = @ + 1]
    <3>1. gen[job.agent] + 1 \in Nat /\ job.api \in Ports /\ job.dash \in Ports
      BY <2>1, <2>2 DEF PlatformTypeOK, WorkerTypeOK, Job, PortOrNone
    <3>2. NewContainer \in Container
      BY <2>1, <3>1 DEF NewContainer, Container
    <3> QED
      BY <1>3, <2>1, <3>1, <3>2 DEF CreateContainer, PlatformTypeOK, DockerKept
  <2>3. CASE UNCHANGED <<box, gen>>
    BY <1>3, <2>3, DockerUnchanged DEF CreateContainer, docker
  <2> QED
    BY <1>3, <2>2, <2>3 DEF CreateContainer
<1>4. CASE StartContainer
  <2>1. CASE UNCHANGED box
    BY <1>4, <2>1, DockerUnchanged DEF StartContainer, docker
  <2>2. CASE ~UNCHANGED box
    <3>1. job.agent \in Agents
      BY <1>4, <1>0 DEF StartContainer, AtWork, Labels
    <3>2. box[job.agent] \in Container
      BY <1>4, <2>2, <3>1 DEF StartContainer, Has, PlatformTypeOK
    <3>3. box' = [box EXCEPT ![job.agent].state = "up", ![job.agent].boot = @ + 1]
      BY <1>4, <2>2 DEF StartContainer
    <3>4. box'[job.agent] \in Container
      BY <3>1, <3>2, <3>3 DEF PlatformTypeOK, Container
    <3>5. box' = [box EXCEPT ![job.agent] = box'[job.agent]]
      BY <3>1, <3>3 DEF PlatformTypeOK
    <3> QED
      BY <1>4, <3>1, <3>4, <3>5 DEF StartContainer, PlatformTypeOK, DockerKept
  <2> QED
    BY <2>1, <2>2
<1>5. CASE MainLoopStarts
  BY <1>5 DEF MainLoopStarts, PlatformTypeOK, DockerKept
<1>6. CASE UNCHANGED docker
  BY <1>6, DockerUnchanged
<1> QED
  BY <1>1, <1>2, <1>3, <1>4, <1>5, <1>6, DockerWriters

\* The worker keeps the types of the shared state.
LEMMA WorkerPlatform ==
  ASSUME IInv, WorkerStep
  PROVE  PlatformTypeOK'
  BY WorkerRows, WorkerTable, WorkerRoute, WorkerDocker
  DEF PlatformTypeOK, RowsKept, TableKept, RouteKept, DockerKept

-----------------------------------------------------------------------------
(* The worker: its own variables *)

LocalsKept == WorkerTypeOK' /\ JobInv' /\ (pc' = "updating" => Targeted(job.agent)')

\* A step within a job: the job keeps its variables.
Moves ==
    /\ UNCHANGED <<job, todo, budgets>>
    /\ pc \in AtWork
    /\ pc' \in Labels \ {"reconcile", "updating"}
    /\ pc' \in Imaged => pc \in Imaged

\* A step that ends a job or a search that found nothing to do.
Leaves ==
    /\ job' = Idle
    /\ todo' \in SUBSET Pending
    /\ UNCHANGED budgets
    /\ pc' \in Labels \ (AtWork \cup {"reconcile"})

\* A step within a job.
LEMMA MovesKept ==
  ASSUME IInv, Moves
  PROVE  LocalsKept
<1>1. WorkerTypeOK'
  BY DEF IInv, TypeOK, WorkerTypeOK, Moves, budgets
<1>2. JobInv'
  BY DEF IInv, JobInv, Moves
<1> QED
  BY <1>1, <1>2 DEF LocalsKept, Moves

\* The absence of a job is a job record.
LEMMA IdleTyped == Idle \in Job
  BY DEF Idle, Job, IdOrNone, PortOrNone, VersionOrNone

\* A step that ends a job.
LEMMA LeavesKept ==
  ASSUME IInv, Leaves
  PROVE  LocalsKept
<1>1. WorkerTypeOK'
  BY IdleTyped DEF IInv, TypeOK, WorkerTypeOK, Leaves, budgets
<1>2. pc' \notin AtWork /\ pc' \notin Imaged /\ pc' # "reconcile" /\ pc' # "updating"
  BY DEF Leaves, AtWork, Imaged, Labels
<1>3. JobInv'
  BY <1>2 DEF JobInv
<1> QED
  BY <1>1, <1>2, <1>3 DEF LocalsKept

\* The steps of drive that write no variable of the job.
LEMMA DriveMoves ==
  ASSUME DriveStep, WorkerTypeOK
  PROVE  \/ Moves \/ Leaves
         \/ DriveRead \/ AllocateApiPort \/ AllocateDashboardPort
         \/ StartContainer \/ RegisterRoute
<1> USE DEF Goto, Leave, AfterJob, AtWork, Imaged, Labels, WorkerTypeOK, Moves, Leaves
<1>1. CASE StaleBox \/ StaleRoute \/ StalePorts \/ StaleClear
  BY <1>1 DEF StaleBox, StaleRoute, StalePorts, StaleClear
<1>2. CASE SetAllocatingPorts \/ SetStarting \/ ReadSecretAndPrepare \/ CreateContainer
  BY <1>2 DEF SetAllocatingPorts, SetStarting, ReadSecretAndPrepare,
              CreateContainer, Announce
<1>3. CASE RecordContainer \/ SetHealthChecking \/ WaitForHealth
  BY <1>3 DEF RecordContainer, SetHealthChecking, WaitForHealth, Announce
<1>4. CASE SetRegisteringRoute \/ MarkRunning \/ FailDeployment
  BY <1>4 DEF SetRegisteringRoute, MarkRunning, FailDeployment, Announce
<1>5. CASE CleanupBox \/ CleanupRoute \/ CleanupPorts
  BY <1>5 DEF CleanupBox, CleanupRoute, CleanupPorts
<1> QED
  BY <1>1, <1>2, <1>3, <1>4, <1>5 DEF DriveStep

\* The same of the drains and of updateAgent.
LEMMA DrainMoves ==
  ASSUME DrainStep, PlatformTypeOK, WorkerTypeOK
  PROVE  \/ Moves \/ Leaves
         \/ DrainQueueFind \/ DrainUpdatesFind \/ UpdateRead
         \/ StopsBox \/ DeletesBox
<1> USE DEF Goto, Leave, AtWork, Imaged, Labels, WorkerTypeOK, Moves, Leaves
<1>1. CASE DrainQueueClaim \/ DrainUpdatesClaim \/ SetUpdating \/ PullImage \/ StopOldContainer
  BY <1>1 DEF DrainQueueClaim, DrainUpdatesClaim, SetUpdating, PullImage,
              StopOldContainer, Announce
<1>2. CASE DrainStopsFind
  <2>1. todo' \in SUBSET Pending
    BY <1>2 DEF DrainStopsFind, Stopped, WithStatus, Pending, PlatformTypeOK, Row
  <2> QED
    BY <1>2, <2>1 DEF DrainStopsFind
<1>3. CASE DrainDeletesFind
  <2>1. todo' \in SUBSET Pending
    BY <1>3 DEF DrainDeletesFind, WithStatus, Pending, PlatformTypeOK, Row
  <2> QED
    BY <1>3, <2>1 DEF DrainDeletesFind
<1>4. CASE StopsRoute \/ StopsPorts \/ StopsClear
  BY <1>4 DEF StopsRoute, StopsPorts, StopsClear
<1>5. CASE DeletesRoute \/ DeletesPorts \/ DeletesRow
  BY <1>5 DEF DeletesRoute, DeletesPorts, DeletesRow
<1> QED
  BY <1>1, <1>2, <1>3, <1>4, <1>5 DEF DrainStep

\* The record updates that start or advance a job.
LEMMA WorkerLocals ==
  ASSUME IInv, WorkerStep
  PROVE  LocalsKept
<1> USE DEF IInv, TypeOK
<1>0. /\ pc \in AtWork => job.agent \in Agents
      /\ pc \in Imaged => job.image \in Versions
      /\ job \in Job /\ todo \in SUBSET Pending
  BY DEF JobInv, WorkerTypeOK
<1>1. CASE DrainQueueFind \/ DrainUpdatesFind
  <2>1. CASE Leave("updates") \/ Leave("stops")
    <3>1. Leaves
      BY <1>0, <1>1, <2>1 DEF Leaves, Leave, DrainQueueFind, DrainUpdatesFind,
         AtWork, Labels
    <3> QED
      BY <3>1, LeavesKept
  <2>2. CASE ~(Leave("updates") \/ Leave("stops"))
    <3>1. PICK a \in Agents, k \in {"drive", "update"} :
             job' = [Idle EXCEPT !.kind = k, !.agent = a]
      BY <1>1, <2>2 DEF DrainQueueFind, DrainUpdatesFind
    <3>2. job' \in Job /\ job'.agent = a
      BY <3>1, IdleTyped DEF Job
    <3>3. pc' \in {"claim", "updateClaim"} /\ UNCHANGED <<todo, budgets>>
      BY <1>1, <2>2 DEF DrainQueueFind, DrainUpdatesFind
    <3> QED
      BY <3>2, <3>3 DEF LocalsKept, WorkerTypeOK, JobInv, AtWork, Imaged,
         Labels, budgets
  <2> QED
    BY <2>1, <2>2
<1>2. CASE DriveRead
  <2>1. job.agent \in Agents
    BY <1>0, <1>2 DEF DriveRead, AtWork, Labels
  <2>2. CASE Leave("updates")
    <3>1. Leaves
      BY <1>0, <1>2, <2>2 DEF Leaves, Leave, DriveRead, AtWork, Labels
    <3> QED
      BY <3>1, LeavesKept
  <2>3. CASE ~Leave("updates")
    <3>1. job' = [job EXCEPT !.old = row[job.agent].containerId, !.image = BaseVersion,
                             !.first = (row[job.agent].hermesVersion = None)]
      BY <1>2, <2>3 DEF DriveRead
    <3>2. row[job.agent].containerId \in IdOrNone
      BY <2>1 DEF PlatformTypeOK, Row
    <3>3. job' \in Job /\ job'.agent = job.agent /\ job'.image = BaseVersion
      BY <1>0, <3>1, <3>2, PlatformAssumption DEF Job, VersionOrNone
    <3>4. pc' \in {"staleBox", "allocating"} /\ UNCHANGED <<todo, budgets>>
      BY <1>2, <2>3 DEF DriveRead
    <3> QED
      BY <2>1, <3>3, <3>4, PlatformAssumption
      DEF LocalsKept, WorkerTypeOK, JobInv, Labels, budgets
  <2> QED
    BY <2>2, <2>3
<1>3. CASE AllocateApiPort \/ AllocateDashboardPort
  <2>1. job.agent \in Agents /\ job.image \in Versions
    BY <1>0, <1>3 DEF AllocateApiPort, AllocateDashboardPort, AtWork, Imaged, Labels
  <2>2. UNCHANGED <<todo, budgets>>
    BY <1>3 DEF AllocateApiPort, AllocateDashboardPort
  <2>3. CASE Goto("fail")
    <3>1. Moves
      BY <1>0, <1>3, <2>2, <2>3 DEF Moves, Goto, AllocateApiPort,
         AllocateDashboardPort, AtWork, Imaged, Labels
    <3> QED
      BY <3>1, MovesKept
  <2>4. CASE ~Goto("fail")
    <3>1. PICK p \in Ports : \/ job' = [job EXCEPT !.api = p]
                             \/ job' = [job EXCEPT !.dash = p]
      BY <1>3, <2>4 DEF AllocateApiPort, AllocateDashboardPort
    <3>2. job' \in Job /\ job'.agent = job.agent /\ job'.image = job.image
      BY <1>0, <3>1 DEF Job, PortOrNone
    <3>3. pc' \in {"allocDash", "starting"}
      BY <1>3, <2>4 DEF AllocateApiPort, AllocateDashboardPort
    <3> QED
      BY <2>1, <2>2, <3>2, <3>3 DEF LocalsKept, WorkerTypeOK, JobInv, Labels, budgets
  <2> QED
    BY <2>3, <2>4
<1>4. CASE StartContainer
  <2>1. job.agent \in Agents /\ UNCHANGED <<todo, budgets>>
    BY <1>0, <1>4 DEF StartContainer, AtWork, Labels
  <2>2. CASE Goto("fail")
    <3>1. Moves
      BY <1>0, <1>4, <2>1, <2>2 DEF Moves, Goto, StartContainer, AtWork, Imaged, Labels
    <3> QED
      BY <3>1, MovesKept
  <2>3. CASE ~Goto("fail")
    <3>1. job' = [job EXCEPT !.ctr = box[job.agent].id] /\ pc' = "record"
      BY <1>4, <2>3 DEF StartContainer
    <3>2. box[job.agent].id \in IdOrNone
      BY <1>4, <2>1, <2>3 DEF StartContainer, Has, PlatformTypeOK, Container, IdOrNone
    <3>3. job' \in Job /\ job'.agent = job.agent
      BY <1>0, <3>1, <3>2 DEF Job
    <3> QED
      BY <2>1, <3>1, <3>3 DEF LocalsKept, WorkerTypeOK, JobInv, Imaged, Labels, budgets
  <2> QED
    BY <2>2, <2>3
<1>5. CASE RegisterRoute
  <2>1. job.agent \in Agents /\ UNCHANGED <<todo, budgets>>
    BY <1>0, <1>5 DEF RegisterRoute, AtWork, Labels
  <2>2. CASE Goto("fail")
    <3>1. Moves
      BY <1>0, <1>5, <2>1, <2>2 DEF Moves, Goto, RegisterRoute, AtWork, Imaged, Labels
    <3> QED
      BY <3>1, MovesKept
  <2>3. CASE ~Goto("fail")
    <3>1. job' = [job EXCEPT !.routed = TRUE] /\ pc' = "running"
      BY <1>5, <2>3 DEF RegisterRoute
    <3>2. job' \in Job /\ job'.agent = job.agent
      BY <1>0, <3>1 DEF Job
    <3> QED
      BY <2>1, <3>1, <3>2 DEF LocalsKept, WorkerTypeOK, JobInv, Imaged, Labels, budgets
  <2> QED
    BY <2>2, <2>3
<1>6. CASE UpdateRead
  <2>1. job.agent \in Agents /\ UNCHANGED <<row, todo, budgets>>
    BY <1>0, <1>6 DEF UpdateRead, AtWork, Labels, platform
  <2>2. CASE Leave("stops")
    <3>1. Leaves
      BY <1>0, <1>6, <2>1, <2>2 DEF Leaves, Leave, UpdateRead, AtWork, Labels
    <3> QED
      BY <3>1, LeavesKept
  <2>3. CASE ~Leave("stops")
    <3> DEFINE r == row[job.agent]
    <3>1. /\ r.status = "updating" /\ pc' = "updating"
          /\ job' = [job EXCEPT !.old = r.containerId, !.api = r.apiPort,
                                !.dash = r.dashboardPort, !.image = r.target]
      BY <1>6, <2>3 DEF UpdateRead
    <3>2. r \in Row /\ r.target # None
      BY <2>1, <3>1 DEF PlatformTypeOK, TargetInv
    <3>3. job' \in Job /\ job'.agent = job.agent /\ job'.image \in Versions
      BY <1>0, <3>1, <3>2 DEF Job, Row, VersionOrNone
    <3>4. Targeted(job.agent)'
      BY <2>1, <3>2, <3>3 DEF Targeted
    <3> QED
      BY <2>1, <3>1, <3>3, <3>4 DEF LocalsKept, WorkerTypeOK, JobInv, Labels, budgets
  <2> QED
    BY <2>2, <2>3
<1>7. CASE StopsBox \/ DeletesBox
  <2>1. PICK t \in todo : Sweep(t, "stopRoute") \/ Sweep(t, "deleteRoute")
    BY <1>7 DEF StopsBox, DeletesBox
  <2>2. job' = [Idle EXCEPT !.kind = "sweep", !.agent = t.agent, !.old = t.ref]
    BY <2>1 DEF Sweep
  <2>3. t.agent \in Agents /\ t.ref \in IdOrNone
    BY <1>0 DEF Pending
  <2>4. job' \in Job /\ job'.agent \in Agents
    BY <2>2, <2>3, IdleTyped DEF Job
  <2>5. pc' \in {"stopRoute", "deleteRoute"} /\ todo' \in SUBSET Pending
    BY <1>0, <2>1 DEF Sweep
  <2>6. UNCHANGED budgets
    BY <1>7 DEF StopsBox, DeletesBox
  <2> QED
    BY <2>4, <2>5, <2>6 DEF LocalsKept, WorkerTypeOK, JobInv, Imaged, Labels, budgets
<1>8. CASE BootStep
  <2>1. CASE WorkerBoot
    BY <1>0, <2>1 DEF WorkerBoot, Goto, LocalsKept, WorkerTypeOK, JobInv,
       AtWork, Imaged, Labels, budgets
  <2>2. CASE ReconcileFind
    <3>1. \A t \in todo' : t \in Pending /\ t.ref \in Ports
      <4> SUFFICES ASSUME NEW t \in todo' PROVE t \in Pending /\ t.ref \in Ports
        OBVIOUS
      <4>1. PICK a \in Reconcilable :
               t = [agent |-> a, ref |-> row[a].dashboardPort]
        BY <2>2 DEF ReconcileFind
      <4>2. a \in Agents /\ row[a].dashboardPort # None
        BY DEF Reconcilable, WithStatus
      <4>3. row[a].dashboardPort \in Ports
        BY <4>2 DEF PlatformTypeOK, Row, PortOrNone
      <4> QED
        BY <4>1, <4>2, <4>3, PlatformAssumption DEF Pending, IdOrNone
    <3>2. pc' = "reconcile" /\ UNCHANGED <<job, budgets>>
      BY <2>2 DEF ReconcileFind, Goto
    <3> QED
      BY <3>1, <3>2 DEF LocalsKept, WorkerTypeOK, JobInv, AtWork, Imaged,
         Labels, budgets
  <2>3. CASE ReconcileRoute
    <3>1. todo' \in SUBSET todo /\ pc' = "reconcile" /\ UNCHANGED <<job, budgets, pc>>
      BY <2>3 DEF ReconcileRoute
    <3> QED
      BY <1>0, <3>1 DEF LocalsKept, WorkerTypeOK, JobInv, budgets
  <2>4. CASE MainLoopStarts
    BY <1>0, <2>4 DEF MainLoopStarts, Goto, LocalsKept, WorkerTypeOK, JobInv,
       AtWork, Imaged, Labels, budgets
  <2> QED
    BY <1>8, <2>1, <2>2, <2>3, <2>4 DEF BootStep
<1>9. CASE Moves \/ Leaves
  BY <1>9, MovesKept, LeavesKept
<1>10. \/ DriveRead \/ AllocateApiPort \/ AllocateDashboardPort
       \/ StartContainer \/ RegisterRoute
       \/ DrainQueueFind \/ DrainUpdatesFind \/ UpdateRead
       \/ StopsBox \/ DeletesBox
       \/ BootStep \/ Moves \/ Leaves
  BY DriveMoves, DrainMoves DEF WorkerStep
<1> QED
  BY <1>1, <1>2, <1>3, <1>4, <1>5, <1>6, <1>7, <1>8, <1>9, <1>10

\* The worker keeps the invariant.
LEMMA WorkerKeeps ==
  ASSUME IInv, WorkerStep, UNCHANGED <<apiVars, healthVars>>
  PROVE  IInv'
<1>1. TypeOK'
  BY WorkerPlatform, WorkerLocals
  DEF LocalsKept, IInv, TypeOK, ApiTypeOK, HealthTypeOK, apiVars, healthVars
<1>2. TargetInv'
  <2>1. RowsKept /\ LocalsKept /\ UNCHANGED calls
    BY WorkerRows, WorkerLocals DEF apiVars
  <2> QED
    BY <2>1 DEF RowsKept, RowMove, LocalsKept, IInv, TargetInv
<1> QED
  BY <1>1, <1>2, WorkerLocals DEF IInv, LocalsKept

-----------------------------------------------------------------------------
(* Crashes, reboots and the Docker daemon *)

\* A crash or a reboot keeps it, and writes no table.
LEMMA InterruptedKeeps ==
  ASSUME IInv, Interrupted, UNCHANGED apiVars
  PROVE  IInv' /\ UNCHANGED <<row, alloc>>
<1> USE DEF IInv, TypeOK
<1>1. ProcessEnds /\ UNCHANGED <<row, alloc, gen, deaths, calls, requests>>
  BY DEF Interrupted, Interruption, WorkerCrash, HostReboot, tables, apiVars
<1>2. box' \in [Agents -> Container \cup {None}] /\ route' \in [Agents -> PortOrNone]
  <2>1. CASE WorkerCrash
    BY <2>1 DEF WorkerCrash, PlatformTypeOK
  <2>2. CASE HostReboot
    <3>1. \A b \in Container \cup {None} : BoxAfterReboot(b) \in Container \cup {None}
      BY PlatformAssumption DEF BoxAfterReboot, Container
    <3> QED
      BY <2>2, <3>1 DEF HostReboot, PlatformTypeOK, PortOrNone
  <2> QED
    BY <2>1, <2>2 DEF Interrupted, Interruption
<1>3. PlatformTypeOK'
  BY <1>1, <1>2 DEF PlatformTypeOK, ProcessEnds
<1>4. crashes' \in Nat /\ reboots' \in Nat
  BY DEF Interrupted, Interruption, WorkerCrash, HostReboot, WorkerTypeOK
<1>5. WorkerTypeOK' /\ JobInv'
  BY <1>1, <1>4, IdleTyped
  DEF ProcessEnds, WorkerTypeOK, JobInv, AtWork, Imaged, Labels
<1>6. ApiTypeOK' /\ HealthTypeOK'
  BY <1>1, HealthLoopAssumption DEF Interrupted, ApiTypeOK, HealthTypeOK, NoFailures
<1>7. TargetInv'
  BY <1>1 DEF TargetInv, ProcessEnds
<1> QED
  BY <1>1, <1>3, <1>5, <1>6, <1>7

\* The Docker daemon keeps it, and writes no table.
LEMMA DaemonKeeps ==
  ASSUME IInv, DaemonStep, UNCHANGED <<workerVars, apiVars, healthVars>>
  PROVE  IInv' /\ UNCHANGED <<row, alloc>>
<1> USE DEF IInv, TypeOK
<1>1. UNCHANGED <<row, alloc, route, gen, attached>>
  BY DEF DaemonStep, ContainerDies, ContainerRestarts
<1>2. PICK a \in Agents : ContainerDies(a) \/ ContainerRestarts(a)
  BY DEF DaemonStep
<1>3. ASSUME ContainerDies(a) PROVE PlatformTypeOK'
  <2>1. box[a] \in Container
    BY <1>3 DEF ContainerDies, IsUp, Has, PlatformTypeOK
  <2>2. DieEvent(a) \in SUBSET Death
    BY <2>1 DEF DieEvent, Death, Container
  <2>3. box' \in [Agents -> Container \cup {None}]
    BY <1>3, <2>1 DEF ContainerDies, PlatformTypeOK, Container
  <2> QED
    BY <1>1, <1>3, <2>2, <2>3 DEF ContainerDies, PlatformTypeOK
<1>4. ASSUME ContainerRestarts(a) PROVE PlatformTypeOK'
  <2>1. box[a] \in Container
    BY <1>4 DEF ContainerRestarts, Has, PlatformTypeOK
  <2>2. box' = [box EXCEPT ![a].state = "up", ![a].boot = @ + 1]
    BY <1>4 DEF ContainerRestarts
  <2>3. box'[a] \in Container
    BY <2>1, <2>2 DEF PlatformTypeOK, Container
  <2>4. box' = [box EXCEPT ![a] = box'[a]]
    BY <2>2 DEF PlatformTypeOK
  <2> QED
    BY <1>1, <1>4, <2>3, <2>4 DEF ContainerRestarts, PlatformTypeOK
<1>5. PlatformTypeOK'
  BY <1>2, <1>3, <1>4
<1>6. UNCHANGED <<workerVars, apiVars, healthVars, row>>
  BY <1>1
<1> QED
  BY <1>1, <1>5, <1>6 DEF workerVars, apiVars, healthVars, WorkerTypeOK, ApiTypeOK,
     HealthTypeOK, JobInv, TargetInv, Targeted

-----------------------------------------------------------------------------
(* Steps of the other processes, which leave the worker's variables alone *)

\* What updateAgent relies on while it is about to announce the update.
TargetsStay == \A a \in Agents : Targeted(a) => Targeted(a)'

\* A write that keeps or sets the target version, or deletes the row.
LEMMA RowRetargeted ==
  ASSUME PlatformTypeOK, NEW a \in Agents, NEW r \in Row,
         row' = [row EXCEPT ![a] = r],
         row[a].status # "gone",
         r.target = row[a].target \/ r.target # None \/ r.status = "gone"
  PROVE  TargetsStay
  BY DEF PlatformTypeOK, TargetsStay, Targeted

\* A step that writes no row keeps the target versions.
LEMMA RowsAloneTargets ==
  ASSUME UNCHANGED row
  PROVE  TargetsStay
  BY DEF TargetsStay, Targeted

\* A step beside the worker keeps the invariant if it keeps the types, the
\* rows, the targets and what the update handlers carry.
LEMMA BesideKeeps ==
  ASSUME IInv, UNCHANGED workerVars,
         PlatformTypeOK', ApiTypeOK', HealthTypeOK', RowsKept, TargetsStay,
         \A c \in calls' : c.at \in {"updateCheck", "updateWrite"} => c.version # None
  PROVE  IInv'
<1>1. TypeOK' /\ JobInv'
  BY DEF IInv, TypeOK, WorkerTypeOK, JobInv, workerVars
<1>2. TargetInv'
  <2>1. \A a \in Agents : row'[a].status = "updating" => row'[a].target # None
    BY DEF RowsKept, RowMove, IInv, TargetInv
  <2>2. pc' = "updating" => Targeted(job.agent)'
    <3> SUFFICES ASSUME pc = "updating" PROVE Targeted(job.agent)'
      BY DEF workerVars
    <3>1. job.agent \in Agents /\ Targeted(job.agent)
      BY DEF IInv, JobInv, TargetInv, AtWork, Labels
    <3>2. Targeted(job.agent)' <=> (row'[job.agent].status = "gone" \/ row'[job.agent].target # None)
      BY DEF Targeted, workerVars
    <3> QED
      BY <3>1, <3>2 DEF TargetsStay, Targeted
  <2> QED
    BY <2>1, <2>2 DEF TargetInv
<1> QED
  BY <1>1, <1>2 DEF IInv

\* The crash watcher keeps the invariant.
LEMMA WatcherKeeps ==
  ASSUME IInv, WatcherStep, UNCHANGED <<workerVars, apiVars, healthVars>>
  PROVE  IInv' /\ RowsKept /\ TableKept
<1> USE DEF IInv, TypeOK
<1>1. PICK d \in dies : CrashRead(d) \/ CrashMark(d) \/ CrashLog(d)
                          \/ CrashRelease(d) \/ CrashSweep(d)
  BY DEF WatcherStep
<1>2. d \in Death /\ d.agent \in Agents
  BY DEF PlatformTypeOK, Death
<1>3. UNCHANGED <<route, gen, attached, deaths>>
  BY DEF WatcherStep
<1>4. RowsKept /\ TargetsStay
  <2>1. CASE UNCHANGED row
    BY <2>1, RowsUnchanged, RowsAloneTargets
  <2>2. CASE CrashMark(d) /\ Exists(d.agent)
    <3> DEFINE r == [row[d.agent] EXCEPT !.status = "crashed"]
    <3>1. row' = [row EXCEPT ![d.agent] = r]
      BY <2>2 DEF CrashMark, SetStatus
    <3>2. r \in Row /\ r.status = "crashed" /\ r.target = row[d.agent].target
      BY <1>2, WithStatusTyped DEF PlatformTypeOK, Statuses
    <3>3. row[d.agent].status # "gone"
      BY <2>2 DEF Exists, NoRow
    <3> HIDE DEF r
    <3> QED
      BY <1>2, <3>1, <3>2, <3>3, RowWritten, RowRetargeted
  <2> QED
    BY <1>1, <2>1, <2>2 DEF CrashRead, CrashMark, CrashLog, CrashRelease, CrashSweep
<1>5. TableKept
  <2>1. CASE UNCHANGED alloc
    BY <2>1 DEF TableKept, PlatformTypeOK
  <2>2. CASE ReleasePort(d.agent)
    BY <1>2, <2>2, PortsReleased
  <2> QED
    BY <1>1, <2>1, <2>2 DEF CrashRead, CrashMark, CrashLog, CrashRelease, CrashSweep
<1>6. DockerKept
  <2>1. CASE CrashSweep(d)
    <3>1. dies \ {d} \in SUBSET Death
      BY DEF PlatformTypeOK
    <3> QED
      BY <1>2, <1>3, <2>1, <3>1, DockerStopped DEF CrashSweep
  <2>2. CASE ~CrashSweep(d)
    <3>1. UNCHANGED box /\ \/ Finish(d)
                           \/ \E at \in {"mark", "log", "release", "sweep"} : Advance(d, at)
      BY <1>1, <2>2 DEF CrashRead, CrashMark, CrashLog, CrashRelease
    <3>2. \A at \in {"mark", "log", "release", "sweep"} : [d EXCEPT !.at = at] \in Death
      BY <1>2 DEF Death
    <3>3. dies' \in SUBSET Death
      BY <3>1, <3>2 DEF Finish, Advance, PlatformTypeOK
    <3> QED
      BY <1>3, <3>1, <3>3 DEF DockerKept, PlatformTypeOK
  <2> QED
    BY <2>1, <2>2
<1>7. PlatformTypeOK'
  BY <1>3, <1>4, <1>5, <1>6 DEF PlatformTypeOK, RowsKept, TableKept, DockerKept
<1>8. /\ ApiTypeOK' /\ HealthTypeOK' /\ UNCHANGED workerVars
      /\ \A c \in calls' : c.at \in {"updateCheck", "updateWrite"} => c.version # None
  BY DEF apiVars, healthVars, ApiTypeOK, HealthTypeOK, TargetInv
<1> QED
  BY <1>4, <1>5, <1>7, <1>8, BesideKeeps

\* The health loop keeps the invariant, and writes no port.
LEMMA HealthKeeps ==
  ASSUME IInv, HealthStep, UNCHANGED <<workerVars, apiVars>>
  PROVE  IInv' /\ RowsKept /\ UNCHANGED alloc
<1> USE DEF IInv, TypeOK
<1>1. UNCHANGED <<alloc, route, box, gen, dies, attached, deaths>>
  BY DEF HealthStep, docker
<1>2. RowsKept /\ TargetsStay
  <2>1. CASE UNCHANGED row
    BY <2>1, RowsUnchanged, RowsAloneTargets
  <2>2. CASE ~UNCHANGED row
    <3>1. PICK t \in probes, from \in {"running", "unhealthy"}, to \in {"running", "unhealthy"} :
             row[t.agent].status = from /\ SetStatus(t.agent, to)
      BY <2>2 DEF HealthStep, ProbeAllFind, ProbeSucceeds, ProbeFails,
         MarkUnhealthy, Recover, Toggle
    <3>2. t.agent \in Agents
      BY DEF HealthTypeOK, Probe
    <3> DEFINE r == [row[t.agent] EXCEPT !.status = to]
    <3>3. r \in Row /\ r.status = to /\ r.target = row[t.agent].target
      BY <3>2, WithStatusTyped DEF PlatformTypeOK, Statuses, ACTIVE_STATUSES
    <3>4. row' = [row EXCEPT ![t.agent] = r]
      BY <3>1 DEF SetStatus
    <3> HIDE DEF r
    <3> QED
      BY <3>1, <3>2, <3>3, <3>4, RowWritten, RowRetargeted
  <2> QED
    BY <2>1, <2>2
<1>3. HealthTypeOK'
  <2>1. CASE ProbeAllFind
    <3>1. probes' \in SUBSET Probe
      BY <2>1 DEF ProbeAllFind, Probed, WithStatus, Probe, PlatformTypeOK, Row, PortOrNone
    <3> QED
      BY <2>1, <3>1 DEF ProbeAllFind, HealthTypeOK
  <2>2. ASSUME NEW t \in probes,
               \/ ProbeSucceeds(t) \/ ProbeFails(t) \/ MarkUnhealthy(t) \/ Recover(t)
        PROVE  HealthTypeOK'
    <3>1. t \in Probe /\ t.agent \in Agents
      BY DEF HealthTypeOK, Probe
    <3>2. \A next \in {"markUnhealthy", "recover"} : [t EXCEPT !.at = next] \in Probe
      BY <3>1 DEF Probe
    <3>3. probes' \in SUBSET Probe
      BY <2>2, <3>2 DEF ProbeSucceeds, ProbeFails, MarkUnhealthy, Recover, Settle,
         GoOn, HealthTypeOK
    <3>4. \A n \in 0 .. healthProbeFailThreshold : Counted(n) \in 0 .. healthProbeFailThreshold
      BY HealthLoopAssumption DEF Counted
    <3>5. failCounts' \in [Agents -> 0 .. healthProbeFailThreshold]
      BY <2>2, <3>1, <3>4, HealthLoopAssumption
      DEF ProbeSucceeds, ProbeFails, MarkUnhealthy, Recover, HealthTypeOK
    <3> QED
      BY <3>3, <3>5 DEF HealthTypeOK
  <2> QED
    BY <2>1, <2>2 DEF HealthStep
<1>4. PlatformTypeOK'
  BY <1>1, <1>2 DEF PlatformTypeOK, RowsKept
<1>5. /\ ApiTypeOK' /\ UNCHANGED workerVars
      /\ \A c \in calls' : c.at \in {"updateCheck", "updateWrite"} => c.version # None
  BY DEF apiVars, ApiTypeOK, TargetInv
<1> QED
  BY <1>1, <1>2, <1>3, <1>4, <1>5, BesideKeeps

-----------------------------------------------------------------------------
(* The API *)

CallsKept ==
    /\ calls' \in SUBSET Call
    /\ requests' \in Nat
    /\ \A c \in calls' : c.at \in {"updateCheck", "updateWrite"} => c.version # None

\* A handler that ends.
LEMMA CallEnds ==
  ASSUME IInv, NEW c \in calls, End(c), UNCHANGED requests
  PROVE  CallsKept
  BY DEF IInv, TypeOK, ApiTypeOK, TargetInv, End, CallsKept

\* A new handler that asks for no update.
LEMMA CallBegins ==
  ASSUME IInv, NEW c \in Call, c.at \in {"secret", "delete"},
         calls' = calls \cup {c}, requests' \in Nat
  PROVE  CallsKept
  BY DEF IInv, TypeOK, ApiTypeOK, TargetInv, CallsKept

\* A handler starts well-formed.
LEMMA NewCallTyped ==
  ASSUME NEW a \in Agents, NEW at \in {"secret", "delete", "updateCheck"}
  PROVE  NewCall(a, at) \in Call /\ NewCall(a, at).at = at
  BY DEF NewCall, Call, VersionOrNone

ApiKept == RowsKept /\ TargetsStay /\ TableKept /\ CallsKept

\* The first step of a request.
LEMMA NewRequestKeeps ==
  ASSUME IInv, NewRequest, UNCHANGED alloc
  PROVE  ApiKept
<1> USE DEF IInv, TypeOK
<1>1. TableKept
  BY DEF TableKept, PlatformTypeOK
<1>2. requests' \in Nat
  BY DEF NewRequest, CreateRow, Control, DeleteRead, UpdateRequest, Request, ApiTypeOK
<1>3. ASSUME NEW a \in Agents, CreateRow(a) PROVE ApiKept
  <2> DEFINE r == [row[a] EXCEPT !.status = "queued"]
  <2>1. row[a].status = "unborn"
    BY <1>3 DEF CreateRow, Oldest, WithStatus
  <2>2. row' = [row EXCEPT ![a] = r]
    BY <1>3 DEF CreateRow
  <2>3. r \in Row /\ r.status = "queued" /\ r.target = row[a].target
    BY WithStatusTyped DEF PlatformTypeOK, Statuses, ACTIVE_STATUSES
  <2> HIDE DEF r
  <2>4. RowsKept /\ TargetsStay
    BY <2>1, <2>2, <2>3, RowWritten, RowRetargeted
  <2>5. CallsKept
    BY <1>2, <1>3, CallBegins, NewCallTyped DEF CreateRow
  <2> QED
    BY <1>1, <2>4, <2>5 DEF ApiKept
<1>4. ASSUME NEW a \in Agents, NEW action, Control(a, action) PROVE ApiKept
  <2> DEFINE s == ACTION_TO_STATUS(action)
             r == [row[a] EXCEPT !.status = s]
  <2>1. s \in {"stopped", "queued"}
    BY DEF ACTION_TO_STATUS
  <2>2. row[a].status # "gone" /\ row' = [row EXCEPT ![a] = r]
    BY <1>4 DEF Control, SetStatus, Exists, NoRow
  <2>3. r \in Row /\ r.status = s /\ r.target = row[a].target
    BY <2>1, WithStatusTyped DEF PlatformTypeOK, Statuses, ACTIVE_STATUSES
  <2> HIDE DEF r, s
  <2>4. RowsKept /\ TargetsStay
    BY <2>1, <2>2, <2>3, RowWritten, RowRetargeted
  <2>5. CallsKept
    BY <1>2, <1>4 DEF Control, CallsKept, ApiTypeOK, TargetInv
  <2> QED
    BY <1>1, <2>4, <2>5 DEF ApiKept
<1>5. ASSUME NEW a \in Agents, DeleteRead(a) PROVE ApiKept
  <2> DEFINE live == row[a].containerId # None
             c    == [NewCall(a, "delete") EXCEPT !.live = live]
  <2>1. c \in Call /\ c.at = "delete"
    <3>1. live \in BOOLEAN
      OBVIOUS
    <3> HIDE DEF live
    <3> QED
      BY <3>1, NewCallTyped DEF Call
  <2>2. calls' = calls \cup {c} /\ UNCHANGED row
    BY <1>5 DEF DeleteRead
  <2> HIDE DEF c
  <2>3. CallsKept
    BY <1>2, <2>1, <2>2, CallBegins
  <2> QED
    BY <1>1, <2>2, <2>3, RowsUnchanged, RowsAloneTargets DEF ApiKept
<1>6. ASSUME NEW a \in Agents, NEW v \in Versions, UpdateRequest(a, v) PROVE ApiKept
  <2> DEFINE c == [NewCall(a, "updateCheck") EXCEPT !.version = v]
  <2>1. c \in Call /\ c.version # None
    BY NewCallTyped, PlatformAssumption DEF Call, VersionOrNone
  <2>2. calls' = calls \cup {c} /\ UNCHANGED row
    BY <1>6 DEF UpdateRequest
  <2> HIDE DEF c
  <2>3. CallsKept
    BY <1>2, <2>1, <2>2 DEF CallsKept, ApiTypeOK, TargetInv
  <2> QED
    BY <1>1, <2>2, <2>3, RowsUnchanged, RowsAloneTargets DEF ApiKept
<1> QED
  BY <1>3, <1>4, <1>5, <1>6 DEF NewRequest

\* The later steps of a request, each against the row that is there by then.
LEMMA FinishCallKeeps ==
  ASSUME IInv, FinishCall
  PROVE  ApiKept
<1> USE DEF IInv, TypeOK
<1>1. PICK c \in calls :
         \/ (WriteSecret(c) \/ UpdateCheck(c) \/ UpdateWrite(c)) /\ UNCHANGED alloc
         \/ DeleteMarks(c)
         \/ DeletePurges(c)
  BY DEF FinishCall
<1>2. c \in Call /\ c.agent \in Agents
  BY DEF ApiTypeOK, Call
<1> DEFINE a  == c.agent
           r0 == row[a]
<1>3. r0 \in Row
  BY <1>2 DEF PlatformTypeOK
<1>4. UNCHANGED alloc => TableKept
  BY DEF TableKept, PlatformTypeOK
<1>5. ASSUME UNCHANGED row PROVE RowsKept /\ TargetsStay
  BY <1>5, RowsUnchanged, RowsAloneTargets
<1>6. Exists(a) => r0.status # "gone"
  BY DEF Exists, NoRow
<1>7. CASE WriteSecret(c)
  <2> DEFINE r == [r0 EXCEPT !.secretBlob = TRUE]
  <2>1. r \in Row /\ r.status = r0.status /\ r.target = r0.target
    BY <1>3 DEF Row
  <2>2. UNCHANGED row \/ (Exists(a) /\ row' = [row EXCEPT ![a] = r])
    BY <1>7 DEF WriteSecret
  <2>3. r0.status = "updating" => r0.target # None
    BY <1>2 DEF TargetInv
  <2>4. UNCHANGED alloc /\ CallsKept
    BY <1>1, <1>7, CallEnds DEF WriteSecret, DeleteMarks, DeletePurges
  <2> HIDE DEF r
  <2> QED
    BY <1>2, <1>4, <1>5, <1>6, <2>1, <2>2, <2>3, <2>4, RowWritten, RowRetargeted
    DEF ApiKept
<1>8. CASE UpdateCheck(c)
  <2> DEFINE d == [c EXCEPT !.at = "updateWrite"]
  <2>1. d \in Call /\ d.version = c.version /\ c.version # None
    BY <1>2, <1>8 DEF Call, UpdateCheck, TargetInv
  <2>2. calls' \subseteq calls \cup {d} /\ UNCHANGED <<row, requests>>
    BY <1>8 DEF UpdateCheck
  <2> HIDE DEF d
  <2>3. CallsKept
    BY <2>1, <2>2 DEF CallsKept, ApiTypeOK, TargetInv
  <2>4. UNCHANGED alloc
    BY <1>1, <1>8 DEF UpdateCheck, DeleteMarks, DeletePurges
  <2> QED
    BY <1>4, <1>5, <2>2, <2>3, <2>4 DEF ApiKept
<1>9. CASE UpdateWrite(c)
  <2> DEFINE r == [r0 EXCEPT !.status = "updating", !.target = c.version]
  <2>1. c.version \in Versions
    BY <1>2, <1>9 DEF Call, VersionOrNone, UpdateWrite, TargetInv
  <2>2. r \in Row /\ r.status = "updating" /\ r.target = c.version /\ c.version # None
    BY <1>3, <2>1, PlatformAssumption DEF Row, VersionOrNone, Statuses, ACTIVE_STATUSES
  <2>3. UNCHANGED row \/ (Exists(a) /\ row' = [row EXCEPT ![a] = r])
    BY <1>9 DEF UpdateWrite
  <2>4. UNCHANGED alloc /\ CallsKept
    BY <1>1, <1>9, CallEnds DEF UpdateWrite, DeleteMarks, DeletePurges
  <2> HIDE DEF r
  <2> QED
    BY <1>2, <1>4, <1>5, <1>6, <2>2, <2>3, <2>4, RowWritten, RowRetargeted
    DEF ApiKept
<1>10. CASE DeleteMarks(c)
  <2> DEFINE r == [r0 EXCEPT !.status = "deleting"]
  <2>1. r \in Row /\ r.status = "deleting" /\ r.target = r0.target
    BY <1>3, WithStatusTyped DEF Statuses
  <2>2. UNCHANGED row \/ (Exists(a) /\ row' = [row EXCEPT ![a] = r])
    BY <1>10 DEF DeleteMarks, SetStatus
  <2>3. UNCHANGED alloc /\ CallsKept
    BY <1>10, CallEnds DEF DeleteMarks
  <2> HIDE DEF r
  <2> QED
    BY <1>2, <1>4, <1>5, <1>6, <2>1, <2>2, <2>3, RowWritten, RowRetargeted
    DEF ApiKept
<1>11. CASE DeletePurges(c)
  <2>1. CallsKept
    BY <1>11, CallEnds DEF DeletePurges
  <2>2. CASE Exists(a)
    <3>1. row' = [row EXCEPT ![a] = GoneRow] /\ ReleasePort(a)
      BY <1>11, <2>2 DEF DeletePurges, GoneRow
    <3>2. TableKept
      BY <1>2, <3>1, PortsReleased
    <3> QED
      BY <1>2, <1>6, <2>1, <2>2, <3>1, <3>2, GoneRowTyped, RowWritten, RowRetargeted
      DEF ApiKept
  <2>3. CASE ~Exists(a)
    BY <1>4, <1>5, <1>11, <2>1, <2>3 DEF DeletePurges, tables, ApiKept
  <2> QED
    BY <2>2, <2>3
<1> QED
  BY <1>1, <1>7, <1>8, <1>9, <1>10, <1>11

\* The API keeps the invariant.
LEMMA ApiKeeps ==
  ASSUME IInv, ApiStep, UNCHANGED <<workerVars, healthVars>>
  PROVE  IInv' /\ RowsKept /\ TableKept
<1>1. ApiKept
  BY NewRequestKeeps, FinishCallKeeps DEF ApiStep
<1>2. UNCHANGED <<route, docker, workerVars, healthVars>>
  BY DEF ApiStep, FinishCall
<1>3. PlatformTypeOK'
  BY <1>1, <1>2 DEF IInv, TypeOK, PlatformTypeOK, ApiKept, RowsKept, TableKept, docker
<1>4. ApiTypeOK' /\ HealthTypeOK'
  BY <1>1, <1>2 DEF IInv, TypeOK, ApiKept, CallsKept, ApiTypeOK, HealthTypeOK, healthVars
<1> QED
  BY <1>1, <1>2, <1>3, <1>4, BesideKeeps DEF ApiKept, CallsKept

-----------------------------------------------------------------------------
(* The system *)

\* The invariant holds initially.
LEMMA InitHolds == Init => IInv
<1> SUFFICES ASSUME Init PROVE IInv
  OBVIOUS
<1> USE DEF Init
<1>1. PlatformTypeOK
  <2>1. UnbornRow \in Row
    BY DEF UnbornRow, Row, Statuses, NoRow, IdOrNone, PortOrNone, VersionOrNone
  <2> QED
    BY <2>1 DEF PlatformInit, PlatformTypeOK, PortOrNone
<1>2. WorkerTypeOK /\ JobInv
  BY IdleTyped DEF WorkerInit, WorkerTypeOK, JobInv, AtWork, Imaged, Labels
<1>3. ApiTypeOK /\ HealthTypeOK
  BY HealthLoopAssumption DEF ApiInit, ApiTypeOK, HealthInit, HealthTypeOK, NoFailures
<1>4. TargetInv
  BY DEF PlatformInit, UnbornRow, WorkerInit, ApiInit, TargetInv
<1> QED
  BY <1>1, <1>2, <1>3, <1>4 DEF IInv, TypeOK

\* Every step keeps the invariant, writes rows as permitted and uses the port
\* table as its contract says.
LEMMA StepHolds ==
  ASSUME IInv, [Next]_vars
  PROVE  IInv' /\ RowsKept /\ TableKept
<1>0. PlatformTypeOK /\ (UNCHANGED alloc => TableKept)
  BY DEF IInv, TypeOK, PlatformTypeOK, TableKept
<1>1. CASE WorkerStep /\ UNCHANGED <<apiVars, healthVars>>
  BY <1>1, WorkerKeeps, WorkerRows, WorkerTable
<1>2. CASE Interrupted /\ UNCHANGED apiVars
  BY <1>0, <1>2, InterruptedKeeps, RowsUnchanged
<1>3. CASE WatcherStep /\ UNCHANGED <<workerVars, apiVars, healthVars>>
  BY <1>3, WatcherKeeps
<1>4. CASE DaemonStep /\ UNCHANGED <<workerVars, apiVars, healthVars>>
  BY <1>0, <1>4, DaemonKeeps, RowsUnchanged
<1>5. CASE ApiStep /\ UNCHANGED <<workerVars, healthVars>>
  BY <1>5, ApiKeeps
<1>6. CASE HealthStep /\ UNCHANGED <<workerVars, apiVars>>
  BY <1>0, <1>6, HealthKeeps
<1>7. CASE UNCHANGED vars
  <2>1. UNCHANGED <<platform, workerVars, apiVars, healthVars>>
    BY <1>7 DEF vars
  <2>2. IInv'
    BY <2>1 DEF platform, workerVars, apiVars, healthVars, IInv, TypeOK,
       PlatformTypeOK, WorkerTypeOK, ApiTypeOK, HealthTypeOK, JobInv, TargetInv, Targeted
  <2> QED
    BY <1>0, <2>1, <2>2, RowsUnchanged DEF platform
<1> QED
  BY <1>1, <1>2, <1>3, <1>4, <1>5, <1>6, <1>7 DEF Next

\* The inductive invariant holds in every reachable state.
THEOREM Invariance == Spec => []IInv
<1>1. IInv /\ [Next]_vars => IInv'
  BY StepHolds
<1> QED
  BY InitHolds, <1>1, PTL DEF Spec

\* Every variable of the composed system keeps its type, whatever fails.
THEOREM TypeCorrect == Spec => []TypeOK
<1>1. IInv => TypeOK
  BY DEF IInv
<1> QED
  BY Invariance, <1>1, PTL

\* A deleted agent is gone for good: nobody who read its row before it was
\* deleted writes it back.
THEOREM DeletionIsFinal == Spec => GoneStaysGone
<1>1. IInv /\ [Next]_vars
        => [\A a \in Agents : row[a].status = "gone" => row'[a] = row[a]]_row
  BY StepHolds DEF RowsKept, RowMove
<1> QED
  BY Invariance, <1>1, PTL DEF Spec, GoneStaysGone

\* The control plane implements the contract of the table PortAllocation: no
\* fault, crash or interleaving passes a port from one agent to another.
THEOREM ImplementsPool == Spec => PoolSpec
<1>1. Init => Pool!Init
  BY DEF Init, PlatformInit, Pool!Init
<1>2. IInv /\ [Next]_vars => [Pool!Next]_alloc
  BY StepHolds DEF TableKept
<1> QED
  BY Invariance, <1>1, <1>2, PTL DEF Spec, PoolSpec, Pool!Spec
=============================================================================
