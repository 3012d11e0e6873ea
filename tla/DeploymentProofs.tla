-------------------------- MODULE DeploymentProofs --------------------------
(***************************************************************************)
(* What the deployments of HermesDeployer leave behind: the invariants of  *)
(* drive, its cleanup and drainStops that relate the Agent table, the port *)
(* table, Docker and Caddy, for every number of agents, any port range and *)
(* any number of requests.                                                 *)
(***************************************************************************)
EXTENDS HermesDeployerProofs

\* The conditions of the theorems of this module.  Owners deploy, restart and
\* stop; the data directory, the health probe, Caddy's additions and the image
\* pull may fail; nothing dies of its own accord; and the crash watcher reads
\* an event before a health check that takes seconds returns.  The README says
\* which property each condition that is left out breaks.
DeployAndStop ==
    /\ Verbs \subseteq {"start", "stop"}
    /\ Faults \subseteq {"prepare", "create", "health", "route", "pull"}
    /\ MaxDeaths = 0 /\ MaxCrashes = 0 /\ MaxReboots = 0
    /\ WatcherKeepsUp

-----------------------------------------------------------------------------
(* The inductive invariant.  It says of every agent what it uses of the     *)
(* host: an agent that the worker does not handle is either empty or served,*)
(* and for the one it handles each label of the worker has its own stage.   *)

Roaming  == {"queue", "updates", "stops", "stopBox", "deletes"}
Cleaning == {"cleanBox", "cleanRoute", "cleanPorts"}
Sweeping == {"stopRoute", "stopPorts", "stopClear"}
Driving  == {"claim", "read", "staleBox", "staleRoute", "stalePorts",
             "staleClear", "allocating", "allocApi", "allocDash", "starting",
             "secret", "create", "start", "record", "healthStatus", "health",
             "registering", "addRoute", "running", "fail"} \cup Cleaning

Empty(a)   == Clean(a) /\ Blank(a)
Settled(a) == Empty(a) \/ Served(a)

\* The variables api, dash and ctr of drive against the host.
Bare       == job.api = None /\ job.dash = None
Equipped   == job.api # None /\ job.dash # None
Held(a)    == OwnedBy(a) = {job.api, job.dash} \ {None}
Ours(a)    == box[a].api = job.api /\ box[a].dash = job.dash
Started(a) == IsUp(a) /\ box[a].id = job.ctr /\ Ours(a)
Leads(a)   == route[a] \in OwnedBy(a) \cup {None}
Vacant(a)  == ~Has(a) /\ route[a] = None /\ Blank(a)

Recorded(a) == /\ row[a].containerId = job.ctr
               /\ row[a].apiPort = job.api
               /\ row[a].dashboardPort = job.dash

TeardownStage(a) ==
    /\ pc \in {"claim", "read"} => Settled(a) /\ Bare
    /\ pc = "staleBox" => Served(a) /\ Bare /\ job.old = row[a].containerId
    /\ pc = "staleRoute" => ~Has(a) /\ Leads(a) /\ Bare
    /\ pc = "stalePorts" => ~Has(a) /\ route[a] = None /\ Bare
    /\ pc = "staleClear" => Clean(a) /\ Bare

BuildStage(a) ==
    /\ pc \in {"allocating", "allocApi"} => Empty(a) /\ Bare
    /\ pc = "allocDash" =>
          Vacant(a) /\ Held(a) /\ job.api # None /\ job.dash = None
    /\ pc \in {"starting", "secret", "create"} => Vacant(a) /\ Held(a) /\ Equipped
    /\ pc = "start" =>
          /\ Has(a) /\ box[a].state = "created" /\ Ours(a)
          /\ Held(a) /\ Equipped /\ route[a] = None /\ Blank(a)
    /\ pc = "record" =>
          Started(a) /\ Held(a) /\ Equipped /\ route[a] = None /\ Blank(a)
    /\ pc \in {"healthStatus", "health", "registering", "addRoute"} =>
          Started(a) /\ Held(a) /\ Equipped /\ route[a] = None /\ Recorded(a)
    /\ pc = "running" =>
          Started(a) /\ Held(a) /\ Equipped /\ route[a] = job.dash /\ Recorded(a)

CleanupStage(a) ==
    /\ pc = "fail" => (Has(a) => Started(a)) /\ Held(a) /\ route[a] = None
    /\ pc = "cleanBox" =>
          (Has(a) => Started(a)) /\ Held(a) /\ route[a] = None /\ Blank(a)
    /\ pc \in {"cleanRoute", "cleanPorts"} => Vacant(a) /\ Held(a)

SweepStage(a) ==
    /\ pc = "stopRoute" => ~Has(a) /\ Leads(a)
    /\ pc = "stopPorts" => ~Has(a) /\ route[a] = None
    /\ pc = "stopClear" => Clean(a)

\* What a request may have made of the status since the worker wrote it.
StatusStage(a) ==
    row[a].status \in {"queued", "stopped"} \cup
        (IF pc \in Cleaning THEN {"failed"}
         ELSE IF pc \in Sweeping \cup {"claim"} THEN {} ELSE Pipeline)

Stage(a) == /\ TeardownStage(a) /\ BuildStage(a) /\ CleanupStage(a)
            /\ SweepStage(a) /\ StatusStage(a)

\* An agent that the worker does not handle.
Resting(a) ==
    /\ Settled(a)
    /\ row[a].status \in {"unborn", "queued", "running", "unhealthy", "failed", "stopped"}
    /\ row[a].status \in {"running", "unhealthy"} => Served(a)
    /\ row[a].status \in {"unborn", "failed"} => Empty(a)

WorkerInv ==
    /\ pc \in Roaming \cup Driving \cup Sweeping
    /\ pc \in Roaming => job = Idle
    /\ pc \in Driving => job.kind = "drive"

AgentsInv == \A a \in Agents : IF Handling(a) THEN Stage(a) ELSE Resting(a)

\* The rows that drainStops has still to reach.
ToSweep(t) == /\ t.agent # job.agent
              /\ Served(t.agent)
              /\ t.ref = row[t.agent].containerId
              /\ row[t.agent].status \in {"queued", "stopped"}

TodoInv ==
    /\ pc \notin Sweeping \cup {"stopBox"} => todo = {}
    /\ \A t \in todo : ToSweep(t)

\* Every die event is one of a container that a teardown stopped, and it is
\* read before the agent's next container is up for good.
Expected(d) ==
    /\ d.at = "event"
    /\ row[d.agent].status \notin {"running", "unhealthy"}
    /\ pc \in {"registering", "addRoute", "running"} => d.agent # job.agent

EventsInv == \A d \in dies : Expected(d)

CallsInv == \A c \in calls : c.at = "secret"

DInv == IInv /\ WorkerInv /\ AgentsInv /\ TodoInv /\ EventsInv /\ CallsInv

-----------------------------------------------------------------------------
(* Helpers *)

\* A step does not touch an agent: its row, container, route and ports.
Same(b) == /\ row'[b] = row[b]
           /\ box'[b] = box[b]
           /\ route'[b] = route[b]
           /\ OwnedBy(b)' = OwnedBy(b)

OthersSame(a) == \A b \in Agents \ {a} : Same(b)

\* What the types say of one agent and of the job.
LEMMA Typed ==
  ASSUME DInv, NEW a \in Agents
  PROVE  /\ row[a] \in Row /\ box[a] \in Container \cup {None}
         /\ route[a] \in Ports \cup {None} /\ job \in Job /\ a # None
         /\ None \notin Ports /\ None \notin Nat /\ OwnedBy(a) \subseteq Ports
  BY PlatformAssumption
  DEF DInv, IInv, TypeOK, PlatformTypeOK, WorkerTypeOK, PortOrNone, OwnedBy

\* The worker handles one agent, at its stage, or roams and handles none.
LEMMA AtWorkOn ==
  ASSUME DInv, pc \in Driving \cup Sweeping
  PROVE  job.agent \in Agents /\ Stage(job.agent)
<1>1. job.agent \in Agents
  BY DEF DInv, IInv, JobInv, AtWork, Labels, Driving, Sweeping, Cleaning
<1> QED
  BY <1>1 DEF DInv, AgentsInv, Handling

\* Between a tick and the next every agent is at rest: no stage has hold of one.
LEMMA AllRest ==
  ASSUME DInv, pc \in Roaming
  PROVE  job = Idle /\ \A a \in Agents : ~Handling(a) /\ Resting(a)
<1>1. job = Idle /\ job.agent = None
  BY DEF DInv, WorkerInv, Idle
<1>2. \A a \in Agents : a # None
  BY PlatformAssumption
<1> QED
  BY <1>1, <1>2 DEF DInv, AgentsInv, Handling

\* What is not touched stays as it was.
LEMMA SameRests ==
  ASSUME NEW b \in Agents, Same(b)
  PROVE  /\ Resting(b) => Resting(b)'
         /\ Served(b) => Served(b)'
         /\ Settled(b) => Settled(b)'
  BY DEF Same, Resting, Settled, Served, Empty, Clean, Blank, Has, IsUp, BoxPorts

\* A step within a job.
LEMMA GoesOn ==
  ASSUME DInv, NEW a \in Agents, a = job.agent, job'.agent = a,
         Stage(a)', OthersSame(a)
  PROVE  AgentsInv'
<1> SUFFICES ASSUME NEW b \in Agents
             PROVE  IF Handling(b)' THEN Stage(b)' ELSE Resting(b)'
  BY DEF AgentsInv
<1>1. CASE b = a
  BY <1>1 DEF Handling
<1>2. CASE b # a
  BY <1>2, SameRests DEF Handling, DInv, AgentsInv, OthersSame
<1> QED
  BY <1>1, <1>2

\* The end of a job.
LEMMA LetsGo ==
  ASSUME DInv, NEW a \in Agents, a = job.agent, job' = Idle,
         Resting(a)', OthersSame(a)
  PROVE  AgentsInv'
<1> SUFFICES ASSUME NEW b \in Agents
             PROVE  IF Handling(b)' THEN Stage(b)' ELSE Resting(b)'
  BY DEF AgentsInv
<1>0. ~Handling(b)'
  BY PlatformAssumption DEF Handling, Idle
<1>1. CASE b = a
  BY <1>0, <1>1
<1>2. CASE b # a
  BY <1>0, <1>2, SameRests DEF Handling, DInv, AgentsInv, OthersSame
<1> QED
  BY <1>1, <1>2

\* The start of a job.
LEMMA TakesUp ==
  ASSUME DInv, pc \in Roaming, NEW a \in Agents, job'.agent = a,
         Stage(a)', OthersSame(a)
  PROVE  AgentsInv'
<1> SUFFICES ASSUME NEW b \in Agents
             PROVE  IF Handling(b)' THEN Stage(b)' ELSE Resting(b)'
  BY DEF AgentsInv
<1>1. CASE b = a
  BY <1>1 DEF Handling
<1>2. CASE b # a
  BY <1>2, AllRest, SameRests DEF Handling, OthersSame
<1> QED
  BY <1>1, <1>2

\* A search that finds nothing to do.
LEMMA StaysIdle ==
  ASSUME DInv, pc \in Roaming, job' = Idle, \A b \in Agents : Same(b)
  PROVE  AgentsInv'
<1> SUFFICES ASSUME NEW b \in Agents
             PROVE  IF Handling(b)' THEN Stage(b)' ELSE Resting(b)'
  BY DEF AgentsInv
<1>0. ~Handling(b)'
  BY PlatformAssumption DEF Handling, Idle
<1> QED
  BY <1>0, AllRest, SameRests

-----------------------------------------------------------------------------
(* The helpers of Platform, agent by agent *)

\* The port table does not change.
LEMMA PortsKept ==
  ASSUME UNCHANGED alloc
  PROVE  \A b \in Agents : OwnedBy(b)' = OwnedBy(b)
  BY DEF OwnedBy

\* releasePort takes every port of its agent and no other's.
LEMMA PortsGone ==
  ASSUME DInv, NEW a \in Agents, ReleasePort(a)
  PROVE  /\ OwnedBy(a)' = {}
         /\ \A b \in Agents \ {a} : OwnedBy(b)' = OwnedBy(b)
  BY PlatformAssumption DEF ReleasePort, OwnedBy

\* allocatePort gives its agent one port more and takes none away.
LEMMA PortGot ==
  ASSUME DInv, NEW a \in Agents, NEW p \in Ports, AllocatePort(a, p)
  PROVE  /\ OwnedBy(a)' = OwnedBy(a) \cup {p}
         /\ \A b \in Agents \ {a} : OwnedBy(b)' = OwnedBy(b)
  BY PlatformAssumption
  DEF AllocatePort, LowestFree, Free, OwnedBy, DInv, IInv, TypeOK, PlatformTypeOK

\* The writes of a status and of NULL columns, see HermesDeployerProofs.
LEMMA StatusSet ==
  ASSUME DInv, NEW a \in Agents, NEW s, SetStatus(a, s)
  PROVE  /\ row'[a].status = s /\ Columns(a)
         /\ \A b \in Agents \ {a} : row'[b] = row[b]
  BY StatusOnly DEF DInv, IInv, TypeOK

\* The columns become NULL and the status stays.
LEMMA ColumnsCleared ==
  ASSUME DInv, NEW a \in Agents, row' = [row EXCEPT ![a] = Cleared(@)]
  PROVE  /\ row'[a].status = row[a].status /\ Blank(a)'
         /\ \A b \in Agents \ {a} : row'[b] = row[b]
  BY ColumnsOnly DEF DInv, IInv, TypeOK

\* removeRoute, when Caddy does not fail.
LEMMA RouteGone ==
  ASSUME DeployAndStop, DInv, NEW a \in Agents, RemoveRoute(a)
  PROVE  route'[a] = None /\ \A b \in Agents \ {a} : route'[b] = route[b]
  BY DEF DeployAndStop, RemoveRoute, DInv, IInv, TypeOK, PlatformTypeOK

\* stopAndRemove of an agent's own container, when the daemon does not fail.
LEMMA BoxGone ==
  ASSUME DeployAndStop, DInv, NEW a \in Agents, NEW i,
         Has(a) => IsBox(a, i), StopAndRemove(a, i, dies)
  PROVE  /\ ~Has(a)' /\ \A b \in Agents \ {a} : box'[b] = box[b]
         /\ dies' \subseteq dies \cup DieEvent(a)
  BY DEF DeployAndStop, StopAndRemove, IsBox, Has, DInv, IInv, TypeOK, PlatformTypeOK

\* As long as a container is up, the ports it binds are its agent's own.
LEMMA UpOwns ==
  ASSUME DInv, NEW a \in Agents, IsUp(a)
  PROVE  BoxPorts(a) \subseteq OwnedBy(a)
<1>1. box[a].api \in Ports /\ box[a].dash \in Ports /\ box[a].state = "up" /\ Has(a)
  BY Typed DEF IsUp, Has, Container
<1>2. CASE ~Handling(a)
  BY <1>1, <1>2 DEF DInv, AgentsInv, Resting, Settled, Empty, Clean, Served
<1>3. CASE Handling(a)
  <2>1. Stage(a) /\ job.agent = a /\ pc \in Driving \cup Sweeping
    <3>1. pc \notin Roaming
      BY <1>3, AllRest
    <3> QED
      BY <1>3, <3>1 DEF DInv, AgentsInv, WorkerInv, Handling
  <2>2. CASE Held(a) /\ Ours(a)
    BY <1>1, <2>2, Typed DEF Held, Ours, BoxPorts
  <2>3. CASE Served(a)
    BY <2>3 DEF Served
  <2>4. Served(a) \/ (Held(a) /\ Ours(a))
    BY <1>1, <2>1 DEF Stage, TeardownStage, BuildStage, CleanupStage, SweepStage,
       Settled, Empty, Clean, Vacant, Started, Driving, Sweeping, Cleaning
  <2> QED
    BY <2>2, <2>3, <2>4
<1> QED
  BY <1>2, <1>3

-----------------------------------------------------------------------------
(* drive: the claim and the teardown of the previous run *)

\* drainQueue's look and claim, and drive's reading of the row.
LEMMA ClaimKeeps ==
  ASSUME DeployAndStop, DInv, DrainQueueFind \/ DrainQueueClaim \/ DriveRead
  PROVE  AgentsInv'
<1> USE DEF Stage, TeardownStage, BuildStage, CleanupStage, SweepStage,
            Cleaning, Sweeping, Goto, Leave
<1>1. CASE DrainQueueFind
  <2>1. pc \in Roaming /\ UNCHANGED <<row, box, route, alloc>>
    BY <1>1 DEF DrainQueueFind, Roaming, platform
  <2>2. \A b \in Agents : Same(b)
    BY <2>1, PortsKept DEF Same
  <2>3. CASE Leave("updates")
    BY <2>1, <2>2, <2>3, StaysIdle
  <2>4. CASE ~Leave("updates")
    <3>1. PICK a \in WithStatus("queued") :
             pc' = "claim" /\ job' = [Idle EXCEPT !.kind = "drive", !.agent = a]
      BY <1>1, <2>4 DEF DrainQueueFind, Oldest
    <3>2. a \in Agents /\ row[a].status = "queued"
      BY DEF WithStatus
    <3>3. job'.agent = a /\ Bare'
      BY <3>1 DEF Idle, Bare
    <3>4. Settled(a)
      BY <2>1, <3>2, AllRest DEF Resting
    <3>5. Settled(a)' /\ StatusStage(a)'
      BY <2>1, <2>2, <3>1, <3>2, <3>4, SameRests DEF StatusStage
    <3>6. Stage(a)'
      BY <3>1, <3>3, <3>5
    <3> QED
      BY <2>1, <2>2, <3>2, <3>3, <3>6, TakesUp DEF OthersSame
  <2> QED
    BY <2>3, <2>4
<1>2. CASE DrainQueueClaim
  <2>1. pc = "claim" /\ UNCHANGED <<box, route, alloc>>
    BY <1>2 DEF DrainQueueClaim, docker
  <2> PICK a \in Agents : a = job.agent
    BY <2>1, AtWorkOn DEF Driving
  <2>2. Settled(a) /\ Bare /\ row[a].status \in {"queued", "stopped"}
    BY <2>1, AtWorkOn DEF Driving, StatusStage
  <2>3. CASE row[a].status = "queued"
    <3>1. SetStatus(a, "allocating_ports") /\ pc' = "read" /\ job' = job
      BY <1>2, <2>3 DEF DrainQueueClaim
    <3>2. OthersSame(a)
      BY <2>1, <3>1, StatusSet, PortsKept DEF OthersSame, Same
    <3>3. Settled(a)'
      BY <2>1, <2>2, <3>1, StatusSet, PortsKept
      DEF Columns, Settled, Empty, Served, Clean, Blank, Has, IsUp, BoxPorts
    <3>4. Stage(a)'
      BY <2>2, <3>1, <3>3, StatusSet DEF StatusStage, Pipeline, Bare
    <3> QED
      BY <3>1, <3>2, <3>4, GoesOn
  <2>4. CASE row[a].status # "queued"
    <3>1. UNCHANGED row /\ job' = Idle
      BY <1>2, <2>4 DEF DrainQueueClaim
    <3>2. \A b \in Agents : Same(b)
      BY <2>1, <3>1, PortsKept DEF Same
    <3>3. Resting(a)
      BY <2>2, <2>4 DEF Resting
    <3> QED
      BY <3>1, <3>2, <3>3, SameRests, LetsGo DEF OthersSame
  <2> QED
    BY <2>3, <2>4
<1>3. CASE DriveRead
  <2>1. pc = "read" /\ UNCHANGED <<row, box, route, alloc>>
    BY <1>3 DEF DriveRead, platform
  <2> PICK a \in Agents : a = job.agent
    BY <2>1, AtWorkOn DEF Driving
  <2>2. Settled(a) /\ Bare /\ StatusStage(a)
    BY <2>1, AtWorkOn DEF Driving
  <2>3. \A b \in Agents : Same(b)
    BY <2>1, PortsKept DEF Same
  <2>4. CASE row[a].status \in ACTIVE_STATUSES
    <3>1. /\ job' = [job EXCEPT !.old = row[a].containerId, !.image = BaseVersion,
                        !.first = (row[a].hermesVersion = None)]
          /\ pc' = IF HasLeftovers(row[a]) THEN "staleBox" ELSE "allocating"
      BY <1>3, <2>4 DEF DriveRead
    <3>2. job'.agent = a /\ Bare' /\ job'.old = row[a].containerId
      BY <2>2, <3>1, Typed DEF Bare, Job
    <3>3. StatusStage(a)'
      BY <2>1, <2>2, <3>1 DEF StatusStage
    <3>4. CASE HasLeftovers(row[a])
      <4>1. Served(a)
        BY <2>2, <3>4 DEF HasLeftovers, Settled, Empty, Blank
      <4>2. Served(a)'
        BY <2>3, <4>1, SameRests
      <4>3. Stage(a)'
        BY <2>1, <3>1, <3>2, <3>3, <3>4, <4>2
      <4> QED
        BY <2>3, <3>2, <4>3, GoesOn DEF OthersSame
    <3>5. CASE ~HasLeftovers(row[a])
      <4>1. Empty(a)
        BY <2>2, <3>5, Typed DEF HasLeftovers, Settled, Served, IsUp, Has, Container
      <4>2. Empty(a)'
        BY <2>1, <2>3, <4>1 DEF Same, Empty, Clean, Blank, Has
      <4>3. Stage(a)'
        BY <3>1, <3>2, <3>3, <3>5, <4>2
      <4> QED
        BY <2>3, <3>2, <4>3, GoesOn DEF OthersSame
    <3> QED
      BY <3>4, <3>5
  <2>5. CASE row[a].status \notin ACTIVE_STATUSES
    <3>1. job' = Idle
      BY <1>3, <2>5 DEF DriveRead
    <3>2. Resting(a)
      BY <2>1, <2>2, <2>5 DEF StatusStage, Resting, ACTIVE_STATUSES, Pipeline
    <3> QED
      BY <2>3, <3>1, <3>2, SameRests, LetsGo DEF OthersSame
  <2> QED
    BY <2>4, <2>5
<1> QED
  BY <1>1, <1>2, <1>3

\* drive removes what an earlier run left: container, route, ports, columns.
LEMMA TeardownKeeps ==
  ASSUME DeployAndStop, DInv, StaleBox \/ StaleRoute \/ StalePorts \/ StaleClear
  PROVE  AgentsInv'
<1> USE DEF Stage, TeardownStage, BuildStage, CleanupStage, SweepStage,
            Cleaning, Sweeping, Goto, Leave
<1>0. pc \in {"staleBox", "staleRoute", "stalePorts", "staleClear"}
  BY DEF StaleBox, StaleRoute, StalePorts, StaleClear
<1> PICK a \in Agents : a = job.agent
  BY <1>0, AtWorkOn DEF Driving
<1>a. Stage(a)
  BY <1>0, AtWorkOn DEF Driving
<1>1. CASE StaleBox
  <2>1. /\ StopAndRemove(a, job.old, dies) /\ pc' = "staleRoute" /\ job' = job
        /\ UNCHANGED <<row, alloc, route>>
    BY <1>1 DEF StaleBox, tables
  <2>2. Served(a) /\ Bare /\ job.old = row[a].containerId /\ StatusStage(a)
    BY <1>1, <1>a DEF StaleBox
  <2>3. ~Has(a)' /\ OthersSame(a)
    BY <2>1, <2>2, BoxGone, PortsKept DEF Served, IsBox, OthersSame, Same
  <2>4. Leads(a)' /\ Bare' /\ StatusStage(a)'
    BY <1>1, <2>1, <2>2, PortsKept
    DEF Leads, Bare, Served, BoxPorts, StatusStage, StaleBox
  <2>5. Stage(a)'
    BY <2>1, <2>3, <2>4
  <2> QED
    BY <2>1, <2>3, <2>5, GoesOn
<1>2. CASE StaleRoute
  <2>1. /\ RemoveRoute(a) /\ pc' = "stalePorts" /\ job' = job
        /\ UNCHANGED <<row, alloc, box>>
    BY <1>2 DEF StaleRoute, tables, docker
  <2>2. ~Has(a) /\ Bare /\ StatusStage(a)
    BY <1>2, <1>a DEF StaleRoute
  <2>3. route'[a] = None /\ OthersSame(a)
    BY <2>1, RouteGone, PortsKept DEF OthersSame, Same
  <2>4. ~Has(a)' /\ Bare' /\ StatusStage(a)'
    BY <1>2, <2>1, <2>2 DEF Has, Bare, StatusStage, StaleRoute
  <2>5. Stage(a)'
    BY <2>1, <2>3, <2>4
  <2> QED
    BY <2>1, <2>3, <2>5, GoesOn
<1>3. CASE StalePorts
  <2>1. /\ ReleasePort(a) /\ pc' = "staleClear" /\ job' = job
        /\ UNCHANGED <<row, route, box>>
    BY <1>3 DEF StalePorts, docker
  <2>2. ~Has(a) /\ route[a] = None /\ Bare /\ StatusStage(a)
    BY <1>3, <1>a DEF StalePorts
  <2>3. OwnedBy(a)' = {} /\ OthersSame(a)
    BY <2>1, PortsGone DEF OthersSame, Same
  <2>4. Clean(a)' /\ Bare' /\ StatusStage(a)'
    BY <1>3, <2>1, <2>2, <2>3 DEF Clean, Has, Bare, StatusStage, StalePorts
  <2>5. Stage(a)'
    BY <2>1, <2>4
  <2> QED
    BY <2>1, <2>3, <2>5, GoesOn
<1>4. CASE StaleClear
  <2>1. Clean(a) /\ Bare /\ StatusStage(a) /\ pc = "staleClear"
    BY <1>4, <1>a DEF StaleClear
  <2>2. Exists(a)
    BY <2>1 DEF StatusStage, Exists, NoRow, Pipeline
  <2>3. /\ row' = [row EXCEPT ![a] = Cleared(@)] /\ pc' = "allocating" /\ job' = job
        /\ UNCHANGED <<alloc, route, box>>
    BY <1>4, <2>2 DEF StaleClear, docker
  <2>4. row'[a].status = row[a].status /\ Blank(a)' /\ OthersSame(a)
    BY <2>3, ColumnsCleared, PortsKept DEF OthersSame, Same
  <2>5. Clean(a)' /\ Bare' /\ StatusStage(a)'
    BY <2>1, <2>3, <2>4, PortsKept DEF Clean, Has, Bare, StatusStage
  <2>6. Stage(a)'
    BY <2>3, <2>4, <2>5 DEF Empty
  <2> QED
    BY <2>3, <2>4, <2>6, GoesOn
<1> QED
  BY <1>1, <1>2, <1>3, <1>4

-----------------------------------------------------------------------------
(* drive: ports, container, route *)

\* setStatus within the pipeline: the row exists, since nobody deletes it.
LEMMA AnnounceKeeps ==
  ASSUME DInv, NEW a \in Agents, a = job.agent, StatusStage(a),
         pc \notin Cleaning \cup Sweeping \cup {"claim"},
         NEW s \in Pipeline, NEW next, Announce(s, next)
  PROVE  /\ row'[a].status = s /\ Columns(a) /\ OthersSame(a)
         /\ pc' = next /\ job' = job /\ UNCHANGED <<box, route, alloc, dies, todo>>
         /\ OwnedBy(a)' = OwnedBy(a)
<1>1. Exists(a)
  BY DEF StatusStage, Exists, NoRow, Pipeline
<1>2. SetStatus(a, s) /\ pc' = next /\ job' = job
      /\ UNCHANGED <<box, route, alloc, dies, todo>>
  BY <1>1 DEF Announce, Goto, docker
<1> QED
  BY <1>2, StatusSet, PortsKept DEF OthersSame, Same

\* The status writes of drive, one per stage.
LEMMA AnnouncesKeep ==
  ASSUME DeployAndStop, DInv,
         SetAllocatingPorts \/ SetStarting \/ SetHealthChecking \/ SetRegisteringRoute
  PROVE  AgentsInv'
<1> USE DEF Stage, TeardownStage, BuildStage, CleanupStage, SweepStage,
            Cleaning, Sweeping, SetAllocatingPorts, SetStarting,
            SetHealthChecking, SetRegisteringRoute
<1>0. pc \in {"allocating", "starting", "healthStatus", "registering"}
  OBVIOUS
<1> PICK a \in Agents : a = job.agent
  BY <1>0, AtWorkOn DEF Driving
<1>a. Stage(a)
  BY <1>0, AtWorkOn DEF Driving
<1>1. PICK s \in Pipeline, next \in {"allocApi", "secret", "health", "addRoute"} :
         /\ Announce(s, next)
         /\ pc = "allocating" <=> next = "allocApi"
         /\ pc = "starting" <=> next = "secret"
         /\ pc = "healthStatus" <=> next = "health"
         /\ pc = "registering" <=> next = "addRoute"
  BY <1>0 DEF Pipeline
<1>2. StatusStage(a)
  BY <1>a
<1>3. /\ row'[a].status = s /\ Columns(a) /\ OthersSame(a)
      /\ pc' = next /\ job' = job /\ UNCHANGED <<box, route, alloc>>
      /\ OwnedBy(a)' = OwnedBy(a)
  BY <1>0, <1>1, <1>2, AnnounceKeeps
<1>4. StatusStage(a)'
  BY <1>3 DEF StatusStage
<1>5. CASE pc = "allocating"
  <2>1. Empty(a) /\ Bare
    BY <1>5, <1>a
  <2>2. Empty(a)' /\ Bare'
    BY <1>3, <2>1 DEF Empty, Clean, Blank, Columns, Has, Bare
  <2> QED
    BY <1>1, <1>3, <1>4, <1>5, <2>2, GoesOn
<1>6. CASE pc = "starting"
  <2>1. Vacant(a) /\ Held(a) /\ Equipped
    BY <1>6, <1>a
  <2>2. Vacant(a)' /\ Held(a)' /\ Equipped'
    BY <1>3, <2>1 DEF Vacant, Blank, Columns, Has, Held, Equipped
  <2> QED
    BY <1>1, <1>3, <1>4, <1>6, <2>2, GoesOn
<1>7. CASE pc \in {"healthStatus", "registering"}
  <2>1. Started(a) /\ Held(a) /\ Equipped /\ route[a] = None /\ Recorded(a)
    BY <1>7, <1>a
  <2>2. Started(a)' /\ Held(a)' /\ Equipped' /\ route'[a] = None /\ Recorded(a)'
    BY <1>3, <2>1 DEF Started, Ours, IsUp, Has, Columns, Recorded, Held, Equipped
  <2> QED
    BY <1>1, <1>3, <1>4, <1>7, <2>2, GoesOn
<1> QED
  BY <1>0, <1>5, <1>6, <1>7

\* The two ports, and the throw when none is free.
LEMMA AllocationKeeps ==
  ASSUME DeployAndStop, DInv, AllocateApiPort \/ AllocateDashboardPort
  PROVE  AgentsInv'
<1> USE DEF Stage, TeardownStage, BuildStage, CleanupStage, SweepStage,
            Cleaning, Sweeping, Goto
<1>0. pc \in {"allocApi", "allocDash"} /\ UNCHANGED <<row, route, box>>
  BY DEF AllocateApiPort, AllocateDashboardPort, docker
<1> PICK a \in Agents : a = job.agent
  BY <1>0, AtWorkOn DEF Driving
<1>a. /\ Vacant(a) /\ Held(a) /\ StatusStage(a) /\ job.dash = None
      /\ pc = "allocApi" <=> job.api = None
  BY <1>0, AtWorkOn, Typed DEF Driving, Empty, Clean, Vacant, Held, Bare
<1>1. Vacant(a)' /\ row'[a].status \in Pipeline \cup {"queued", "stopped"}
  BY <1>0, <1>a DEF Vacant, Has, Blank, StatusStage
<1>2. CASE pc' = "fail" /\ job' = job /\ UNCHANGED alloc
  <2>1. Held(a)' /\ OthersSame(a)
    BY <1>0, <1>2, <1>a, PortsKept DEF Held, OthersSame, Same
  <2>2. Stage(a)'
    BY <1>1, <1>2, <2>1 DEF Vacant, StatusStage
  <2> QED
    BY <1>2, <2>1, <2>2, GoesOn
<1>3. CASE AllocateApiPort /\ pc' = "allocDash"
  <2>1. PICK p \in Ports : AllocatePort(a, p) /\ job' = [job EXCEPT !.api = p]
    BY <1>3 DEF AllocateApiPort
  <2>2. job'.agent = a /\ job'.api = p /\ job'.dash = None /\ p # None
    BY <1>a, <2>1, Typed DEF Job
  <2>3. OwnedBy(a) = {}
    BY <1>3, <1>a DEF Held, AllocateApiPort
  <2>4. OwnedBy(a)' = {p} /\ OthersSame(a)
    BY <1>0, <2>1, <2>3, PortGot DEF OthersSame, Same
  <2>5. Held(a)'
    BY <2>2, <2>4 DEF Held
  <2>6. Stage(a)'
    BY <1>1, <1>3, <2>2, <2>5 DEF StatusStage
  <2> QED
    BY <2>2, <2>4, <2>6, GoesOn
<1>4. CASE AllocateDashboardPort /\ pc' = "starting"
  <2>1. PICK p \in Ports : AllocatePort(a, p) /\ job' = [job EXCEPT !.dash = p]
    BY <1>4 DEF AllocateDashboardPort
  <2>2. job'.agent = a /\ job'.api = job.api /\ job'.dash = p /\ p # None /\ job.api # None
    BY <1>4, <1>a, <2>1, Typed DEF Job, AllocateDashboardPort
  <2>3. OwnedBy(a) = {job.api}
    BY <1>a, <2>2 DEF Held
  <2>4. OwnedBy(a)' = {job.api, p} /\ OthersSame(a)
    BY <1>0, <2>1, <2>3, PortGot DEF OthersSame, Same
  <2>5. Held(a)' /\ Equipped'
    BY <2>2, <2>4 DEF Held, Equipped
  <2>6. Stage(a)'
    BY <1>1, <1>4, <2>5 DEF StatusStage
  <2> QED
    BY <2>2, <2>4, <2>6, GoesOn
<1> QED
  BY <1>2, <1>3, <1>4 DEF AllocateApiPort, AllocateDashboardPort

\* runContainer, with the container that is created and never starts.
LEMMA ContainerKeeps ==
  ASSUME DeployAndStop, DInv,
         ReadSecretAndPrepare \/ CreateContainer \/ StartContainer \/ RecordContainer
  PROVE  AgentsInv'
<1> USE DEF Stage, TeardownStage, BuildStage, CleanupStage, SweepStage,
            Cleaning, Sweeping, Goto
<1>0. pc \in {"secret", "create", "start", "record"}
  BY DEF ReadSecretAndPrepare, CreateContainer, StartContainer, RecordContainer
<1> PICK a \in Agents : a = job.agent
  BY <1>0, AtWorkOn DEF Driving
<1>a. Stage(a)
  BY <1>0, AtWorkOn DEF Driving
<1>b. Held(a) /\ Equipped /\ route[a] = None /\ Blank(a) /\ StatusStage(a)
  BY <1>0, <1>a DEF Vacant
<1>c. row[a].status \in Pipeline \cup {"queued", "stopped"}
  BY <1>0, <1>b DEF StatusStage
<1>1. CASE ReadSecretAndPrepare
  <2>1. /\ pc = "secret" /\ pc' \in {"create", "fail"} /\ job' = job
        /\ UNCHANGED <<row, alloc, route, box>>
    BY <1>1 DEF ReadSecretAndPrepare, platform
  <2>2. Vacant(a)
    BY <2>1, <1>a
  <2>3. Vacant(a)' /\ Held(a)' /\ Equipped' /\ OthersSame(a)
    BY <1>b, <2>1, <2>2, PortsKept
    DEF Vacant, Has, Blank, Held, Equipped, OthersSame, Same
  <2>4. Stage(a)'
    BY <1>c, <2>1, <2>3 DEF StatusStage, Vacant
  <2> QED
    BY <2>1, <2>3, <2>4, GoesOn
<1>2. CASE CreateContainer
  <2>1. ~Has(a) /\ pc = "create"
    BY <1>2, <1>a DEF CreateContainer, Vacant
  <2>0. (UNCHANGED <<box, gen>> /\ pc' = "fail") => AgentsInv'
    <3> SUFFICES ASSUME UNCHANGED <<box, gen>>, pc' = "fail" PROVE AgentsInv'
      OBVIOUS
    <3>1. job' = job /\ UNCHANGED <<row, alloc, route, box>>
      BY <1>2 DEF CreateContainer, tables
    <3>2. Vacant(a)
      BY <2>1, <1>a
    <3>3. Vacant(a)' /\ Held(a)' /\ Equipped' /\ OthersSame(a)
      BY <1>b, <3>1, <3>2, PortsKept
      DEF Vacant, Has, Blank, Held, Equipped, OthersSame, Same
    <3>4. Stage(a)'
      BY <1>c, <3>1, <3>3 DEF StatusStage, Vacant
    <3> QED
      BY <3>1, <3>3, <3>4, GoesOn
  <2> SUFFICES ASSUME box' = [box EXCEPT ![a] = NewContainer], pc' = "start"
               PROVE  AgentsInv'
    BY <1>2, <2>0 DEF CreateContainer
  <2>2. /\ box' = [box EXCEPT ![a] = NewContainer] /\ pc' = "start" /\ job' = job
        /\ UNCHANGED <<row, alloc, route>>
    BY <1>2 DEF CreateContainer, tables
  <2>3. box'[a] = NewContainer /\ \A b \in Agents \ {a} : box'[b] = box[b]
    BY <2>2 DEF DInv, IInv, TypeOK, PlatformTypeOK
  <2>4. NewContainer # None
    <3>1. NewContainer \in Container
      <4>1. job.image \in Versions /\ job.api \in Ports /\ job.dash \in Ports
        BY <1>b, <2>1, Typed DEF DInv, IInv, JobInv, Imaged, Equipped, Job, PortOrNone
      <4>2. gen[a] + 1 \in Nat
        BY DEF DInv, IInv, TypeOK, PlatformTypeOK
      <4> QED
        BY <4>1, <4>2 DEF NewContainer, Container
    <3> QED
      BY <3>1, PlatformAssumption
  <2>5. Has(a)' /\ box'[a].state = "created" /\ Ours(a)'
    BY <2>2, <2>3, <2>4 DEF Has, Ours, NewContainer
  <2>6. Held(a)' /\ Equipped' /\ Blank(a)' /\ OthersSame(a)
    BY <1>b, <2>2, <2>3, PortsKept DEF Held, Equipped, Blank, OthersSame, Same
  <2>7. Stage(a)'
    BY <1>b, <1>c, <2>2, <2>5, <2>6 DEF StatusStage
  <2> QED
    BY <2>2, <2>6, <2>7, GoesOn
<1>3. CASE StartContainer
  <2>1. Has(a) /\ box[a].state = "created" /\ Ours(a) /\ pc = "start"
    BY <1>3, <1>a DEF StartContainer
  <2>2. ASSUME NEW p \in BoxPorts(a), NEW b \in Agents, IsUp(b), p \in BoxPorts(b)
        PROVE  FALSE
    <3>1. b # a
      BY <2>1, <2>2 DEF IsUp
    <3>2. p \in OwnedBy(b)
      BY <2>2, UpOwns
    <3>3. p \in OwnedBy(a)
      BY <1>b, <2>1, <2>2 DEF BoxPorts, Ours, Held, Equipped
    <3> QED
      BY <3>1, <3>2, <3>3 DEF OwnedBy
  <2>3. /\ box' = [box EXCEPT ![a].state = "up", ![a].boot = @ + 1]
        /\ pc' = "record" /\ job' = [job EXCEPT !.ctr = box[a].id]
        /\ UNCHANGED <<row, alloc, route>>
    BY <1>3, <2>2 DEF StartContainer, DeployAndStop, Bound, tables
  <2>4. job'.agent = a /\ job'.api = job.api /\ job'.dash = job.dash /\ job'.ctr = box[a].id
    BY <2>3, Typed DEF Job
  <2>5. box[a] \in Container /\ box \in [Agents -> Container \cup {None}]
    BY <2>1, Typed DEF Has, DInv, IInv, TypeOK, PlatformTypeOK
  <2>6. /\ box'[a] = [box[a] EXCEPT !.state = "up", !.boot = @ + 1]
        /\ \A b \in Agents \ {a} : box'[b] = box[b]
    BY <2>3, <2>5
  <2>7. /\ box'[a].state = "up" /\ box'[a].id = box[a].id
        /\ box'[a].api = box[a].api /\ box'[a].dash = box[a].dash /\ box'[a] # None
    <3>1. box'[a] \in Container
      BY <2>3, <2>5 DEF Container
    <3> QED
      BY <2>5, <2>6, <3>1, PlatformAssumption DEF Container
  <2>8. Started(a)'
    BY <2>1, <2>4, <2>7 DEF Started, IsUp, Has, Ours
  <2>9. Held(a)' /\ Equipped' /\ Blank(a)' /\ OthersSame(a)
    BY <1>b, <2>3, <2>4, <2>6, PortsKept DEF Held, Equipped, Blank, OthersSame, Same
  <2>10. Stage(a)'
    BY <1>b, <1>c, <2>3, <2>8, <2>9 DEF StatusStage
  <2> QED
    BY <2>4, <2>9, <2>10, GoesOn
<1>4. CASE RecordContainer
  <2>1. Started(a) /\ pc = "record" /\ job.kind = "drive"
    BY <1>4, <1>a DEF RecordContainer, DInv, WorkerInv, Driving
  <2>2. Exists(a)
    BY <1>c DEF Exists, NoRow, Pipeline
  <2>3. /\ row' = [row EXCEPT ![a].containerId = job.ctr,
                      ![a].apiPort = IF job.kind = "drive" THEN job.api ELSE @,
                      ![a].dashboardPort = IF job.kind = "drive" THEN job.dash ELSE @]
        /\ pc' = "healthStatus" /\ job' = job /\ UNCHANGED <<alloc, route, box>>
    BY <1>4, <2>1, <2>2 DEF RecordContainer, docker
  <2>4. row \in [Agents -> Row] /\ row[a] \in Row
    BY DEF DInv, IInv, TypeOK, PlatformTypeOK
  <2>5. /\ row'[a] = [row[a] EXCEPT !.containerId = job.ctr, !.apiPort = job.api,
                                    !.dashboardPort = job.dash]
        /\ \A b \in Agents \ {a} : row'[b] = row[b]
    BY <2>1, <2>3, <2>4
  <2>6. Recorded(a)' /\ row'[a].status = row[a].status
    BY <2>3, <2>4, <2>5 DEF Row, Recorded
  <2>7. Started(a)' /\ Held(a)' /\ Equipped' /\ OthersSame(a)
    BY <1>b, <2>1, <2>3, <2>5, PortsKept
    DEF Started, IsUp, Has, Ours, Held, Equipped, OthersSame, Same
  <2>8. Stage(a)'
    BY <1>b, <1>c, <2>3, <2>6, <2>7 DEF StatusStage
  <2> QED
    BY <2>3, <2>7, <2>8, GoesOn
<1> QED
  BY <1>1, <1>2, <1>3, <1>4

\* The health wait, the route and the write that says running.
LEMMA RoutingKeeps ==
  ASSUME DeployAndStop, DInv, WaitForHealth \/ RegisterRoute \/ MarkRunning
  PROVE  AgentsInv'
<1> USE DEF Stage, TeardownStage, BuildStage, CleanupStage, SweepStage,
            Cleaning, Sweeping, Goto, Leave
<1>0. pc \in {"health", "addRoute", "running"} /\ UNCHANGED <<alloc, box>>
  BY DEF WaitForHealth, RegisterRoute, MarkRunning, platform, docker, tables
<1> PICK a \in Agents : a = job.agent
  BY <1>0, AtWorkOn DEF Driving
<1>a. /\ Started(a) /\ Held(a) /\ Equipped /\ Recorded(a)
      /\ row[a].status \in Pipeline \cup {"queued", "stopped"}
      /\ route[a] = IF pc = "running" THEN job.dash ELSE None
      /\ job.kind = "drive"
  BY <1>0, AtWorkOn DEF Driving, StatusStage, DInv, WorkerInv
<1>b. \A b \in Agents : OwnedBy(b)' = OwnedBy(b)
  BY <1>0, PortsKept
<1>1. CASE job' = job /\ pc' = "fail" /\ UNCHANGED <<row, route>>
  <2>1. route[a] = None
    <3>1. ~MarkRunning
      BY <1>1, <1>a DEF MarkRunning, Exists, NoRow, Pipeline, AfterJob
    <3> QED
      BY <1>a, <3>1 DEF WaitForHealth, RegisterRoute
  <2>2. Held(a)' /\ Started(a)' /\ OthersSame(a)
    BY <1>0, <1>1, <1>a, <1>b DEF Held, Started, IsUp, Has, Ours, OthersSame, Same
  <2>3. Stage(a)'
    BY <1>1, <1>a, <2>1, <2>2 DEF StatusStage
  <2> QED
    BY <1>1, <2>2, <2>3, GoesOn
<1>2. CASE WaitForHealth /\ pc' = "registering"
  <2>1. job' = job /\ UNCHANGED <<row, route>> /\ pc = "health"
    BY <1>2 DEF WaitForHealth, platform
  <2>2. /\ Held(a)' /\ Started(a)' /\ Equipped' /\ Recorded(a)' /\ OthersSame(a)
    BY <1>0, <1>a, <1>b, <2>1
    DEF Held, Started, IsUp, Has, Ours, Equipped, Recorded, OthersSame, Same
  <2>3. Stage(a)'
    BY <1>2, <1>a, <2>1, <2>2 DEF StatusStage
  <2> QED
    BY <2>1, <2>2, <2>3, GoesOn
<1>3. CASE RegisterRoute /\ pc' = "running"
  <2>1. UNCHANGED row /\ route' = [route EXCEPT ![a] = job.dash]
        /\ job' = [job EXCEPT !.routed = TRUE]
    BY <1>3 DEF RegisterRoute, AddRoute, tables
  <2>2. /\ job'.agent = a /\ job'.api = job.api /\ job'.dash = job.dash /\ job'.ctr = job.ctr
        /\ route'[a] = job.dash /\ \A b \in Agents \ {a} : route'[b] = route[b]
    BY <2>1, Typed DEF Job, DInv, IInv, TypeOK, PlatformTypeOK
  <2>3. /\ Held(a)' /\ Started(a)' /\ Equipped' /\ Recorded(a)' /\ OthersSame(a)
    BY <1>0, <1>a, <1>b, <2>1, <2>2
    DEF Held, Started, IsUp, Has, Ours, Equipped, Recorded, OthersSame, Same
  <2>4. Stage(a)'
    BY <1>3, <1>a, <2>1, <2>2, <2>3 DEF StatusStage
  <2> QED
    BY <2>2, <2>3, <2>4, GoesOn
<1>4. CASE MarkRunning /\ pc' # "fail"
  <2>0. Exists(job.agent)
    BY <1>a DEF Exists, NoRow, Pipeline
  <2>1. /\ pc = "running" /\ job' = Idle /\ UNCHANGED route
        /\ row' = [row EXCEPT ![job.agent].status = "running",
                         ![job.agent].hermesVersion = ShownVersion(row[job.agent]),
                         ![job.agent].target =
                             IF job.kind = "update" THEN None ELSE @]
    BY <1>4, <2>0 DEF MarkRunning
  <2>2. row \in [Agents -> Row] /\ row[a] \in Row
    BY DEF DInv, IInv, TypeOK, PlatformTypeOK
  <2>3. /\ row'[a] = [row[a] EXCEPT !.status = "running",
                          !.hermesVersion = ShownVersion(row[a]),
                          !.target = IF job.kind = "update" THEN None ELSE @]
        /\ \A b \in Agents \ {a} : row'[b] = row[b]
    BY <2>1, <2>2
  <2>4. row'[a].status = "running" /\ Columns(a)
    BY <2>2, <2>3 DEF Row, Columns
  <2>5. OthersSame(a)
    BY <1>0, <1>b, <2>1, <2>3 DEF OthersSame, Same
  <2>6. Served(a)
    BY <1>a, <2>1 DEF Served, Started, Held, Equipped, Recorded, Ours, BoxPorts
  <2>7. Served(a)'
    BY <1>0, <1>b, <2>1, <2>4, <2>6 DEF Served, Columns, IsUp, Has, BoxPorts
  <2>8. Resting(a)'
    BY <2>4, <2>7 DEF Resting, Settled
  <2> QED
    BY <2>1, <2>5, <2>8, LetsGo
<1> QED
  <2>1. MarkRunning => pc' # "fail"
    BY <1>a DEF MarkRunning, Exists, NoRow, Pipeline, AfterJob
  <2> QED
    BY <1>1, <1>2, <1>3, <1>4, <1>a, <2>1 DEF WaitForHealth, RegisterRoute, MarkRunning,
       platform, tables

-----------------------------------------------------------------------------
(* failDeployment and the cleanup *)

\* failDeployment with its cleanup, each step of which may fail.
LEMMA CleanupKeeps ==
  ASSUME DeployAndStop, DInv,
         FailDeployment \/ CleanupBox \/ CleanupRoute \/ CleanupPorts
  PROVE  AgentsInv'
<1> USE DEF Stage, TeardownStage, BuildStage, CleanupStage, SweepStage,
            Cleaning, Sweeping, Goto, Leave
<1>0. pc \in {"fail", "cleanBox", "cleanRoute", "cleanPorts"}
  BY DEF FailDeployment, CleanupBox, CleanupRoute, CleanupPorts
<1> PICK a \in Agents : a = job.agent
  BY <1>0, AtWorkOn DEF Driving
<1>a. /\ Held(a) /\ route[a] = None /\ job.kind = "drive"
      /\ pc # "fail" => Blank(a) /\ row[a].status \in {"queued", "stopped", "failed"}
      /\ pc \in {"fail", "cleanBox"} => (Has(a) => Started(a))
      /\ pc \in {"cleanRoute", "cleanPorts"} => ~Has(a)
      /\ pc = "fail" => row[a].status \in Pipeline \cup {"queued", "stopped"}
  BY <1>0, AtWorkOn DEF Driving, StatusStage, Vacant, DInv, WorkerInv
<1>1. CASE FailDeployment
  <2>1. pc = "fail" /\ Exists(a)
    BY <1>1, <1>a DEF FailDeployment, Exists, NoRow, Pipeline
  <2>2. /\ row' = [row EXCEPT ![a] = [Cleared(@) EXCEPT !.status = "failed"]]
        /\ pc' = "cleanBox" /\ job' = job /\ UNCHANGED <<alloc, route, box>>
    BY <1>1, <2>1 DEF FailDeployment, docker
  <2>3. row \in [Agents -> Row] /\ row[a] \in Row
    BY DEF DInv, IInv, TypeOK, PlatformTypeOK
  <2>4. /\ row'[a] = [Cleared(row[a]) EXCEPT !.status = "failed"]
        /\ \A b \in Agents \ {a} : row'[b] = row[b]
    BY <2>2, <2>3
  <2>5. row'[a].status = "failed" /\ Blank(a)'
    BY <2>3, <2>4 DEF Row, Cleared, Blank
  <2>6. (Has(a)' => Started(a)') /\ Held(a)' /\ OthersSame(a)
    BY <1>a, <2>1, <2>2, <2>4, PortsKept
    DEF Has, Started, IsUp, Ours, Held, OthersSame, Same
  <2>7. Stage(a)'
    BY <1>a, <2>2, <2>5, <2>6 DEF StatusStage
  <2> QED
    BY <2>2, <2>6, <2>7, GoesOn
<1>2. CASE CleanupBox
  <2>1. /\ pc = "cleanBox" /\ pc' = "cleanRoute" /\ job' = job
        /\ UNCHANGED <<row, alloc, route>>
        /\ IF job.ctr # None THEN StopAndRemove(a, job.ctr, dies) ELSE UNCHANGED box
    BY <1>2, <1>a DEF CleanupBox, CleanupTarget, tables
  <2>2. Has(a) => IsBox(a, job.ctr)
    BY <1>a, <2>1 DEF Started, IsBox
  <2>3. ~Has(a)' /\ \A b \in Agents \ {a} : box'[b] = box[b]
    <3>1. CASE job.ctr # None
      BY <2>1, <2>2, <3>1, BoxGone
    <3>2. CASE job.ctr = None
      <4>1. ~Has(a)
        BY <2>2, <3>2, Typed DEF IsBox, Has, Container
      <4> QED
        BY <2>1, <3>2, <4>1 DEF Has
    <3> QED
      BY <3>1, <3>2
  <2>4. Vacant(a)' /\ Held(a)' /\ OthersSame(a)
    BY <1>a, <2>1, <2>3, PortsKept DEF Vacant, Blank, Held, OthersSame, Same
  <2>5. Stage(a)'
    BY <1>a, <2>1, <2>4 DEF StatusStage
  <2> QED
    BY <2>1, <2>4, <2>5, GoesOn
<1>3. CASE CleanupRoute
  <2>1. /\ pc = "cleanRoute" /\ pc' = "cleanPorts" /\ job' = job
        /\ UNCHANGED <<row, alloc, box>>
        /\ RemoveRoute(a) \/ UNCHANGED route
    BY <1>3 DEF CleanupRoute, tables, docker
  <2>2. route'[a] = None /\ \A b \in Agents \ {a} : route'[b] = route[b]
    BY <1>a, <2>1, RouteGone
  <2>3. Vacant(a)' /\ Held(a)' /\ OthersSame(a)
    BY <1>a, <2>1, <2>2, PortsKept DEF Vacant, Has, Blank, Held, OthersSame, Same
  <2>4. Stage(a)'
    BY <1>a, <2>1, <2>3 DEF StatusStage
  <2> QED
    BY <2>1, <2>3, <2>4, GoesOn
<1>4. CASE CleanupPorts
  <2>1. /\ pc = "cleanPorts" /\ job' = Idle /\ UNCHANGED <<row, route, box>>
        /\ IF job.api # None \/ job.dash # None THEN ReleasePort(a) ELSE UNCHANGED alloc
    BY <1>4 DEF CleanupPorts, docker
  <2>2. OwnedBy(a)' = {} /\ \A b \in Agents \ {a} : OwnedBy(b)' = OwnedBy(b)
    <3>1. CASE job.api # None \/ job.dash # None
      BY <2>1, <3>1, PortsGone
    <3>2. CASE ~(job.api # None \/ job.dash # None)
      BY <1>a, <2>1, <3>2, PortsKept DEF Held
    <3> QED
      BY <3>1, <3>2
  <2>3. OthersSame(a)
    BY <2>1, <2>2 DEF OthersSame, Same
  <2>4. Empty(a)'
    BY <1>a, <2>1, <2>2 DEF Empty, Clean, Has, Blank
  <2>5. Resting(a)'
    BY <1>a, <2>1, <2>4 DEF Resting, Settled
  <2> QED
    BY <2>1, <2>3, <2>5, LetsGo
<1> QED
  BY <1>1, <1>2, <1>3, <1>4

-----------------------------------------------------------------------------
(* drainStops, and the drains that find nothing *)

\* drainStops takes a stopped agent apart.
LEMMA SweepKeeps ==
  ASSUME DeployAndStop, DInv, StopsBox \/ StopsRoute \/ StopsPorts \/ StopsClear
  PROVE  AgentsInv' /\ TodoInv'
<1> USE DEF Stage, TeardownStage, BuildStage, CleanupStage, SweepStage,
            Cleaning, Sweeping, Goto, Leave
<1>0. pc \in {"stopBox", "stopRoute", "stopPorts", "stopClear"}
  BY DEF StopsBox, StopsRoute, StopsPorts, StopsClear
<1>1. \A t \in todo : t \in Pending /\ t.agent \in Agents /\ ToSweep(t)
  BY DEF DInv, TodoInv, IInv, TypeOK, WorkerTypeOK, Pending
<1>2. ASSUME NEW a \in Agents, OthersSame(a), todo' \subseteq todo,
             \A t \in todo' : t.agent # a /\ t.agent # job'.agent,
             todo' # {} => pc' \in Sweeping \cup {"stopBox"}
      PROVE  TodoInv'
  <2>1. ASSUME NEW t \in todo' PROVE ToSweep(t)'
    <3>1. ToSweep(t) /\ Same(t.agent) /\ t.agent \in Agents /\ t.agent # job'.agent
      BY <1>1, <1>2, <2>1 DEF OthersSame
    <3>2. Served(t.agent)'
      BY <3>1, SameRests DEF ToSweep
    <3> QED
      BY <3>1, <3>2 DEF ToSweep, Same
  <2> QED
    BY <1>2, <2>1 DEF TodoInv
<1>3. CASE StopsBox
  <2>1. PICK t \in todo :
           /\ StopAndRemove(t.agent, t.ref, dies) /\ todo' = todo \ {t}
           /\ pc' = "stopRoute"
           /\ job' = [Idle EXCEPT !.kind = "sweep", !.agent = t.agent, !.old = t.ref]
           /\ pc = "stopBox" /\ UNCHANGED <<row, alloc, route>>
    BY <1>3 DEF StopsBox, Sweep, tables
  <2> PICK a \in Agents : a = t.agent
    BY <1>1
  <2>2. job'.agent = a /\ t.ref = row[a].containerId /\ Served(a)
        /\ row[a].status \in {"queued", "stopped"}
    BY <1>1, <2>1 DEF Idle, ToSweep
  <2>3. ~Has(a)' /\ OthersSame(a)
    BY <2>1, <2>2, BoxGone, PortsKept DEF Served, IsBox, OthersSame, Same
  <2>4. Leads(a)' /\ StatusStage(a)'
    BY <2>1, <2>2, PortsKept DEF Leads, Served, BoxPorts, StatusStage
  <2>5. AgentsInv'
    <3>1. Stage(a)'
      BY <2>1, <2>3, <2>4
    <3> QED
      BY <2>1, <2>2, <2>3, <3>1, TakesUp DEF Roaming
  <2>6. ASSUME NEW u \in todo' PROVE u.agent # a
    <3>1. u \in todo /\ u # t
      BY <2>1, <2>6
    <3>2. u.ref = row[u.agent].containerId /\ u \in Pending /\ t \in Pending
      BY <1>1, <3>1 DEF ToSweep
    <3> QED
      BY <2>2, <3>1, <3>2 DEF Pending
  <2>7. TodoInv'
    BY <1>2, <2>1, <2>2, <2>3, <2>6
  <2> QED
    BY <2>5, <2>7
<1>4. CASE ~StopsBox
  <2>0. pc \in Sweeping /\ todo' = todo
    BY <1>4 DEF StopsRoute, StopsPorts, StopsClear
  <2> PICK a \in Agents : a = job.agent
    BY <2>0, AtWorkOn
  <2>a. /\ row[a].status \in {"queued", "stopped"} /\ SweepStage(a)
    BY <2>0, AtWorkOn DEF StatusStage
  <2>b. \A t \in todo : t.agent # a /\ t.agent # None
    BY <1>1, PlatformAssumption DEF ToSweep
  <2>1. CASE StopsRoute
    <3>1. RemoveRoute(a) /\ pc' = "stopPorts" /\ job' = job /\ UNCHANGED <<row, alloc, box>>
      BY <2>1 DEF StopsRoute, tables, docker
    <3>2. route'[a] = None /\ OthersSame(a)
      BY <3>1, RouteGone, PortsKept DEF OthersSame, Same
    <3>3. Stage(a)'
      BY <2>1, <2>a, <3>1, <3>2 DEF StatusStage, Has, StopsRoute
    <3> QED
      BY <1>2, <2>0, <2>b, <3>1, <3>2, <3>3, GoesOn
  <2>2. CASE StopsPorts
    <3>1. ReleasePort(a) /\ pc' = "stopClear" /\ job' = job /\ UNCHANGED <<row, route, box>>
      BY <2>2 DEF StopsPorts, docker
    <3>2. OwnedBy(a)' = {} /\ OthersSame(a)
      BY <3>1, PortsGone DEF OthersSame, Same
    <3>3. Stage(a)'
      BY <2>2, <2>a, <3>1, <3>2 DEF StatusStage, Clean, Has, StopsPorts
    <3> QED
      BY <1>2, <2>0, <2>b, <3>1, <3>2, <3>3, GoesOn
  <2>3. CASE StopsClear
    <3>1. Exists(a) /\ Clean(a)
      BY <2>3, <2>a DEF Exists, NoRow, StopsClear
    <3>2. /\ row' = [row EXCEPT ![a] = Cleared(@)] /\ job' = Idle
          /\ pc' = IF todo = {} THEN "deletes" ELSE "stopBox"
          /\ UNCHANGED <<alloc, route, box>>
      BY <2>3, <3>1 DEF StopsClear, docker
    <3>3. row'[a].status = row[a].status /\ Blank(a)' /\ OthersSame(a)
      BY <3>2, ColumnsCleared, PortsKept DEF OthersSame, Same
    <3>4. Empty(a)'
      BY <3>1, <3>2, <3>3, PortsKept DEF Empty, Clean, Has
    <3>5. Resting(a)'
      BY <2>a, <3>3, <3>4 DEF Resting, Settled
    <3>6. job'.agent = None
      BY <3>2 DEF Idle
    <3>7. AgentsInv'
      BY <3>2, <3>3, <3>5, LetsGo
    <3> QED
      BY <1>2, <2>0, <2>b, <3>2, <3>3, <3>6, <3>7
  <2> QED
    BY <1>4, <2>1, <2>2, <2>3
<1> QED
  BY <1>3, <1>4

\* Nobody asks for an update or a deletion.
LEMMA FindsKeep ==
  ASSUME DeployAndStop, DInv, DrainUpdatesFind \/ DrainStopsFind \/ DrainDeletesFind
  PROVE  /\ AgentsInv' /\ TodoInv' /\ job' = Idle
         /\ pc' \in {"stops", "stopBox", "deletes", "queue"}
<1>0. pc \in {"updates", "stops", "deletes"} /\ UNCHANGED <<row, box, route, alloc, dies>>
  BY DEF DrainUpdatesFind, DrainStopsFind, DrainDeletesFind, platform
<1>1. pc \in Roaming /\ \A b \in Agents : Same(b)
  BY <1>0, PortsKept DEF Roaming, Same
<1>2. \A a \in Agents : ~Handling(a) /\ Resting(a)
  BY <1>1, AllRest
<1>3. WithStatus("updating") = {} /\ WithStatus("deleting") = {}
  BY <1>2 DEF WithStatus, Resting
<1>4. job' = Idle /\ pc' \in {"stops", "stopBox", "deletes", "queue"}
      /\ (pc' # "stopBox" \/ pc # "stops" => todo' = {})
  <2>1. CASE DrainUpdatesFind
    <3>1. Updatable = {} /\ todo = {}
      BY <1>0, <1>3 DEF Updatable, DInv, TodoInv, Sweeping
    <3> QED
      BY <2>1, <3>1 DEF DrainUpdatesFind, Oldest, Leave
  <2>2. CASE DrainStopsFind
    BY <2>2 DEF DrainStopsFind, Leave
  <2>3. CASE DrainDeletesFind
    BY <1>3, <2>3 DEF DrainDeletesFind, Leave
  <2> QED
    BY <2>1, <2>2, <2>3
<1>5. AgentsInv'
  BY <1>1, <1>4, StaysIdle
<1>6. ASSUME NEW t \in todo' PROVE ToSweep(t)'
  <2>1. pc = "stops"
    BY <1>4, <1>6
  <2>2. PICK a \in Agents : /\ t = [agent |-> a, ref |-> row[a].containerId]
                            /\ row[a].status = "stopped" /\ row[a].containerId # None
    <3>1. todo' = {[agent |-> a, ref |-> row[a].containerId] : a \in Stopped}
      BY <2>1 DEF DrainUpdatesFind, DrainStopsFind, DrainDeletesFind
    <3> QED
      BY <1>6, <3>1 DEF Stopped, WithStatus
  <2>3. Served(a)
    BY <1>2, <2>2 DEF Resting, Settled, Empty, Blank
  <2>4. Served(a)'
    BY <1>1, <2>3, SameRests
  <2>5. t.agent = a /\ t.ref = row[a].containerId /\ a # job'.agent
    BY <1>4, <2>2, Typed DEF Idle
  <2> QED
    BY <1>0, <2>2, <2>4, <2>5 DEF ToSweep
<1> QED
  BY <1>4, <1>5, <1>6 DEF TodoInv, Sweeping

-----------------------------------------------------------------------------
(* The worker's step as a whole *)

\* drive stays within its labels until it leaves for the next drain.
LEMMA DriveShape ==
  ASSUME DeployAndStop, DInv, DriveStep
  PROVE  WorkerInv' /\ TodoInv'
<1> USE DEF Goto, Leave, AfterJob
<1>0. pc \in Driving /\ todo' = todo
  BY DEF DriveStep, DriveRead, StaleBox, StaleRoute, StalePorts, StaleClear,
     SetAllocatingPorts, AllocateApiPort, AllocateDashboardPort, SetStarting,
     ReadSecretAndPrepare, CreateContainer, StartContainer, RecordContainer,
     SetHealthChecking, WaitForHealth, SetRegisteringRoute, RegisterRoute,
     MarkRunning, FailDeployment, CleanupBox, CleanupRoute, CleanupPorts,
     Announce, Driving, Cleaning
<1>1. todo = {} /\ job.kind = "drive" /\ job \in Job
  BY <1>0 DEF DInv, TodoInv, WorkerInv, Driving, Sweeping, Cleaning, IInv, TypeOK,
     WorkerTypeOK
<1>2. (pc' \in Driving /\ job'.kind = "drive") \/ (pc' = "updates" /\ job' = Idle)
  <2> USE <1>1 DEF Driving, Cleaning
  <2>1. CASE DriveRead
    <3>1. CASE job' = Idle
      BY <2>1, <3>1 DEF DriveRead, Idle
    <3>2. CASE job' # Idle
      BY <2>1, <3>2 DEF DriveRead, Job
    <3> QED
      BY <3>1, <3>2
  <2>2. CASE StaleBox \/ StaleRoute \/ StalePorts \/ StaleClear
    BY <2>2 DEF StaleBox, StaleRoute, StalePorts, StaleClear
  <2>3. CASE AllocateApiPort \/ AllocateDashboardPort
    BY <2>3 DEF AllocateApiPort, AllocateDashboardPort, Job
  <2>4. CASE SetAllocatingPorts \/ SetStarting \/ SetHealthChecking \/ SetRegisteringRoute
    BY <2>4 DEF SetAllocatingPorts, SetStarting, SetHealthChecking,
                SetRegisteringRoute, Announce
  <2>5. CASE ReadSecretAndPrepare \/ CreateContainer \/ StartContainer \/ RecordContainer
    BY <2>5 DEF ReadSecretAndPrepare, CreateContainer, StartContainer,
                RecordContainer, Job
  <2>6. CASE WaitForHealth \/ RegisterRoute \/ MarkRunning
    BY <2>6 DEF WaitForHealth, RegisterRoute, MarkRunning, Job
  <2>7. CASE FailDeployment \/ CleanupBox \/ CleanupRoute \/ CleanupPorts
    BY <2>7 DEF FailDeployment, CleanupBox, CleanupRoute, CleanupPorts
  <2> QED
    BY <2>1, <2>2, <2>3, <2>4, <2>5, <2>6, <2>7 DEF DriveStep
<1>3. WorkerInv'
  BY <1>2 DEF WorkerInv, Roaming, Driving, Sweeping, Cleaning
<1>4. TodoInv'
  BY <1>0, <1>1 DEF TodoInv
<1> QED
  BY <1>3, <1>4

\* Every step of the worker keeps its agents at their stages.
LEMMA WorkerStages ==
  ASSUME DeployAndStop, DInv, WorkerStep
  PROVE  WorkerInv' /\ AgentsInv' /\ TodoInv'
<1>1. CASE DriveStep
  <2>1. AgentsInv'
    BY <1>1, ClaimKeeps, TeardownKeeps, AnnouncesKeep, AllocationKeeps,
       ContainerKeeps, RoutingKeeps, CleanupKeeps DEF DriveStep
  <2> QED
    BY <1>1, <2>1, DriveShape
<1>2. CASE DrainQueueFind \/ DrainQueueClaim
  <2>0. pc \notin Sweeping \cup {"stopBox"} /\ todo' = todo
    BY <1>2 DEF DrainQueueFind, DrainQueueClaim, Sweeping
  <2>1. TodoInv'
    BY <2>0 DEF DInv, TodoInv
  <2>2. WorkerInv'
    <3>1. pc = "claim" => job.kind = "drive"
      BY DEF DInv, WorkerInv, Driving
    <3>2. \/ pc' = "updates" /\ job' = Idle
          \/ pc' \in {"claim", "read"} /\ job'.kind = "drive"
      BY <1>2, <3>1 DEF DrainQueueFind, DrainQueueClaim, Leave, Goto, Idle
    <3> QED
      BY <3>2 DEF WorkerInv, Roaming, Driving, Sweeping, Cleaning
  <2> QED
    BY <1>2, <2>1, <2>2, ClaimKeeps
<1>3. CASE DrainUpdatesFind \/ DrainStopsFind \/ DrainDeletesFind
  BY <1>3, FindsKeep DEF WorkerInv, Roaming, Driving, Cleaning
<1>4. CASE StopsBox \/ StopsRoute \/ StopsPorts \/ StopsClear
  <2>1. /\ pc' \in Sweeping \cup {"deletes", "stopBox"}
        /\ pc' \in {"deletes", "stopBox"} => job' = Idle
    BY <1>4 DEF StopsBox, StopsRoute, StopsPorts, StopsClear, Sweep, Goto, Leave, Sweeping
  <2>2. WorkerInv'
    BY <2>1 DEF WorkerInv, Roaming, Driving, Sweeping, Cleaning
  <2> QED
    BY <1>4, <2>2, SweepKeeps
<1>5. pc \in Roaming \cup Driving \cup Sweeping
  BY DEF DInv, WorkerInv
<1>6. CASE DrainStep
  <2>1. ~(\/ DrainUpdatesClaim \/ UpdateRead \/ SetUpdating \/ PullImage
          \/ StopOldContainer \/ DeletesBox \/ DeletesRoute \/ DeletesPorts \/ DeletesRow)
    BY <1>5 DEF DrainUpdatesClaim, UpdateRead, SetUpdating, PullImage, StopOldContainer,
       DeletesBox, DeletesRoute, DeletesPorts, DeletesRow, Roaming, Driving,
       Sweeping, Cleaning
  <2> QED
    BY <1>2, <1>3, <1>4, <1>6, <2>1 DEF DrainStep
<1>7. ~BootStep
  BY <1>5 DEF BootStep, WorkerBoot, ReconcileFind, ReconcileRoute, MainLoopStarts,
     Roaming, Driving, Sweeping, Cleaning
<1> QED
  BY <1>1, <1>6, <1>7 DEF WorkerStep

\* Only the last step of drive makes a row `running`, and none `unhealthy`.
LEMMA WorkerStatus ==
  ASSUME DeployAndStop, DInv, WorkerStep, NEW b \in Agents,
         row'[b].status \in {"running", "unhealthy"}
  PROVE  \/ row[b].status \in {"running", "unhealthy"}
         \/ pc = "running" /\ b = job.agent
<1>0. pc \in Roaming \cup Driving \cup Sweeping
  BY DEF DInv, WorkerInv
<1>1. CASE UNCHANGED row
  BY <1>1
<1>2. CASE MarkRunning
  <2>1. row'[b] = row[b] \/ b = job.agent
    BY <1>2 DEF MarkRunning, DInv, IInv, TypeOK, PlatformTypeOK
  <2> QED
    BY <1>2, <2>1 DEF MarkRunning
<1>3. CASE ~UNCHANGED row /\ ~MarkRunning
  <2>1. \/ DrainQueueClaim
        \/ SetAllocatingPorts \/ SetStarting \/ SetHealthChecking \/ SetRegisteringRoute
        \/ StaleClear \/ StopsClear \/ RecordContainer \/ FailDeployment
    BY <1>0, <1>3, RowWriters DEF SetUpdating, DeletesRow, Roaming, Driving, Sweeping, Cleaning
  <2>2. pc \in Driving \cup Sweeping
    BY <2>1 DEF DrainQueueClaim, SetAllocatingPorts, SetStarting, SetHealthChecking,
       SetRegisteringRoute, StaleClear, StopsClear, RecordContainer, FailDeployment,
       Driving, Sweeping
  <2> PICK a \in Agents : a = job.agent
    BY <2>2, AtWorkOn
  <2>3. CASE \E s \in Pipeline : SetStatus(a, s)
    BY <2>3, StatusSet DEF Pipeline
  <2>4. CASE row' = [row EXCEPT ![a] = Cleared(@)]
    BY <2>4, ColumnsCleared
  <2>5. CASE RecordContainer \/ FailDeployment
    <3>1. row \in [Agents -> Row] /\ row[a] \in Row
      BY DEF DInv, IInv, TypeOK, PlatformTypeOK
    <3>2. row'[b] = row[b] \/ b = a
      BY <1>3, <2>5, <3>1 DEF RecordContainer, FailDeployment
    <3>3. row'[a].status = row[a].status \/ row'[a].status = "failed"
      <4>1. CASE RecordContainer
        <5>1. row'[a] = [row[a] EXCEPT !.containerId = job.ctr,
                  !.apiPort = IF job.kind = "drive" THEN job.api ELSE @,
                  !.dashboardPort = IF job.kind = "drive" THEN job.dash ELSE @]
          BY <1>3, <3>1, <4>1 DEF RecordContainer
        <5> QED
          BY <3>1, <5>1 DEF Row
      <4>2. CASE FailDeployment
        <5>1. row'[a] = [Cleared(row[a]) EXCEPT !.status = "failed"]
          BY <1>3, <3>1, <4>2 DEF FailDeployment
        <5> QED
          BY <3>1, <5>1 DEF Row, Cleared
      <4> QED
        BY <2>5, <4>1, <4>2
    <3> QED
      BY <3>2, <3>3
  <2> QED
    BY <1>3, <2>1, <2>3, <2>4, <2>5 DEF DrainQueueClaim, SetAllocatingPorts, SetStarting,
       SetHealthChecking, SetRegisteringRoute, Announce, StaleClear, StopsClear, Pipeline
<1> QED
  BY <1>1, <1>2, <1>3

\* stopAndRemove adds at most the die event of the agent's container.
LEMMA StopEvents ==
  ASSUME NEW a, NEW i, StopAndRemove(a, i, dies)
  PROVE  \A d \in dies' : d \in dies \/ (d.agent = a /\ d.at = "event")
  BY DEF StopAndRemove, DieEvent

\* The die events that the worker causes, and the row of their agent then.
LEMMA WorkerEvents ==
  ASSUME DeployAndStop, DInv, WorkerStep
  PROVE  \/ UNCHANGED dies
         \/ /\ pc \in {"staleBox", "cleanBox", "stopBox"} /\ UNCHANGED row
            /\ pc' \notin {"registering", "addRoute", "running"}
            /\ \E a \in Agents :
                  /\ row[a].status \notin {"running", "unhealthy"}
                  /\ \A d \in dies' : d \in dies \/ (d.agent = a /\ d.at = "event")
<1>0. pc \in Roaming \cup Driving \cup Sweeping
  BY DEF DInv, WorkerInv
<1>1. CASE StaleBox \/ CleanupBox
  <2>1. /\ pc \in {"staleBox", "cleanBox"} /\ UNCHANGED row /\ job.kind = "drive"
        /\ pc' \notin {"registering", "addRoute", "running"}
        /\ UNCHANGED dies \/ \E i : StopAndRemove(job.agent, i, dies)
    BY <1>1 DEF StaleBox, CleanupBox, tables, Goto, DInv, WorkerInv, Driving, Cleaning
  <2>2. job.agent \in Agents /\ row[job.agent].status \notin {"running", "unhealthy"}
    BY <2>1, AtWorkOn DEF Driving, Cleaning, Stage, StatusStage, Pipeline
  <2> QED
    BY <2>1, <2>2, StopEvents
<1>2. CASE StopsBox
  <2>1. PICK t \in todo : StopAndRemove(t.agent, t.ref, dies)
    BY <1>2 DEF StopsBox
  <2>2. t.agent \in Agents /\ row[t.agent].status \notin {"running", "unhealthy"}
    BY DEF DInv, TodoInv, ToSweep, IInv, TypeOK, WorkerTypeOK, Pending
  <2>3. pc = "stopBox" /\ pc' = "stopRoute" /\ UNCHANGED row
    BY <1>2 DEF StopsBox, Sweep, tables
  <2> QED
    BY <2>1, <2>2, <2>3, StopEvents
<1>3. CASE ~(StaleBox \/ CleanupBox \/ StopsBox)
  <2>1. CASE DriveStep
    BY <1>3, <2>1 DEF DriveStep, DriveRead, StaleRoute, StalePorts, StaleClear,
       SetAllocatingPorts, AllocateApiPort, AllocateDashboardPort, SetStarting,
       ReadSecretAndPrepare, CreateContainer, StartContainer, RecordContainer,
       SetHealthChecking, WaitForHealth, SetRegisteringRoute, RegisterRoute,
       MarkRunning, FailDeployment, CleanupRoute, CleanupPorts, Announce,
       platform, docker
  <2>2. CASE DrainStep
    BY <1>0, <1>3, <2>2 DEF DrainStep, DrainQueueFind, DrainQueueClaim, DrainUpdatesFind,
       DrainUpdatesClaim, UpdateRead, SetUpdating, PullImage, StopOldContainer,
       DrainStopsFind, StopsRoute, StopsPorts, StopsClear, DrainDeletesFind,
       DeletesBox, DeletesRoute, DeletesPorts, DeletesRow, Announce,
       platform, docker, Roaming, Driving, Sweeping, Cleaning
  <2>3. CASE BootStep
    BY <2>3 DEF BootStep, WorkerBoot, ReconcileFind, ReconcileRoute, MainLoopStarts,
       platform, docker
  <2> QED
    BY <2>1, <2>2, <2>3 DEF WorkerStep
<1> QED
  BY <1>1, <1>2, <1>3

\* How the worker gets to its last three labels: through a health check that
\* no unread event of the agent accompanies.
LEMMA WorkerArrives ==
  ASSUME DeployAndStop, DInv, WorkerStep, Timely,
         pc' \in {"registering", "addRoute", "running"}
  PROVE  job'.agent = job.agent /\ \A d \in dies : d.agent # job.agent
<1>0. /\ pc \in Roaming \cup Driving \cup Sweeping /\ job \in Job
      /\ \A d \in dies : Expected(d)
  BY DEF DInv, WorkerInv, EventsInv, IInv, TypeOK, WorkerTypeOK
<1>1. WaitForHealth \/ SetRegisteringRoute \/ RegisterRoute
  <2> USE DEF Goto, Leave, AfterJob, Roaming, Driving, Sweeping, Cleaning
  <2>1. CASE DriveStep
    <3>1. CASE DriveRead \/ StaleBox \/ StaleRoute \/ StalePorts \/ StaleClear
      BY <3>1 DEF DriveRead, StaleBox, StaleRoute, StalePorts, StaleClear
    <3>2. CASE \/ SetAllocatingPorts \/ AllocateApiPort \/ AllocateDashboardPort
               \/ SetStarting \/ ReadSecretAndPrepare
      BY <3>2 DEF SetAllocatingPorts, AllocateApiPort, AllocateDashboardPort, SetStarting,
         ReadSecretAndPrepare, Announce
    <3>3. CASE \/ CreateContainer \/ StartContainer \/ RecordContainer
               \/ SetHealthChecking \/ MarkRunning
      BY <3>3 DEF CreateContainer, StartContainer, RecordContainer, SetHealthChecking,
         MarkRunning, Announce
    <3>4. CASE FailDeployment \/ CleanupBox \/ CleanupRoute \/ CleanupPorts
      BY <3>4 DEF FailDeployment, CleanupBox, CleanupRoute, CleanupPorts
    <3> QED
      BY <2>1, <3>1, <3>2, <3>3, <3>4 DEF DriveStep
  <2>2. CASE DrainStep
    BY <1>0, <2>2 DEF DrainStep, DrainQueueFind, DrainQueueClaim, DrainUpdatesFind,
       DrainUpdatesClaim, UpdateRead, SetUpdating, PullImage, StopOldContainer,
       DrainStopsFind, StopsBox, Sweep, StopsRoute, StopsPorts, StopsClear,
       DrainDeletesFind, DeletesBox, DeletesRoute, DeletesPorts, DeletesRow, Announce
  <2>3. CASE BootStep
    BY <2>3 DEF BootStep, WorkerBoot, ReconcileFind, ReconcileRoute, MainLoopStarts
  <2> QED
    BY <2>1, <2>2, <2>3 DEF WorkerStep
<1>2. job'.agent = job.agent
  BY <1>0, <1>1 DEF WaitForHealth, SetRegisteringRoute, RegisterRoute, Announce, Goto, Job
<1>3. CASE WaitForHealth
  <2>1. \A d \in dies : d.agent = job.agent => d.at # "event"
    BY <1>3 DEF Timely, DeployAndStop, WaitForHealth
  <2> QED
    BY <1>0, <1>2, <2>1 DEF Expected
<1>4. CASE SetRegisteringRoute \/ RegisterRoute
  BY <1>0, <1>2, <1>4 DEF SetRegisteringRoute, RegisterRoute, Expected
<1> QED
  BY <1>1, <1>3, <1>4

\* The worker's step keeps the whole invariant.
LEMMA WorkerDeploys ==
  ASSUME DeployAndStop, DInv, WorkerStep, Timely, IInv', UNCHANGED apiVars
  PROVE  DInv'
<1>1. WorkerInv' /\ AgentsInv' /\ TodoInv'
  BY WorkerStages
<1>2. CallsInv'
  BY DEF DInv, CallsInv, apiVars
<1>3. ASSUME NEW d \in dies' PROVE Expected(d)'
  <2>0. \A e \in dies : Expected(e) /\ e.agent \in Agents
    BY DEF DInv, EventsInv, IInv, TypeOK, PlatformTypeOK, Death
  <2>1. CASE UNCHANGED dies
    <3>1. Expected(d) /\ d.agent \in Agents
      BY <1>3, <2>0, <2>1
    <3>2. row'[d.agent].status \notin {"running", "unhealthy"}
      BY <3>1, WorkerStatus DEF Expected
    <3>3. pc' \in {"registering", "addRoute", "running"} => d.agent # job'.agent
      BY <1>3, <2>1, WorkerArrives
    <3> QED
      BY <3>1, <3>2, <3>3 DEF Expected
  <2>2. CASE ~UNCHANGED dies
    BY <1>3, <2>0, <2>2, WorkerEvents DEF Expected
  <2> QED
    BY <2>1, <2>2
<1> QED
  BY <1>1, <1>2, <1>3 DEF DInv, EventsInv

-----------------------------------------------------------------------------
(* The other processes *)

\* A step that at most writes statuses, beside the worker.
LEMMA BesideDeploys ==
  ASSUME DInv, IInv', UNCHANGED <<workerVars, alloc, route, box>>, dies' \subseteq dies,
         CallsInv',
         \A a \in Agents :
             /\ Columns(a)
             /\ \/ row'[a].status = row[a].status
                \/ row[a].status = "unborn" /\ row'[a].status = "queued"
                \/ Exists(a) /\ row'[a].status \in {"queued", "stopped"}
                \/ {row[a].status, row'[a].status} \subseteq {"running", "unhealthy"}
  PROVE  DInv'
<1>1. \A a \in Agents : OwnedBy(a)' = OwnedBy(a)
  BY PortsKept
<1>2. UNCHANGED <<pc, job, todo>>
  BY DEF workerVars
<1>3. ASSUME NEW a \in Agents
      PROVE  /\ Served(a) => Served(a)'
             /\ Empty(a) => Empty(a)'
  BY <1>1, <1>3 DEF Served, Empty, Clean, Blank, Has, IsUp, BoxPorts, Columns
<1>4. WorkerInv'
  BY <1>2 DEF DInv, WorkerInv
<1>5. ASSUME NEW a \in Agents, Stage(a) PROVE Stage(a)'
  <2>1. /\ Settled(a)' = Settled(a) /\ Empty(a)' = Empty(a) /\ Served(a)' = Served(a)
        /\ Clean(a)' = Clean(a) /\ Vacant(a)' = Vacant(a) /\ Blank(a)' = Blank(a)
        /\ Has(a)' = Has(a) /\ Leads(a)' = Leads(a) /\ Held(a)' = Held(a)
        /\ Started(a)' = Started(a) /\ Ours(a)' = Ours(a) /\ Recorded(a)' = Recorded(a)
        /\ Bare' = Bare /\ Equipped' = Equipped
    BY <1>1, <1>2, <1>5 DEF Settled, Empty, Served, Clean, Vacant, Blank, Has, Leads, Held,
       Started, Ours, Recorded, Bare, Equipped, IsUp, BoxPorts, Columns
  <2>2. TeardownStage(a)' /\ BuildStage(a)'
    BY <1>2, <1>5, <2>1 DEF Stage, TeardownStage, BuildStage, Columns
  <2>3. CleanupStage(a)' /\ SweepStage(a)'
    BY <1>2, <1>5, <2>1 DEF Stage, CleanupStage, SweepStage
  <2>4. StatusStage(a)'
    BY <1>2, <1>5 DEF Stage, StatusStage, Pipeline
  <2> QED
    BY <2>2, <2>3, <2>4 DEF Stage
<1>6. ASSUME NEW a \in Agents, Resting(a) PROVE Resting(a)'
  BY <1>3, <1>6 DEF Resting, Settled
<1>7. AgentsInv'
  BY <1>2, <1>5, <1>6 DEF DInv, AgentsInv, Handling
<1>8. TodoInv'
  <2>1. \A t \in todo : t.agent \in Agents
    BY DEF DInv, IInv, TypeOK, WorkerTypeOK, Pending
  <2> QED
    BY <1>2, <1>3, <2>1 DEF DInv, TodoInv, ToSweep, Columns
<1>9. EventsInv'
  <2>1. \A d \in dies : d.agent \in Agents
    BY DEF DInv, IInv, TypeOK, PlatformTypeOK, Death
  <2> QED
    BY <1>2, <2>1 DEF DInv, EventsInv, Expected
<1> QED
  BY <1>4, <1>7, <1>8, <1>9 DEF DInv

\* The API: new rows, secrets, starts and stops.
LEMMA ApiDeploys ==
  ASSUME DeployAndStop, DInv, IInv', ApiStep, UNCHANGED <<workerVars, healthVars>>
  PROVE  DInv'
<1>0. row \in [Agents -> Row] /\ UNCHANGED <<route, box, dies>>
  BY DEF DInv, IInv, TypeOK, PlatformTypeOK, ApiStep, FinishCall, docker
<1>1. CASE NewRequest /\ UNCHANGED alloc
  <2>1. PICK a \in Agents : CreateRow(a) \/ Control(a, "start") \/ Control(a, "stop")
    BY <1>1 DEF NewRequest, DeleteRead, UpdateRequest, Request, DeployAndStop
  <2>2. CASE CreateRow(a)
    <3>1. SetStatus(a, "queued") /\ row[a].status = "unborn"
      BY <2>2 DEF CreateRow, SetStatus, Oldest, WithStatus
    <3>2. CallsInv'
      BY <2>2 DEF CreateRow, NewCall, DInv, CallsInv
    <3> QED
      BY <1>0, <1>1, <3>1, <3>2, StatusSet, BesideDeploys DEF Columns
  <2>3. CASE Control(a, "start") \/ Control(a, "stop")
    <3>1. PICK s \in {"queued", "stopped"} : SetStatus(a, s)
      BY <2>3 DEF Control, ACTION_TO_STATUS
    <3>2. Exists(a) /\ CallsInv'
      BY <2>3 DEF Control, DInv, CallsInv
    <3> QED
      BY <1>0, <1>1, <3>1, <3>2, StatusSet, BesideDeploys DEF Columns
  <2> QED
    BY <2>1, <2>2, <2>3
<1>2. CASE FinishCall
  <2>1. PICK c \in calls : WriteSecret(c) /\ UNCHANGED alloc
    BY <1>2 DEF FinishCall, UpdateCheck, UpdateWrite, DeleteMarks, DeletePurges,
       DInv, CallsInv
  <2>2. c.agent \in Agents
    BY DEF DInv, IInv, TypeOK, ApiTypeOK, Call
  <2>3. \A a \in Agents : Columns(a) /\ row'[a].status = row[a].status
    <3>1. CASE UNCHANGED row
      BY <3>1 DEF Columns
    <3>2. CASE row' = [row EXCEPT ![c.agent].secretBlob = TRUE]
      <4>1. row'[c.agent] = [row[c.agent] EXCEPT !.secretBlob = TRUE]
            /\ \A a \in Agents \ {c.agent} : row'[a] = row[a]
        BY <1>0, <2>2, <3>2
      <4> QED
        BY <1>0, <2>2, <4>1 DEF Columns, Row
    <3> QED
      BY <2>1, <3>1, <3>2 DEF WriteSecret
  <2>4. CallsInv'
    BY <2>1 DEF WriteSecret, End, DInv, CallsInv
  <2> QED
    BY <1>0, <2>1, <2>3, <2>4, BesideDeploys
<1> QED
  BY <1>1, <1>2 DEF ApiStep

\* The health loop toggles running and unhealthy.
LEMMA HealthDeploys ==
  ASSUME DInv, IInv', HealthStep, UNCHANGED <<workerVars, apiVars>>
  PROVE  DInv'
<1>0. UNCHANGED <<alloc, route, box, dies>> /\ CallsInv'
  BY DEF HealthStep, docker, apiVars, DInv, CallsInv
<1>1. CASE UNCHANGED row
  BY <1>0, <1>1, BesideDeploys DEF Columns
<1>2. CASE \E a \in Agents, s \in {"running", "unhealthy"} :
              row[a].status \in {"running", "unhealthy"} /\ SetStatus(a, s)
  BY <1>0, <1>2, StatusSet, BesideDeploys DEF Columns
<1> QED
  <2>1. \A t \in probes : t.agent \in Agents
    BY DEF DInv, IInv, TypeOK, HealthTypeOK, Probe
  <2> QED
    BY <1>1, <1>2, <2>1 DEF HealthStep, ProbeAllFind, ProbeSucceeds, ProbeFails,
       MarkUnhealthy, Recover, Toggle

\* The crash watcher reads a status that tells it to leave the agent alone.
LEMMA WatcherDeploys ==
  ASSUME DInv, IInv', WatcherStep, UNCHANGED <<workerVars, apiVars, healthVars>>
  PROVE  DInv'
<1>1. PICK d \in dies : /\ Expected(d) /\ d.agent \in Agents
                        /\ \/ CrashRead(d) \/ CrashMark(d) \/ CrashLog(d)
                           \/ CrashRelease(d) \/ CrashSweep(d)
  BY DEF WatcherStep, DInv, EventsInv, IInv, TypeOK, PlatformTypeOK, Death
<1>2. CrashRead(d)
  BY <1>1 DEF Expected, CrashMark, CrashLog, CrashRelease, CrashSweep
<1>3. row[d.agent].status \in NoRow \cup SKIP_STATUSES
  <2>1. CASE Handling(d.agent)
    BY <1>1, <2>1 DEF DInv, AgentsInv, Stage, StatusStage, SKIP_STATUSES
  <2>2. CASE ~Handling(d.agent)
    BY <1>1, <2>2 DEF DInv, AgentsInv, Resting, Expected, SKIP_STATUSES, NoRow
  <2> QED
    BY <2>1, <2>2
<1>4. Finish(d)
  BY <1>2, <1>3 DEF CrashRead, Exists
<1>5. /\ dies' \subseteq dies /\ UNCHANGED <<row, alloc, route, box>> /\ CallsInv'
  BY <1>2, <1>4 DEF Finish, CrashRead, WatcherStep, apiVars, DInv, CallsInv
<1> QED
  BY <1>5, BesideDeploys DEF Columns

\* No container ever exits, so the daemon has nothing to do.
LEMMA DaemonIdle ==
  ASSUME DeployAndStop, DInv
  PROVE  ~DaemonStep
<1>1. ASSUME NEW a \in Agents PROVE ~ContainerDies(a)
  BY DEF ContainerDies, DeployAndStop, DInv, IInv, TypeOK, PlatformTypeOK
<1>2. ASSUME NEW a \in Agents, Has(a) PROVE box[a].state # "exited"
  <2>1. CASE Handling(a)
    <3>1. pc \in Driving \cup Sweeping /\ Stage(a)
      BY <2>1, AllRest DEF DInv, WorkerInv, AgentsInv
    <3> QED
      BY <1>2, <3>1 DEF Stage, TeardownStage, BuildStage, CleanupStage, SweepStage,
         Settled, Empty, Served, Clean, Vacant, Started, IsUp, Driving, Sweeping, Cleaning
  <2>2. CASE ~Handling(a)
    BY <1>2, <2>2 DEF DInv, AgentsInv, Resting, Settled, Empty, Served, Clean, IsUp
  <2> QED
    BY <2>1, <2>2
<1> QED
  BY <1>1, <1>2 DEF DaemonStep, ContainerRestarts

-----------------------------------------------------------------------------
(* The theorems *)

\* Nothing is deployed at first.
LEMMA DeployInit == Init => DInv
<1> SUFFICES ASSUME Init PROVE DInv
  OBVIOUS
<1>1. IInv
  BY InitHolds
<1>2. pc = "queue" /\ job = Idle /\ todo = {} /\ dies = {} /\ calls = {}
  BY DEF Init, WorkerInit, PlatformInit, ApiInit
<1>3. ASSUME NEW a \in Agents PROVE ~Handling(a) /\ Resting(a)
  <2>1. Empty(a) /\ row[a].status = "unborn"
    BY PlatformAssumption DEF Init, PlatformInit, UnbornRow, Empty, Clean, Blank, Has, OwnedBy
  <2> QED
    BY <1>2, <2>1, PlatformAssumption DEF Handling, Idle, Resting, Settled
<1> QED
  BY <1>1, <1>2, <1>3 DEF DInv, WorkerInv, AgentsInv, TodoInv, EventsInv, CallsInv, Roaming,
     Driving, Sweeping, Cleaning

\* Every step of the worker, of a request and of Docker keeps the invariant.
LEMMA DeployStep ==
  ASSUME DeployAndStop, DInv, [Next]_vars
  PROVE  DInv'
<1>0. IInv'
  BY StepHolds DEF DInv
<1>1. CASE WorkerStep /\ Timely /\ UNCHANGED <<apiVars, healthVars>>
  BY <1>0, <1>1, WorkerDeploys
<1>2. CASE Interrupted
  BY <1>2 DEF Interrupted, Interruption, WorkerCrash, HostReboot, DeployAndStop,
     DInv, IInv, TypeOK, WorkerTypeOK
<1>3. CASE WatcherStep /\ UNCHANGED <<workerVars, apiVars, healthVars>>
  BY <1>0, <1>3, WatcherDeploys
<1>4. CASE DaemonStep
  BY <1>4, DaemonIdle
<1>5. CASE ApiStep /\ UNCHANGED <<workerVars, healthVars>>
  BY <1>0, <1>5, ApiDeploys
<1>6. CASE HealthStep /\ UNCHANGED <<workerVars, apiVars>>
  BY <1>0, <1>6, HealthDeploys
<1>7. CASE UNCHANGED vars
  <2>1. UNCHANGED <<workerVars, alloc, route, box, dies, row, calls>>
    BY <1>7 DEF vars, platform, apiVars
  <2>2. CallsInv'
    BY <2>1 DEF DInv, CallsInv
  <2> QED
    BY <1>0, <2>1, <2>2, BesideDeploys DEF Columns
<1> QED
  BY <1>1, <1>2, <1>3, <1>4, <1>5, <1>6, <1>7 DEF Next

\* The inductive invariant holds in every reachable state of a system that
\* deploys, restarts and stops.
THEOREM DeployInvariance == DeployAndStop => (Spec => []DInv)
<1>1. DeployAndStop /\ DInv /\ [Next]_vars => DInv'
  BY DeployStep
<1>2. DeployAndStop => DeployAndStop'
  BY DEF DeployAndStop
<1> QED
  BY DeployInit, <1>1, <1>2, PTL DEF Spec

\* A container exists only where the worker is at work or the row names it.
THEOREM NoStray == DeployAndStop => (Spec => []NoStrayContainer)
<1>1. DInv => NoStrayContainer
  BY DEF DInv, AgentsInv, Resting, Settled, Empty, Clean, Served, NoStrayContainer, IsBox, IsUp
<1> QED
  BY DeployInvariance, <1>1, PTL

\* The two tables agree on the ports of every agent that is not at work.
THEOREM PortsAgree == DeployAndStop => (Spec => []PortsAccounted)
<1>1. ASSUME DInv, NEW a \in Agents, ~Handling(a)
      PROVE  OwnedBy(a) = {row[a].apiPort, row[a].dashboardPort} \ {None}
  <2>1. Settled(a)
    BY <1>1 DEF DInv, AgentsInv, Resting
  <2>2. CASE Empty(a)
    BY <2>2 DEF Empty, Clean, Blank
  <2>3. CASE Served(a)
    <3>1. box[a].api # None /\ box[a].dash # None
      BY <1>1, <2>3, Typed DEF Served, IsUp, Has, Container
    <3> QED
      BY <2>3, <3>1 DEF Served, BoxPorts
  <2> QED
    BY <2>1, <2>2, <2>3 DEF Settled
<1>2. DInv => PortsAccounted
  BY <1>1 DEF PortsAccounted
<1> QED
  BY DeployInvariance, <1>2, PTL

\* A running agent is served at its public host by its own container.
THEOREM RunningServed == DeployAndStop => (Spec => []RunningIsServed)
<1>1. DInv => RunningIsServed
  BY DEF DInv, AgentsInv, Resting, RunningIsServed, WithStatus
<1> QED
  BY DeployInvariance, <1>1, PTL

\* A failed deployment leaves nothing behind, whichever step it failed at.
THEOREM FailureCleans == DeployAndStop => (Spec => []FailedIsClean)
<1>1. DInv => FailedIsClean
  <2> SUFFICES ASSUME DInv, pc = "queue", NEW a \in Agents, row[a].status = "failed"
               PROVE  Clean(a)
    BY DEF FailedIsClean, Quiet, WithStatus
  <2>1. Resting(a)
    BY AllRest DEF Roaming
  <2> QED
    BY <2>1 DEF Resting, Empty
<1> QED
  BY DeployInvariance, <1>1, PTL

\* A stop leaves nothing behind, in whatever state it finds the agent.
THEOREM StopCleans == DeployAndStop => (Spec => []StoppedIsClean)
<1>1. DInv => StoppedIsClean
  <2> SUFFICES ASSUME DInv, pc = "queue", Stopped = {},
                      NEW a \in Agents, row[a].status = "stopped"
               PROVE  Clean(a)
    BY DEF StoppedIsClean, Quiet, WithStatus
  <2>1. Settled(a) /\ row[a].containerId = None
    BY AllRest DEF Roaming, Resting, Stopped, WithStatus
  <2>2. ~Served(a)
    BY <2>1, Typed DEF Served, IsUp, Has, Container
  <2> QED
    BY <2>1, <2>2 DEF Settled, Empty
<1> QED
  BY DeployInvariance, <1>1, PTL

\* A container that is up holds the ports that it binds.
THEOREM UpHolds == DeployAndStop => (Spec => []UpBoxHoldsPorts)
<1>1. DInv => UpBoxHoldsPorts
  BY UpOwns DEF UpBoxHoldsPorts
<1> QED
  BY DeployInvariance, <1>1, PTL

\* No public host ever leads to another agent's container.
THEOREM RoutesHome == DeployAndStop => (Spec => []RouteLeadsHome)
<1>1. ASSUME DInv, NEW a \in Agents PROVE Leads(a)
  <2>1. CASE Handling(a)
    <3>1. pc \in Driving \cup Sweeping /\ Stage(a)
      BY <1>1, <2>1, AllRest DEF DInv, WorkerInv, AgentsInv
    <3> QED
      BY <3>1, Typed DEF Stage, TeardownStage, BuildStage, CleanupStage, SweepStage,
         Settled, Empty, Served, Clean, Vacant, Held, Equipped, Leads, BoxPorts,
         Driving, Sweeping, Cleaning
  <2>2. CASE ~Handling(a)
    BY <1>1, <2>2 DEF DInv, AgentsInv, Resting, Settled, Empty, Served, Clean, Leads, BoxPorts
  <2> QED
    BY <2>1, <2>2
<1>2. DInv => RouteLeadsHome
  <2> SUFFICES ASSUME DInv, NEW a \in Agents, NEW b \in Agents, a # b,
                      route[a] # None, IsUp(b), route[a] \in BoxPorts(b)
               PROVE  FALSE
    BY DEF RouteLeadsHome
  <2>1. route[a] \in OwnedBy(a) /\ route[a] \in OwnedBy(b)
    BY <1>1, UpOwns DEF Leads
  <2> QED
    BY <2>1 DEF OwnedBy
<1> QED
  BY DeployInvariance, <1>2, PTL
=============================================================================
