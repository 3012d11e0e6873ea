------------------------------ MODULE Platform ------------------------------
(***************************************************************************)
(* The state that the parts of the Hermes deployer share, and the calls    *)
(* they make on it: the Agent and PortAllocation tables (Prisma), the      *)
(* Docker daemon's per-agent containers, and the routes that the worker    *)
(* injects into Caddy.  Every other module EXTENDS this one.               *)
(*                                                                         *)
(* Agents are numbers in order of creation, so "oldest first" is "least    *)
(* number first".  A container is found by its agent, because the worker   *)
(* names it hermes-<agentId> and Docker keeps names unique; its id is a    *)
(* number that grows with every container created for that agent.          *)
(***************************************************************************)
EXTENDS Naturals, FiniteSets

CONSTANTS
    Agents,       \* the agents that can be created, numbered by creation
    Ports,        \* config.portMin .. config.portMax
    Versions,     \* Hermes versions (image tags)
    BaseVersion,  \* the version of config.hermesImage
    None,         \* a NULL column, an absent container or route
    Faults,       \* the external failures that may happen, see FaultKinds
    MaxDeaths     \* bound on containers dying of their own accord

\* What can fail outside the program: the host data directory, creating a
\* container or the agents' network, starting a created container, a health probe, the Caddy admin API while adding or
\* while removing a route, the Docker API while stopping, the image pull.
FaultKinds ==
    {"prepare", "create", "start", "health", "route", "unroute", "remove", "pull"}

Pipeline ==
    {"allocating_ports", "starting", "health_checking", "registering_route"}

ACTIVE_STATUSES == Pipeline \cup {"queued", "running", "unhealthy", "updating"}

NoRow == {"unborn", "gone"}

Statuses ==
    ACTIVE_STATUSES \cup NoRow \cup {"failed", "stopped", "crashed", "deleting"}

IdOrNone      == Nat \cup {None}
PortOrNone    == Ports \cup {None}
VersionOrNone == Versions \cup {None}

\* The columns of model Agent that steer the worker.
Row == [status        : Statuses,
        secretBlob    : BOOLEAN,
        containerId   : IdOrNone,
        apiPort       : PortOrNone,
        dashboardPort : PortOrNone,
        hermesVersion : VersionOrNone,
        target        : VersionOrNone]

\* A container as the daemon keeps it; boot counts its starts, so that two
\* deaths of one container are two events.  A container that exited by itself
\* is restarted, one that was stopped or never started is not.
Container == [id : Nat, state : {"created", "up", "exited", "stopped"}, boot : Nat,
              api : Ports, dash : Ports, image : Versions]

\* A `die` event of a container, and how far its handler has come.
Death == [agent : Agents, id : Nat, boot : Nat,
          at : {"event", "mark", "log", "release", "sweep"}]

ASSUME PlatformAssumption ==
    /\ Agents \subseteq Nat
    /\ Ports \subseteq Nat
    /\ BaseVersion \in Versions
    /\ Faults \subseteq FaultKinds
    /\ MaxDeaths \in Nat
    /\ None \notin Nat \cup Versions \cup Container

VARIABLES
    row,       \* the Agent table
    alloc,     \* the PortAllocation table: the agent each port is given to
    route,     \* Caddy: the port that the agent's public host leads to
    box,       \* Docker: the container named hermes-<agentId>
    gen,       \* the number of containers created for each agent so far
    dies,      \* die events on their way to, or in, the crash watcher
    attached,  \* the crash watcher listens to the Docker event stream
    deaths     \* containers that died of their own accord so far

tables == <<row, alloc>>
docker == <<box, gen, dies, attached, deaths>>
platform == <<row, alloc, route, box, gen, dies, attached, deaths>>

PlatformTypeOK ==
    /\ row \in [Agents -> Row]
    /\ alloc \in [Ports -> Agents \cup {None}]
    /\ route \in [Agents -> PortOrNone]
    /\ box \in [Agents -> Container \cup {None}]
    /\ gen \in [Agents -> Nat]
    /\ dies \in SUBSET Death
    /\ attached \in BOOLEAN
    /\ deaths \in Nat

UnbornRow ==
    [status |-> "unborn", secretBlob |-> FALSE, containerId |-> None,
     apiPort |-> None, dashboardPort |-> None,
     hermesVersion |-> None, target |-> None]

PlatformInit ==
    /\ row = [a \in Agents |-> UnbornRow]
    /\ alloc = [p \in Ports |-> None]
    /\ route = [a \in Agents |-> None]
    /\ box = [a \in Agents |-> None]
    /\ gen = [a \in Agents |-> 0]
    /\ dies = {}
    /\ attached = TRUE
    /\ deaths = 0

-----------------------------------------------------------------------------
(* The Agent table. *)

Exists(a) == row[a].status \notin NoRow

WithStatus(s) == {a \in Agents : row[a].status = s}

Oldest(a, S) == a \in S /\ \A b \in S : a <= b

SetStatus(a, s) == row' = [row EXCEPT ![a].status = s]

\* The row after its container and port columns are set to NULL.
Cleared(r) == [r EXCEPT !.containerId = None, !.apiPort = None,
                        !.dashboardPort = None]

-----------------------------------------------------------------------------
(* The PortAllocation table. *)

Free(p) == alloc[p] = None

\* The port allocatePort returns when nobody else allocates meanwhile: the
\* first of the range that has no row.
LowestFree(p) == Free(p) /\ \A q \in Ports : q < p => ~Free(q)

OwnedBy(a) == {p \in Ports : alloc[p] = a}

\* Mutant of ReleasePort: forgets that an agent owns two rows.
ReleaseApiPortOnly(a) ==
    alloc' = [p \in Ports |-> IF p = row[a].apiPort THEN None ELSE alloc[p]]

ReleasePort(a) ==
    alloc' = [p \in Ports |-> IF alloc[p] = a THEN None ELSE alloc[p]]

-----------------------------------------------------------------------------
(* Caddy. *)

AddRoute(a, p) == route' = [route EXCEPT ![a] = p]

\* Mutant of RemoveRoute: the route survives.
KeepRoute(a) == UNCHANGED route

\* removeRoute; every caller swallows its failure and goes on.
RemoveRoute(a) ==
    \/ route' = [route EXCEPT ![a] = None]
    \/ "unroute" \in Faults /\ UNCHANGED route

-----------------------------------------------------------------------------
(* Docker. *)

Has(a)     == box[a] # None
IsBox(a, i) == Has(a) /\ box[a].id = i
IsUp(a)    == Has(a) /\ box[a].state = "up"
BoxPorts(a) == {box[a].api, box[a].dash}
Bound(p)   == \E b \in Agents : IsUp(b) /\ p \in BoxPorts(b)

\* The event that the daemon sends when the agent's container stops being up.
DieEvent(a) ==
    IF attached /\ IsUp(a)
    THEN {[agent |-> a, id |-> box[a].id, boot |-> box[a].boot, at |-> "event"]}
    ELSE {}

\* stopAndRemove swallows every error: an id that no longer exists, a stop
\* without the removal and a daemon that does not answer all look like success
\* to the caller.
StopAndRemove(a, i, pending) ==
    \/ /\ IsBox(a, i)
       /\ \/ box' = [box EXCEPT ![a] = None]
          \/ "remove" \in Faults /\ box' = [box EXCEPT ![a].state = "stopped"]
       /\ dies' = pending \cup DieEvent(a)
    \/ /\ ~IsBox(a, i) \/ "remove" \in Faults
       /\ box' = box
       /\ dies' = pending

\* The daemon itself: a container dies, and RestartPolicy unless-stopped
\* brings it back once its host ports can be bound.
ContainerDies(a) ==
    /\ deaths < MaxDeaths
    /\ IsUp(a)
    /\ box' = [box EXCEPT ![a].state = "exited"]
    /\ dies' = dies \cup DieEvent(a)
    /\ deaths' = deaths + 1
    /\ UNCHANGED <<row, alloc, route, gen, attached>>

ContainerRestarts(a) ==
    /\ Has(a)
    /\ box[a].state = "exited"
    /\ \A p \in BoxPorts(a) : ~Bound(p)
    /\ box' = [box EXCEPT ![a].state = "up", ![a].boot = @ + 1]
    /\ UNCHANGED <<row, alloc, route, gen, dies, attached, deaths>>

DaemonStep == \E a \in Agents : ContainerDies(a) \/ ContainerRestarts(a)

\* A reboot of the host stops every container; ContainerRestarts then brings
\* back the ones that had been started, in any order.
BoxAfterReboot(b) ==
    IF b # None /\ b.state = "up"
    THEN [b EXCEPT !.state = "exited"]
    ELSE b
=============================================================================
