# Hermes deployer: a TLA+ verification project

This directory holds TLA+ models of the Hermes deployer, the configurations
that check them with TLC, and proofs checked by TLAPS. Paths below are relative
to the repository root; `PROJECT.json` names for every definition the lines it
models, for every property the mutation of the code that breaks it, and for
every hazard its place in the code.

## 1. The system

A web application lets owners create, start, stop, update and delete *agents*.
It only writes intent into Postgres. One worker process per host reads that
intent and turns it into a Docker container, two host ports and a Caddy route
per agent. The parts never call each other: they meet in the rows of the table
`Agent`, which all of them write without a common transaction or lock.

```text
 owner -> web app --(Agent rows)--> Postgres <--(Agent, PortAllocation)-- worker
                                                                    |- tick loop
    Docker daemon --(die events)-----------------> crash watcher ---|
         ^  containers, host ports                                  |- health loop
         '------------------------------------------------- drive / updateAgent
                                      Caddy <-(admin API: routes)---'
```

| Component | Source | State it keeps | Operations | What makes it correct |
|---|---|---|---|---|
| Worker tick and lifecycle | `packages/deployer-worker/bin/main.ts`, `src/lifecycle.ts` | the job under way, local variables (ports, container id, `routeAdded`) | claim and drive a queued agent, update, sweep stopped and deleted ones, restore routes at start-up | row, container, ports and route agree between jobs; failures leave nothing; every job ends |
| Port allocator | `src/ports.ts` | table `PortAllocation` | allocate, release | one owner per port; races never hand out a port twice |
| Crash watcher | `src/crash.ts` | the event handlers under way | mark crashed, log, release ports, remove the container | crashes are noticed, redeployments are not taken for crashes |
| Health loop | `src/health.ts` | failure counters in memory | probe, mark unhealthy, recover | dead agents are noticed, false alarms end |
| Agent API | `apps/web/src/app/api/agents/**` | handlers between two awaits | create, start/stop/restart, delete, update | intent is neither lost nor applied to an agent that cannot take it |
| Docker driver | `src/docker.ts` | containers at the daemon | create and start, stop and remove, health check, pull | (external behaviour, see 5) |
| Caddy registry | `src/caddy.ts` | the route array in Caddy's memory | add, remove, bootstrap | a host leads to its own agent |
| Log tailers | `src/logs.ts` | tailer per agent, line counters | follow, system lines | line numbers stay unique, the tailer follows the current container |
| Deploy events, WebSocket | `src/events.ts`, `src/ws.ts` | subscribers, step ring | emit, replay, subscribe | a session sees every step and the end |
| Owner shell | `src/shell.ts` | toolbox container per session | open, relay, close | no toolbox survives its session |
| Tokens, dashboard gate | `src/ws-auth.ts`, `src/dashboard-gate.ts`, `apps/web/src/lib/ws-token.ts` | none | mint, verify | a token opens its own agent only, until it expires |
| ZYND connection | `api/agents/[id]/zynd/*` | OAuth state | connect, callback (stores a token, re-queues the agent) | does not undo what the owner did meanwhile |
| Telegram gateway | `packages/telegram-gateway` | token and link files, poll offset | mint and consume tokens, dispatch updates | tokens are used once; messages are handled once |
| Provisioner | `packages/provisioner` | AWS resources, agent store | provision with rollback, teardown | a failure leaves no resource |
| Retention, metrics | `src/retention.ts`, `src/metrics.ts` | none | prune, sample | a sweep must not disturb the line numbers |
| Deployment view | `apps/web/src/components/useDeploySocket.ts` | the reduced state of one tab, its polls under way | mount, reduce a frame, poll | a settled agent's view ends, and none ends early |

`controlAgent` in `lifecycle.ts` is exported but nothing calls it; it is not
part of the model.

Around this core stand four parts that meet it only in a row, a file or a
container. The *deployment view* of the browser hears the worker's frames over
a WebSocket and polls the row besides. The *owner's shell* attaches a toolbox
container to a socket. The *Telegram gateway* is a process of its own that shares
two files with the web application. The *provisioner* is the other way to run an
agent: one ECS task per tenant on AWS, or one local container, created and torn
down call by call with a record in a file, in DynamoDB or in Supabase.

What is hard here is interleaving. `drive` awaits about twenty times between
its first read and its last write; API requests, several crash handlers, health
probes and the daemon act between any two of these awaits; the process or host
may end at any of them; and most of the external calls swallow their errors.
`PROJECT.json` lists each such place under `hazards`.

## 2. Modules

| Module | Models | State and actions |
|---|---|---|
| `Platform` | the shared tables, containers, routes, and the calls made on them | `row` is `Agent`, `alloc` is `PortAllocation`, `route` is Caddy, `box` Docker's containers, `dies` the die events under way, `attached` whether the watcher listens. `StopAndRemove`, `ReleasePort`, `AddRoute`, `RemoveRoute` are the functions of the same name; `ContainerDies` and `ContainerRestarts` are the daemon |
| `Worker` | `main.ts` and `lifecycle.ts` | `pc` is the await the single thread stands at, `job` the local variables of `drive` or `updateAgent`, `todo` the rows that a sweep's `findMany` returned. One action per await that touches shared state |
| `ControlApi` | the agent routes of the web application | `calls` are handlers between their read and their write; `CreateRow`/`WriteSecret`, `Control`, `DeleteRead`/`DeleteMarks`/`DeletePurges`, `UpdateRequest`/`UpdateCheck`/`UpdateWrite` |
| `CrashWatcher` | `watchCrashes` | each event of `dies` goes through `CrashRead`, `CrashMark`, `CrashLog`, `CrashRelease`, `CrashSweep`, interleaved with everything else |
| `HealthLoop` | `probeAll` and its interval | `probes` is the round under way, `failCounts` the counters |
| `HermesDeployer` | their composition, and the properties | `Next` interleaves the above; `Spec`, and `LiveSpec` with fairness |
| `MCHermesDeployer` | instances for TLC | `RunningSpec` starts from the state after an undisturbed deployment of every agent (`deploy` reaches the same state from the empty one) |
| `PortPool` | the abstract contract of `PortAllocation` | a port goes from nobody to one agent and back |
| `PortAllocator` | `allocatePort` with concurrent callers | the read, each attempt of the loop, the unique key, the throw, the release |
| `DeployFeed` | the frames of `drive`, `updateAgent` and `failDeployment`, the bus of `events.ts`, the status sessions of `ws.ts` | `job` is the place in `Script`, which lists what a job writes and emits in order; `ring` is `stepHistory`; `socket`, `wire` and `sent` belong to a tab's session. `Emit` and `EmitDone` are the functions of the same name, `Lookup`/`Attach` the two halves of `handleSession` around its await, `Drop` a lost connection |
| `DeployView` | `useDeploySocket` on top of the feed | `view` is `DeployState`; `polls` are requests of the interval timer, which does not wait for the last answer; `Mount`, `OnMessage`, `PollAsk`/`PollRead`/`PollReturn`/`PollFails` |
| `ShellSession` | `handleShellSession`, `runToolboxContainer` | `stage` is the await a session stands at, `held` is `toolboxId`, `removals` the calls of `stopAndRemove` under way; the event handlers of stream and socket, and the daemon that removes an `AutoRemove` container |
| `AgentLog` | `logs.ts`, the calls around it, the log sweep of `retention.ts` | `active` is the map of tailers, `tailer` the state object and stream of each; `StartTailer`/`Enter`/`Follow` are the awaits of `startTailer`, `WriteLine`/`Persist` the line that is numbered and the insert that nobody waits for |
| `TelegramGateway` | `bin/gateway.ts`, `dispatch.ts`, `connect-tokens.ts`, `link-store.ts` and the web application's minting | `tokens` and `links` are the files, `minting` and `seen` what each process has read of the first, `offset`, `next`, `last` and `msg` the polling loop, `updates` and `confirmed` Telegram's queue |
| `Provisioner` | `provisionAgent`, `teardownAgent`, `updateAwsAgent`, local control, the stores, and the web library's use of them | `cloud` holds what exists and what it was made of, `holder` which task has got an address last, `targets` the addresses registered in a target group, `ip` the address that a call has resolved, `store` the records, `call` what each process has made or read, with its rollback stack. One action per AWS, Docker or store call; `CreateSteps`, `TeardownSteps` and `UpdateSteps` are the orders of the code |
| `MCDeployView`, `MCTelegramGateway`, `MCProvisioner` | instances for TLC | two stages of a deployment; names and priorities that do not collide |
| `PortAllocatorProofs`, `HermesDeployerProofs`, `DeploymentProofs`, `LifecycleProofs`, `DeployViewProofs`, `TelegramGatewayProofs`, `ShellSessionProofs`, `ProvisionerProofs` | theorems | see 4 |

`HermesDeployer` extends the component modules, because the components share
the tables; `PortPool` is instantiated with `owner <- alloc` by both
`HermesDeployer` and `PortAllocator`, each of which is shown to implement it.
`DeployView` extends `DeployFeed`: a tab's session and its view are composed
with the worker's job and the row. `AgentLog` and `DeployFeed` reduce the life of
the agent to the writes that matter to them, each taken from the same lines of
`lifecycle.ts` that `Worker` models in full. Operators named as mutants in their comments are plausible bugs; each is used
only to see that a property notices it.

### How data is abstracted

- Agents are numbers in creation order, so `orderBy createdAt asc` is "least
  number first". A container id is a number that grows per agent. Versions and
  ports are small sets of numbers.
- A row has the columns that some guard reads: status, container id, both
  ports, both versions, and whether the secret is there. Rows that were never
  inserted or are deleted have the statuses `unborn` and `gone`.
- A frame is its type, its status and its state; a log line is its number and
  its source; an update of Telegram is a chat and the kind of command. Wording,
  bytes and URLs are left out.
- A resource of the provisioner is its kind, an id, its tenant, and the ids of
  what it was made of. Ids are never reused. Addresses are: a task behind the
  balancer gets any address whose last holder is gone, and a target group holds
  addresses, not tasks.
- Tokens of the shell and of the gateway are what checking them yields: valid
  or not, for whom, until when.
- The gate, WebSocket and container routes of one agent are one route.

### What can fail

`Faults` selects external failures per run: `prepare` (the host directory),
`create` (Docker creates no container), `start` (a created container does not start), `health`, `route` and `unroute`
(the Caddy admin API), `remove` (Docker refuses to stop or to remove) and `pull`. Containers
die by themselves (`MaxDeaths`), the worker exits (`MaxCrashes`), the host
reboots (`MaxReboots`). In the other modules: connections drop, polls and
lookups fail, steps of a job fail (`MaxFaults`, `Fragile` of `DeployView`); calls
to Telegram and to an agent fail and the gateway exits (`MaxFaults` of
`TelegramGateway`); every step of a session fails (`ShellSession`); every call of
the provisioner fails, some after half of their work, and its process is killed
(`Faults` of `Provisioner`); a rollback's own failures are three faults, `unwire`
(`removeAlbWiring`), `undoTask` (`stopTask`) and `undo` (the other deletions). Tasks
exit by themselves in the runtimes of `Mortal`. Not modelled: failures of Postgres
itself (the `catch` at `ports.ts:23` takes any error of the insert for a taken
port), failures of `writeSecret`, partial effects inside one Docker or Caddy call.
Every image tag of the models is a release: the guard at `lifecycle.ts:462` that
shows no other tag as a version is left out.

Three simplifications of timing are assumptions, not consequences of the code:

- A health round starts when the previous one is over (interval at least five
  seconds, probe deadline two by default), and the loop runs while the watcher
  is attached.
- `die` and `oom` of one death are one event, because the second handler finds
  the row in a status that it skips.
- `WatcherKeepsUp`: in the runs that set it, the worker's health check, which
  lasts seconds, does not return while a die event that the teardown of the
  same agent caused is still unread. Without it the watcher may take the old
  container's death for a crash of the new deployment. `crash` and `live` do
  without it.

## 3. What TLC checks

Passing runs:

| Run | Bounds | Shows |
|---|---|---|
| `deploy` | 2 agents, 3 ports, faults `prepare`, `create`, `health`, `route`, 4 start or stop requests | `NoStrayContainer`, `PortsAccounted`, `RunningIsServed`, `FailedIsClean`, `StoppedIsClean`, `UpBoxHoldsPorts`, `RouteLeadsHome`; the table implements `PortPool` |
| `crash` | 2 running agents, 4 ports, 2 deaths, 4 deletes or stops, the watcher may lag | `CrashedIsSwept`, and `GoneIsClean` for agents that were up |
| `update` | 1 running agent, 2 versions, pulls fail, 4 updates or stops | `RunningIsServed`, `VersionShown` |
| `reboot` | 1 agent, 2 reboots, 1 worker exit, 1 death, 2 requests | `RunningIsRouted` |
| `live` | 1 agent, every fault, 1 death, 2 requests of any kind, the watcher may lag | `TypeOK`, `GoneStaysGone`, and that jobs end: `DeploySettles`, `StopDrains`, `DeleteDrains`, `UpdateSettles`, `TicksGoOn` |
| `notice` | 1 running agent, 2 deaths, 1 worker exit, 1 reboot, 1 restart, health loop on | `DeadIsNoticed`, `FalseAlarmEnds` |
| `pa_race` | 2 callers, 4 ports, releases at any time | `GotIsOwned`, `HoldsTwo`, `AllocationReturns`, `PortPool` |
| `view` | 1 tab with 1 poll under way, 2 stages, 1 request or crash of the container, 1 fault | `SubscriberHoldsRing`, `NoFalseEnd`, `ViewSettles` |
| `shell` | 2 sessions, every outcome of every step | `NoToolboxForgotten`, `EndsTogether` |
| `gateway` | 2 chats, 2 tenants, 2 tokens, 2 updates, 1 fault, a clock of two instants | `NoUpdateSkipped`, `LinkedByValidToken`, `RelayIsLinked`, `UpdateHandled` |
| `provision` | 2 tenants, 1 process, the 3 deployments with each of their stores, 2 addresses, tasks that exit by themselves without the balancer, every fault but `rule`, `target`, `unwire` and `undoTask`, 5 calls, faults and exits together | `TypeOK`, `NothingForgotten`, `NothingPulledAway`, `HostLeadsHome`, `DataGoOnPurpose` |

What they have found to hold, in words:

- A session that attaches at any moment, between any two frames and after any
  write of the row, has been sent exactly the ring: `handleSession` greets,
  replays and subscribes without an await in between, which is what makes it so.
  A tab shows an end only if there was one, because `emitDone` fans out and clears
  the ring in one go, and no session primes itself in between; and the poll alone brings every view of a settled agent to
  its end.
- Whatever ends first, a toolbox that exists is being created, held for a close
  handler that is still to run, or being removed. Once attached, socket, stream
  and container end together.
- An exit of the gateway repeats updates and never skips one, because the offset
  lives in memory and is told to Telegram by the next poll only. Two processes
  that overwrite one token file do not make a link that nobody asked for: what
  either writes was minted, and `consume` prunes before it looks.
- What the provisioner made is always recorded, in a call's hand, on its way
  out, or given up in one of the places that the comment of `NothingForgotten`
  lists. Those are places where the code does forget: a failed update is one of
  them (`update-aws.ts:176-198` undoes nothing, so the new task definition and,
  from the third step on, a new task remain that no record names), and so is a
  `docker run` that creates a container and cannot start it. As long as no
  `stopTask` of a rollback fails, no rollback, teardown or update takes the
  secret, the group or the data from under a task that runs on them.
- A verdict of the health loop may hit a row that was redeployed since its probe
  began. It does not last, because rows that are unhealthy are probed as well.

Why the bounds suffice: four requests cover every pair of requests between any
two awaits of a job, and two more that find the consequences. Two agents on
three ports are one port short, so the second agent also meets an exhausted
range and a half-finished allocation, and ports change hands between agents;
one agent on three ports gets other ports on its next deployment. Two versions
tell old from new. Two deaths let a handler of the first still run when the
second happens. Every counter of events is bounded in a guard (`MaxRequests`,
`MaxDeaths`, `MaxCrashes`, `MaxReboots`). For the other
modules: a session of the view is independent of other tabs, which share only
the ring (section 4 proves the safety properties for any number of tabs, slots and
stages); one poll that is lost and asked again, one reconnect and one rerun of
the job are within the bounds, and two stages tell a replayed step from a new
one. Two sessions show that toolboxes do not mix. Two updates let a
`/disconnect` overtake a message, a token be presented twice and a crash fall
between an update and its confirmation. Five calls and faults are a provision
that fails, its rollback that fails, a second provision, a teardown that fails
and its retry, or the same of two tenants. The proofs of section 4 need none of
these bounds. The largest runs have about a million distinct states (`view`,
`gateway`) and take one to two minutes.

Runs restrict the faults and requests to those under which their property
holds. One run shows a promise of the documentation broken:

| Run | The code | The promise |
|---|---|---|
| `untailed` (`AgentLog`, 2 containers, 2 tailers, 3 lines; the invariant `RunningIsTailed`) | `startTailer` returns when the agent has an entry (`logs.ts:53`); nothing deletes the entry when a deployment replaces the container, so the new container's output is not recorded | lifecycle.ts:428 |

The same modules show further divergences when the constants of a passing run
are changed as named here:

| Change | Violates | The code | The promise |
|---|---|---|---|
| `deploy` with 1 agent, 2 ports, no faults, 1 stop | `StopSticks` | `setStatus` overwrites a stop that comes during a deployment (`lifecycle.ts:270`) | ARCHITECTURE.md:72 |
| `deploy` with 1 agent, 2 ports, no faults, 1 delete | `GoneIsClean` | a delete during a deployment purges the row; the failing update skips the cleanup (`lifecycle.ts:296`) | ARCHITECTURE.md:98 |
| `crash` with the verb `update` | `GoneIsClean` | the same for a delete during an update | ARCHITECTURE.md:98 |
| `update` with the fault `health` | `FailedIsClean` | a failed update cleans up the old container only (`lifecycle.ts:725`) | ARCHITECTURE.md:98 |
| `crash` with 1 death, 1 start, `WatcherKeepsUp` | `RouteLeadsHome` | a crash frees the ports and keeps the route (`crash.ts:131`) | ARCHITECTURE.md:128 |
| `crash` with 1 agent, 1 death, 1 start, no `WatcherKeepsUp` | `RedeployNotCrashed` | a restart between the watcher's read and write is marked crashed (`crash.ts:108`) | crash.ts:80 |
| `reboot` with `RunningSpec` and updates | `RunningIsRouted` | a row that is `updating` across a reboot ends up running without a route (`main.ts:183`) | main.ts:177 |
| `deploy` with 1 agent and the fault `start` | `NoStrayContainer`, `FailedIsClean` | a container that was created but did not start is not cleaned up (`docker.ts:264`) | docker.ts:179 |
| `live` with `MaxCrashes = 1` | `DeploySettles` | rows in the pipeline are not taken up after a worker exit (`main.ts:33`) | ARCHITECTURE.md:108 |
| `reboot` with `RunningSpec` and the health loop on | `RunningIsRouted` | unhealthy rows get no route at start-up and recover without one (`main.ts:183`) | main.ts:177 |
| `update` with starts | `VersionShown` | a redeploy keeps showing the version of an earlier update (`lifecycle.ts:462`) | schema.prisma:49 |
| `live` | `UpdatesHaveContainer` | failed agents can be updated (`update/route.ts:27`) | update/route.ts:29 |
| `live` without faults, deaths and requests | `NewAgentRuns` | the row is queued before its secret exists (`agents/route.ts:91`) | ARCHITECTURE.md:57 |
| `pa_race` | `ThrowMeansFull` | ports released since the read are not tried (`ports.ts:14`) | ports.ts:31 |
| `deploy` with `MaxCrashes = 1` and a reboot | `RouteLeadsHome` | a container that a worker exit left without a row starts again on ports that are another agent's by then (`main.ts:33`) | ARCHITECTURE.md:128 |
| `view` with 2 polls under way, no request, no fault | `OrderTolerant` | a late answer or frame takes a finished view back to an earlier step (`useDeploySocket.ts:49`) | useDeploySocket.ts:86 |
| `shell` with `TornDownWithSocket` for `EndsTogether` | `TornDownWithSocket` | a socket that closes before the close handler exists leaves the toolbox until its bash exits (`shell.ts:134`) | shell.ts:26 |
| `untailed` with `LinesNeverCollide` | `LinesNeverCollide` | system lines and the tailer number independently (`logs.ts:122`) | logs.ts:120 |
| `provision` with the faults `rule` and `target` | `NothingForgotten` | the target group and the rule exist before their rollback is registered (`provision.ts:80`) | provision.ts:39 |
| `provision` with the fault `undoTask` | `NothingPulledAway` | the rollback swallows the error of `stopTask` and deletes the secret and the access point under the task that still runs (`provision.ts:41-49`) | - |
| `provision` with the fault `unwire` | `HostLeadsHome` | the rollback swallows the error of `removeAlbWiring`: rule and target stay, the task goes, and its address goes to another tenant's task (`provision.ts:41-49`, `alb.ts:42`) | - |
| `provision` with `"alb"` in `Mortal` | `HostLeadsHome` | the task of a stored agent exits, nothing deregisters its address, and another tenant's task gets it (`alb.ts:42`) | - |
| `provision` with a `Priority` that is not injective, no faults | `NothingForgotten` | the same when the listener refuses the rule because its priority, a hash of the tenant, is taken (`clients.ts:22`) | - |
| `provision` with 2 processes | `NothingPulledAway` | an update runs on what a concurrent rollback removes (`update-aws.ts:160`) | - |
| `provision` with 2 processes, mode `local`, no faults, 2 calls | `NothingForgotten` | the file store reads and writes the file whole, so one process's record is lost (`store.ts:34`) | - |
| `provision` with a `TgName` that is not injective | `HostLeadsHome` | names are cut to 32 characters, and a group of the name is taken over (`alb.ts:20`) | - |

Facts that these modules state and no property forbids: the ring survives a
successful deployment, so the next session is shown its steps (events.ts:131
speaks of the deployment in flight); a socket that closes while its session
still looks the row up leaves its subscriber and its ping timer behind; a late
`emitDone` of a failed deployment ends a session that a redeploy has just
opened; a token that `consume` burned comes back when `mint` had read the file
before (connect-tokens.ts:56 calls it single-use), and one that `mint` wrote is
lost the other way round; a gateway that exits between burning a token and
writing the link leaves the chat unlinked with the token gone; after an exit a
message may be relayed twice. A rollback or teardown asks ECS to stop a task and
deletes its security group at once, which AWS refuses while the task's network
interface lingers: the rollback then gives the group up, and the teardown fails
and, tried again, fails at the rule that is already gone. A local `docker run`
that fails leaves a container that was never started.

### Fairness

`LiveSpec` assumes weak fairness of four things. The worker's next step: that
every await of the tick loop comes back. Some have a deadline in the code (the
health check, Docker's stop). Others have none: `pullImage` (`docker.ts:348-365`),
the requests to Caddy's admin API (`adminFetch`, `caddy.ts:73-87`) and to the Docker
daemon. For those the fairness is an assumption about the environment: they
answer or fail, or the process ends and systemd starts it again. A call that
hangs for ever stops the loop, and no liveness property holds then. The
crash watcher's handlers and the health loop, which run in the same event loop.
And the completion of API requests that were accepted. Nothing else is fair:
owners need not ask, containers need not die or restart, faults need not occur.
With `WatcherKeepsUp` the worker's fairness is that of the timed step; the
watcher's own fairness releases it.

`DeployView` assumes that the interval timer of a mounted tab fires and that
the server answers a poll or the poll fails, per slot; it assumes nothing of the worker or
of the socket, so `ViewSettles` rests on the poll alone, as
useDeploySocket.ts:82-87 intends. Frames may stay on the wire for ever. The faults that a
poll can meet are bounded, as a browser that never reaches the server shows
nothing. `ShellSession` assumes that a session's next await or event comes; the
owner need not leave. `TelegramGateway` assumes that the loop goes on, that its
awaits come back, and that the process is started again after an exit; users and
the web application are free.

## 4. What is proved

TLAPS checks, for every set of agents and ports, every set of faults and any
bounds, from the named assumptions in the modules (`PlatformAssumption`,
`WorkerAssumption`, `ControlApiAssumption`, `CrashWatcherAssumption`,
`HealthLoopAssumption`, `HermesDeployerAssumption`, `PortAllocatorAssumption`,
`FeedAssumption`, `GatewayAssumption`, `ShellSessionAssumption`,
`ProvisionerAssumption`):

`HermesDeployerProofs`
- `Invariance`: `Spec => []IInv`. `TypeOK` alone is not inductive: the worker
  writes the row of `job.agent` and starts an image `job.image`, both of which
  are `None` between jobs, and `updateAgent` reads a target version that only
  the API's write put there. `IInv` therefore adds `JobInv` (which local
  variables are set at which label, and that a route restored at start-up has a
  port) and `TargetInv` (a row that is updating has a target, from the API's
  read of the request to the worker's read of the row). The proof has a lemma
  per action and a case per disjunct of `Next`.
- `TypeCorrect`, its first conjunct.
- `DeletionIsFinal`: the action property `GoneStaysGone`. It follows from
  `RowsKept`, a statement about single row writes that every action is shown to
  satisfy.
- `ImplementsPool`: every step changes `PortAllocation` as `PortPool` allows;
  only allocations and releases touch it, and an allocation takes a free port.

The invariants of `HermesDeployer` about containers, ports and routes hold under
restrictions only: the divergence table above shows how each of them is broken by
some request, fault or exit that the code does not handle. The theorems below
therefore have a named hypothesis about the constants (which verbs owners use,
which faults occur, which bounds are zero). Each hypothesis is wider than the run
that checks the property, leaves the number of agents, the ports and the
remaining bounds open, and each of its conditions is needed: the table says what
TLC finds when one is dropped.

| Hypothesis | Theorems | Dropped condition and what breaks |
|---|---|---|
| `DeployAndStop` (`DeploymentProofs`): starts and stops; the data directory, the creation of the container, the health probe, new routes and pulls may fail; no deaths, exits or reboots; `WatcherKeepsUp` | `NoStray`, `PortsAgree`, `RunningServed`, `FailureCleans`, `StopCleans`, `UpHolds`, `RoutesHome`, of `Spec` | deletes: `NoStrayContainer`, `PortsAccounted`, `UpBoxHoldsPorts`; updates: `FailedIsClean`, `StoppedIsClean` and those three; fault `start`: `NoStrayContainer`; `remove`: `NoStrayContainer`, `UpBoxHoldsPorts`; `unroute`: `FailedIsClean`, `StoppedIsClean`; deaths: `PortsAccounted`, `RunningIsServed`, `UpBoxHoldsPorts`; exits: `NoStrayContainer`, `PortsAccounted`, `UpBoxHoldsPorts`; reboots: the same and `RunningIsServed`; a watcher that lags: `PortsAccounted`, `UpBoxHoldsPorts` |
| `RoutesAccepted` (`LifecycleProofs`): no updates, Caddy accepts new routes, and no reboot while the health loop runs; everything else may fail, die, exit | `RoutesRestored`, of `Spec` | each of the three: `RunningIsRouted` |
| `StopAndDelete`: stops and deletes, Docker and Caddy remove what they are asked to; any deaths, exits and reboots, with or without the health loop | `DeletionCleans`, `StopsSurvive`, of `UpSpec` | starts: `GoneIsClean`; updates, fault `remove` or `unroute`: both |
| `CrashesHandled`: `StopAndDelete`, crashed containers are not kept, no exits or reboots | `CrashesSwept`, of `UpSpec` | starts, `keepCrashedContainers`, exits or reboots: `CrashedIsSwept` |
| `UpdatesOnly`: updates, stops and deletes with every fault; no deaths, exits or reboots; `WatcherKeepsUp` | `UpdatesShowVersion`, `UpdatesServed`, of `UpSpec` | starts: `VersionShown`; deaths, exits, reboots or a watcher that lags: `RunningIsServed` |

`UpSpec` begins where every agent has been deployed and is up (`AllUp`), as the
runs `crash` and `update` do: a delete that meets a first deployment leaves the
container behind (`GoneIsClean` in the divergence table), so the properties of
stops, deletes and updates are stated of agents that are up.

`DeploymentProofs`
- `DeployInvariance`: `DInv` says for every await of `drive`, `failDeployment` and
  `drainStops` what the handled agent uses of the host (`Stage`: what is still there
  of an earlier run, what this run has got so far, what the cleanup or the sweep
  has still to remove), and of every other agent that it rests: it uses nothing,
  or it is served by exactly what its row names (`Resting`). `TodoInv` adds that what
  `drainStops` has still to reach is as its `findMany` saw it, `EventsInv` that every
  die event is one of a teardown and is read before that agent's next container is
  up for good: without it the watcher would mark the new deployment crashed. The
  seven theorems are its consequences. Each group of actions (claim, teardown of
  the previous run, announcements, ports, container, route, cleanup, sweep) has a
  lemma, and a lemma says that the step leaves every other agent alone.

`LifecycleProofs`, four invariants, each about another way of a life to end
- `RoutesRestored`: `RInv` says that a row that is live (`running` or `unhealthy`) is
  routed to its dashboard port, except while the worker is down, starts up, or
  `reconcileRoutes` has it on its list (`LiveInv`), and that the job of `drive` is
  filled in as far as it has come (`Prepared`), so that what makes a row live has
  just routed it.
- `DeletionCleans`, `StopsSurvive`: `TearInv` says that whatever an agent uses is
  accounted for by its row (`Accounted`): a container is the row's, ports and route
  go with the columns, and a purge that `DeleteRead` decided on holds a row without
  a container. An exit of the worker at any await of a sweep leaves that true.
- `CrashesSwept`: on top of `TearInv`, `CrashInv` says that a crashed row is swept, or
  some handler that marked it is still to remove the container and the ports. A
  second death, a stop or a deletion between the steps of that handler keep it so.
- `UpdatesShowVersion`, `UpdatesServed`: `UpdateInv` says that an agent nobody works
  on is intact, that is, served by a container of the version that its row shows, or
  has lost its container and ports (`Lost`) and its row is not live. A lost agent
  does not become running again: an update that is asked for all the same fails
  where `createContainer` throws on the missing ports, and a purge or sweep finds
  nothing to revive.

`PortAllocatorProofs`
- `TypeCorrect`; `OwnershipAgrees` (`GotIsOwned` is inductive with `TypeOK`);
  `PortsDisjoint`, its consequence that no port is held twice; `TwoPortsEach`
  (`HoldsTwo`), whose induction is strengthened by `Progress`, the number of
  ports a drive has got at each label; and `ImplementsPool`, the refinement for
  racing callers.

`DeployViewProofs`
- `Invariance`: `IInv` types the ring as the frames that it keeps (`Quiet`) and a
  tab's wire as frames of which one that ends the deployment is there only if
  the tab could have seen an end (`Sound`). It adds that a job stands inside its
  script (`JobInv`; the scripts are shown to consist of statuses and kept frames
  for any sequence of stages), and that a session or a poll that has read an end
  belongs to a tab that is mounted and could have seen it (`SessionInv`, `PollInv`,
  `EndInv`). Without the last three, `NoFalseEnd` is not inductive: the end is
  read in one step and shown in a later one.
- `TypeCorrect`, `SubscribersHoldRing` (`SubscriberHoldsRing`), `EndsAreReal`
  (`NoFalseEnd`): its consequences.

`TelegramGatewayProofs`
- `Invariance`: `IInv` follows an update from the batch through its handler
  (`LoopInv`, `HandInv`) and a token from the file that the two processes overwrite
  to the link that it makes (`MintInv`, `TokenInv`). `NoUpdateSkipped` alone is not
  inductive: that a poll may confirm what lies below its offset rests on the
  batch being handled in order.
- `TypeCorrect`, `NothingSkipped` (`NoUpdateSkipped`), and the action properties
  `LinksAreProven` (`LinkedByValidToken`) and `RelaysAreLinked` (`RelayIsLinked`).

`ShellSessionProofs`
- `Invariance` and `ToolboxRemembered` (`NoToolboxForgotten`), strengthened by
  `StreamLast`: a session has a stream only once its handlers are registered.

`ProvisionerProofs`, for any number of tenants and addresses, in every runtime, with
tasks that exit in any of them and with every fault that no hypothesis excludes.
The first three theorems allow any number of calls at the same time, where the run
has one process:
- `TenantsApart`, under the hypothesis `OwnNames` that target group names differ:
  no id is ever claimed by two tenants (`Separate`), where a claim is a resource, a
  stored record, what a call has made or read, or the copy of the file that a call
  will write back (`Claim`). None is claimed before it is given out (`Claimed`). The
  lemma `OneCall` reduces every action to what it adds for the tenant of its call.
- `TypeCorrect` (`TypeOK`): in particular that every record which a call stores, in
  whichever of the three stores, is one that the next call can read.
- `DataGo` (`DataGoOnPurpose`), by the actions that delete, of which only the
  teardown's and the rollback's reach an access point.

The other three have the hypothesis `OneByOne`: one process that makes one call after
the other (as the command line does; nothing in the code prevents a second
process, see the divergence table), names and rule priorities of the tenants
differ, and neither the creation of the rule nor the registration of the address
throws, the two places where the target group exists and its rollback is not
registered. Killed processes, failing stores, deletions that AWS refuses, tasks
that exit and every other fault, those of the rollback included, are allowed.
- `NothingIsForgotten` (`NothingForgotten`). TLC finds it violated with a second
  process, without `OwnPriorities` and with either fault (see the divergence table).
  The invariant is `Kept`. Its book-keeping part (`Accounted`) is the property, with
  the call's claim cut down to what it will really store or undo (`Hand`): of a
  rollback only what is still on the stack, of an update only the two kinds that it
  swaps. That is not inductive. A provision of a tenant who still has things would
  overwrite the record that names them; what prevents it is that the secret is named
  by tenant, made before anything that costs money, and deleted after it (`Keyed`:
  who has no secret has nothing but what the call holds). An update starts from the
  running task and not from the record; what makes its record complete is that a
  running task whose secret exists was made of all that its tenant has (`Worn`), which
  needs `OneUp`, one running task per secret. Each call has its own part (`Good`): the
  rollback stack lists what was made in the order of the code (`StackOK`, `HasMade`), a
  teardown at a step has deleted all earlier kinds (`GoodRead`), an update has stopped
  the old task before the new one runs (`Replaces`). The record is written whole where
  all of this meets (`SaveKept`).
- `NothingIsPulledAway` (`NothingPulledAway`), if also no `StopTask` of a rollback
  fails: the code swallows that error and deletes what the task runs on (see the
  divergence table), so without the hypothesis the property is false. The property
  alone is not inductive: that a rollback or a teardown which deletes the secret has
  stopped the task before is a fact about the call's place and about what the record
  it works from names. The invariant is `Kept` together with `Sure`: every running
  task has its parts (`Rooted`), no two tasks are made of one task definition
  (`OwnDefs`), a record that names a part of a task names that task, and agents share
  their group, secret and access point all or not at all (`SureRecords`, `Alike`). Each
  call has its own part: a provision's task is down when the rollback is past it
  (`SureProvision`), a teardown's when it comes to the task definition
  (`SureTeardown`), and an update drops the old task definition only when the old
  task has been stopped (`SureUpdate`).
- `HostsLeadHome` (`HostLeadsHome`), which is about the balancer's runtime only: the
  others have no rules and no target groups. It has two more hypotheses, that no
  rollback fails in `removeAlbWiring` (`"unwire" \notin Faults`) and that no task there
  exits by itself (`"alb" \notin Mortal`); the divergence table shows that it is false
  without either, because an address that a stopped task gives back is then still
  registered. The invariant is `Kept` together with `Led`, whose heart is that a
  registered address is that of a running task of the group's own tenant
  (`TargetsLive`). That is kept only if a task's addresses are gone before it is told to
  stop: a task is registered in the one group that its record, or the call that made
  it, names (`RecordsLead`, `LeadProvision`), whose deletion takes the addresses along;
  a rollback that has the wiring on its stack can remove it, as no rule but its own
  uses the group (`Backward`, `OnlyRule`); and a provision registers the address that
  its task still has (`Onward`).

Only model-checked: liveness and everything that rests on fairness, which is out of
the prover's reach
(`DeploySettles`, `StopDrains`, `DeleteDrains`, `UpdateSettles`, `TicksGoOn`,
`DeadIsNoticed`, `FalseAlarmEnds`, `AllocationReturns`, `ViewSettles`, `EndsTogether`,
`UpdateHandled`). In a module with theorems no recursive operator is used.

## 5. Not modelled, and the plan

Not modelled: see the components with status `not_modelled` in `PROJECT.json`.
Docker's and the host's own behaviour is modelled from how the code uses it
(restart policy `unless-stopped`, unique container names, one listener per host
port, a `die` event per stop) and marked external in the map.

What is left out, and why:

- The ZYND callback re-queues an agent on a status that it read before a token
  exchange (`zynd/callback/route.ts:97`). It is one more unconditional write of a
  status, of the kind that `StopSticks` is about.
- `caddy.ts` edits one array of routes with a read and a write; `Platform` has a
  register per agent. The worker awaits its Caddy calls one after the other, so
  the array matters only against edits from outside.
- Several workers on one database: the code claims queued rows exclusively and
  updates not; the deployment described in ARCHITECTURE.md has one worker.
- Tokens and the dashboard gate are cryptography over strings. Limits, ownership
  and the version route decide whether a request is let in or shown, and change
  no state of the models. Rendering, metrics, configuration and operator scripts
  keep no state that others decide by.
- Of the shell: a stop that Docker refuses, and a worker exit in the middle of a
  session, after which only `AutoRemove` and the end of bash remove the toolbox
  (`docker.ts:287`).
- Of the provisioner: `putOwned`'s ownership columns and the web library's caches.

Open for further work: a theorem for `NoFalseExhaustion` of the allocator (by an
injection of ports into callers); the route array; several workers.
