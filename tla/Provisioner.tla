----------------------------- MODULE Provisioner -----------------------------
(***************************************************************************)
(* The provisioner: creating a tenant's resources one call at a time with  *)
(* a rollback stack, tearing them down from the stored record, starting    *)
(* and stopping a local container, swapping an ECS task for a new image,   *)
(* and the store that remembers who has what.  One process per call of the *)
(* command line or of the web library; every await is a step.              *)
(***************************************************************************)
EXTENDS Naturals, Sequences, FiniteSets

CONSTANTS
    Tenants,    \* the tenants
    Procs,      \* the processes that run provisioner calls
    Modes,      \* the runtimes to look at: "alb", "public" (AWS without a
                \* balancer) and "local"
    Faults,     \* what may fail, see FaultKinds
    Mortal,     \* the runtimes whose tasks may exit on their own
    Addresses,  \* the addresses of the tasks' subnets
    Forgiving,  \* kinds of which AWS deletes a missing one without an error
    TgName,     \* tgName: the target group name of a tenant
    Priority,   \* rulePriority: the listener rule priority of a tenant
    Budget,     \* bound on calls and faults together
    None        \* no record, no address

Kinds == {"accessPoint", "secret", "sg", "taskDef", "task", "tg", "rule"}

\* A step of provisionAgent that throws, the security group's rules after the
\* group itself was made, a deletion of a teardown; in a rollback one of
\* removeAlbWiring's calls (unwire), stopTask, or another deletion; a step of an
\* update, the write of the store, and a process that is killed.
FaultKinds == Kinds \cup {"healthy", "ip", "target", "targetHealthy", "sgRules", "teardown",
                          "unwire", "undoTask", "undo", "update", "store", "kill"}

Wiring == {"rule", "target", "tg"}   \* what removeAlbWiring removes, in this order

CreateSteps == <<"accessPoint", "secret", "sg", "taskDef", "task", "healthy", "ip",
                 "tg", "rule", "target", "targetHealthy">>

\* Mutant of TeardownSteps: the secret goes before the task that reads it.
TeardownSecretFirst ==
    <<"secret", "rule", "target", "tg", "task", "taskDef", "sg", "accessPoint">>

TeardownSteps == <<"rule", "target", "tg", "task", "taskDef", "sg", "secret", "accessPoint">>

UpdateSteps == <<"newTaskDef", "stopOld", "runNew", "waitNew", "dropOld">>

Ids   == Nat   \* 0: no resource, or a faked one
Refs  == [Kinds -> Ids]
NoRef == [k \in Kinds |-> 0]

\* What the cloud (or the Docker daemon) holds; refs names what it was made of.
Resource == [kind : Kinds, id : Ids, tenant : Tenants, refs : Refs]

AgentRecord == [refs : Refs, running : BOOLEAN]

\* A call in progress: refs is what it made or the record that it read, old
\* what an update replaces, undo the rollback stack, seen the file it read.
Call == [op : {"idle", "provision", "teardown", "control", "update"}, tenant : Tenants,
         phase : {"work", "undo", "load", "save"}, at : Nat, refs : Refs, old : Refs,
         undo : Seq(Kinds \cup {"target"}), data : BOOLEAN, running : BOOLEAN,
         seen : [Tenants -> AgentRecord \cup {None}]]

ASSUME ProvisionerAssumption ==
    /\ Tenants # {}
    /\ Modes \subseteq {"alb", "public", "local"}
    /\ Faults \subseteq FaultKinds
    /\ Forgiving \subseteq Kinds /\ Mortal \subseteq Modes
    /\ TgName \in [Tenants -> Nat] /\ Priority \in [Tenants -> Nat]
    /\ Budget \in Nat
    /\ None \notin AgentRecord \cup Addresses

\* The command line of the ALB runtime has a file, the web library chooses.
Stores(m) == CASE m = "alb"    -> {"file"}
               [] m = "public" -> {"dynamo"}
               [] m = "local"  -> {"file", "supabase"}

VARIABLES
    mode,     \* the runtime that the dependencies were built for
    backend,  \* the kind of store
    cloud,    \* the resources that exist
    halted,   \* tasks that were told to stop; containers that are stopped
    holder,   \* the last task that had an address
    targets,  \* the addresses registered in a target group
    born,     \* the last id given out
    store,    \* the agent store
    call,     \* the call that each process is in
    ip,       \* the address that its call has resolved last
    spent,    \* calls begun and faults met so far
    kept,     \* history: access points that a teardown left, told to or not
    lost      \* history: what a call gave up, see NothingForgotten

settings == <<mode, backend>>
history == <<kept, lost>>
network == <<holder, ip>>
world == <<cloud, halted, targets, born, network, history>>
vars  == <<settings, world, store, call, spent>>

NoCall(t) ==
    [op |-> "idle", tenant |-> t, phase |-> "work", at |-> 1, refs |-> NoRef,
     old |-> NoRef, undo |-> <<>>, data |-> FALSE, running |-> FALSE,
     seen |-> [x \in Tenants |-> None]]

Init ==
    /\ mode \in Modes /\ backend \in Stores(mode)
    /\ cloud = {} /\ halted = {} /\ targets = {} /\ born = 0
    /\ holder = [a \in Addresses |-> 0] /\ ip = [p \in Procs |-> None]
    /\ kept = {} /\ lost = {}
    /\ store = [t \in Tenants |-> None]
    /\ call \in [Procs -> {NoCall(CHOOSE t \in Tenants : TRUE)}]
    /\ spent = 0

-----------------------------------------------------------------------------
(* What the cloud does with one request. *)

\* The dependencies that are not faked; a fake returns a constant and does
\* nothing.
AlbDeps    == Kinds \cup Wiring
PublicDeps == Kinds \ Wiring
LocalDeps  == {"task"}

Real(k) == k \in CASE mode = "alb"    -> AlbDeps
                   [] mode = "public" -> PublicDeps
                   [] mode = "local"  -> LocalDeps

Of(k, t)   == {r \in cloud : r.kind = k /\ r.tenant = t}
Exists(k, i) == \E r \in cloud : r.kind = k /\ r.id = i
Up(t)      == {r \in Of("task", t) : r.id \notin halted}
Runs(i)    == Exists("task", i) /\ i \notin halted

\* Secrets are named by tenant and a priority is used once per listener.
SecretTaken(t)   == Of("secret", t) # {}
PriorityTaken(t) == \E r \in cloud : r.kind = "rule" /\ Priority[r.tenant] = Priority[t]

NameTaken(k, t) ==
    Real(k) /\ ((k = "secret" /\ SecretTaken(t)) \/ (k = "rule" /\ PriorityTaken(t)))

\* Mutant of Existing: takes the first group it is shown, without a name.
ExistingAny(k, t) == IF k = "tg" THEN {r \in cloud : r.kind = "tg"} ELSE {}

\* A target group of that name is returned as it is.
Existing(k, t) ==
    IF k = "tg" THEN {r \in cloud : r.kind = "tg" /\ TgName[r.tenant] = TgName[t]} ELSE {}

\* The local runTask first removes the container that has the tenant's name.
Replaced(k, t) == IF mode = "local" /\ k = "task" THEN Of(k, t) ELSE {}

\* Behind the balancer a task gets an address that no task has; the address
\* is free again when the task is gone.
TakesAddress(k, i) ==
    IF k = "task" /\ mode = "alb"
    THEN \E a \in Addresses : ~Exists("task", holder[a]) /\ holder' = [holder EXCEPT ![a] = i]
    ELSE UNCHANGED holder

Make(k, t, refs) ==
    /\ born' = born + 1
    /\ TakesAddress(k, born + 1)
    /\ cloud' = (cloud \ Replaced(k, t))
                \cup {[kind |-> k, id |-> born + 1, tenant |-> t, refs |-> refs]}

\* AWS refuses to delete a group that a network interface or a rule still
\* uses, and the docker commands take a missing container for a stopped one.
Refused(k, i) ==
    \/ ~Exists(k, i) /\ k \notin Forgiving /\ mode # "local"
    \/ k = "sg" /\ \E r \in cloud : r.kind = "task" /\ r.refs["sg"] = i
    \/ k = "tg" /\ \E r \in cloud : r.kind = "rule" /\ r.refs["tg"] = i

\* StopTask only asks; stopTask of the local dependencies stops and removes
\* whatever container has the tenant's name.
Unmake(k, i, t) ==
    IF k = "task" /\ mode # "local"
    THEN /\ halted' = halted \cup {x \in {i} : Exists(k, x)}
         /\ UNCHANGED <<cloud, targets>>
    ELSE LET dead == IF k = "task" THEN Of(k, t) ELSE {r \in cloud : r.kind = k /\ r.id = i}
         IN /\ cloud' = cloud \ dead
            /\ halted' = halted \ {r.id : r \in dead}
            /\ targets' = IF k = "tg" THEN {x \in targets : x[1] # i} ELSE targets

\* One deletion, of a resource or of the address a in the call's target group.
Accepts(k, c) == IF k = "target" THEN Exists("tg", c.refs["tg"]) ELSE ~Refused(k, c.refs[k])

Removal(k, c, a) ==
    IF k = "target"
    THEN /\ targets' = targets \ {<<c.refs["tg"], a>>}
         /\ UNCHANGED <<cloud, halted>>
    ELSE Unmake(k, c.refs[k], c.tenant)

\* A task stops by itself: a crash, a failed health check, a lost host.
TaskExits ==
    /\ mode \in Mortal /\ spent < Budget /\ spent' = spent + 1
    /\ \E r \in cloud : /\ r.kind = "task" /\ r.id \notin halted
                        /\ halted' = halted \cup {r.id}
    /\ UNCHANGED <<settings, cloud, targets, born, network, history, store, call>>

\* The network interface of a task that stops is detached and the task is gone.
TaskGone ==
    /\ mode # "local"
    /\ \E r \in cloud : /\ r.kind = "task" /\ r.id \in halted
                        /\ cloud' = cloud \ {r} /\ halted' = halted \ {r.id}
    /\ UNCHANGED <<settings, targets, born, network, history, store, call, spent>>

-----------------------------------------------------------------------------
(* Calls in general. *)

Set(p, c) == call' = [call EXCEPT ![p] = c] /\ UNCHANGED settings

Begin(p, op, t, c) ==
    /\ call[p].op = "idle" /\ spent < Budget
    /\ spent' = spent + 1
    /\ Set(p, [c EXCEPT !.op = op, !.tenant = t])
    /\ UNCHANGED <<world, store>>

Quit(p) == Set(p, NoCall(call[p].tenant))

Goes(p, op, phase) == call[p].op = op /\ call[p].phase = phase

Next1(p) == [call[p] EXCEPT !.at = @ + 1]

\* The environment lets this fail.
Fault(f) == f \in Faults /\ spent < Budget /\ spent' = spent + 1

\* Ids that nobody has in hand when the call is cut short: all that a
\* provision has got, the new task and task definition of an update.  What a
\* teardown or a start or stop works on has its record.
GivenUp(c) ==
    CASE c.op = "provision" -> {c.refs[k] : k \in Kinds}
      [] c.op = "update"    -> {c.refs[k] : k \in {j \in {"task", "taskDef"} : c.refs[j] # c.old[j]}}
      [] OTHER              -> {}

TeardownStep(p) == TeardownSteps[call[p].at]

TearingDown(p) == Goes(p, "teardown", "work") /\ call[p].at <= Len(TeardownSteps)

\* A teardown that ends here has deleted everything but the data.
DataLeft(p) ==
    IF TearingDown(p) /\ TeardownStep(p) = "accessPoint" THEN {call[p].refs["accessPoint"]} ELSE {}

GiveUp(p) ==
    /\ Quit(p)
    /\ lost' = lost \cup GivenUp(call[p]) /\ kept' = kept \cup DataLeft(p)

Kill(p) ==
    /\ Fault("kill") /\ call[p].op # "idle"
    /\ GiveUp(p)
    /\ UNCHANGED <<cloud, halted, targets, born, network, store>>

\* The file is read whole and written whole; a table is written by key.  The
\* Supabase row has no columns for the task definition, the group and the rule.
Load(p) ==
    /\ call[p].op # "idle" /\ call[p].phase = "load"
    /\ Set(p, [call[p] EXCEPT !.phase = "save", !.seen = store])
    /\ UNCHANGED <<world, store, spent>>

\* Mutant of Stored: the row has no column for the status.
StoredHalf(rec) == [rec EXCEPT !.running = None]

Stored(rec) ==
    IF backend = "supabase"
    THEN [rec EXCEPT !.refs["taskDef"] = 0, !.refs["tg"] = 0, !.refs["rule"] = 0]
    ELSE rec

\* An update changes the record that it has just read; without one it writes
\* nothing.
Writes(c) == c.op = "update" => c.seen[c.tenant] # None

\* What the call writes under its tenant.
ToWrite(c) ==
    CASE c.op = "teardown" -> None
      [] c.op = "update" ->
            [refs |-> [c.seen[c.tenant].refs EXCEPT !["task"] = c.refs["task"],
                                                    !["taskDef"] = c.refs["taskDef"]],
             running |-> TRUE]
      [] OTHER -> Stored([refs |-> c.refs, running |-> c.running])

\* An update starts from the running task and not from the record: what the
\* record names instead, since an earlier update failed, is overwritten.
Overwritten(c) ==
    IF c.op = "update" THEN {c.seen[c.tenant].refs["taskDef"]} \ {c.old["taskDef"]} ELSE {}

FileWrite(c) == [c.seen EXCEPT ![c.tenant] = ToWrite(c)]
RowWrite(c)  == [store EXCEPT ![c.tenant] = ToWrite(c)]

Save(p) ==
    LET c == call[p]
    IN /\ c.op # "idle" /\ c.phase = "save"
       /\ IF Writes(c)
          THEN /\ store' = IF backend = "file" THEN FileWrite(c) ELSE RowWrite(c)
               /\ Quit(p) /\ lost' = lost \cup Overwritten(c) /\ UNCHANGED kept
          ELSE GiveUp(p) /\ UNCHANGED store
       /\ UNCHANGED <<cloud, halted, targets, born, network, spent>>

SaveFails(p) ==
    /\ Fault("store") /\ call[p].op # "idle" /\ call[p].phase = "save"
    /\ GiveUp(p)
    /\ UNCHANGED <<cloud, halted, targets, born, network, store>>

-----------------------------------------------------------------------------
(* provisionAgent. *)

Provision(p, t) == Begin(p, "provision", t, NoCall(t))

CreateStep(p) == CreateSteps[call[p].at]

Creating(p) == Goes(p, "provision", "work") /\ call[p].at <= Len(CreateSteps)

\* Mutant of Registers: nobody thought of deleting the secret.
RegistersNoSecret(k) == k \notin Wiring \cup {"secret"}

\* The rollback of a kind is registered as soon as it is made, except for the
\* target group and the rule: theirs waits until the address is registered.
Registers(k) == k \notin Wiring

Create(p) ==
    LET c == call[p]
        k == CreateStep(p)
        old == Existing(k, c.tenant)
        Got(i) == [Next1(p) EXCEPT !.refs[k] = i,
                                   !.undo = IF Registers(k) THEN Append(@, k) ELSE @]
    IN /\ Creating(p) /\ k \in Kinds /\ ~NameTaken(k, c.tenant)
       /\ \/ ~Real(k) /\ Set(p, Got(0)) /\ UNCHANGED <<cloud, born, holder>>
          \/ Real(k) /\ old = {} /\ Set(p, Got(born + 1)) /\ Make(k, c.tenant, c.refs)
          \/ /\ Real(k)
             /\ \E r \in old : Set(p, Got(r.id))
             /\ UNCHANGED <<cloud, born, holder>>
       /\ UNCHANGED <<halted, targets, ip, history, store, spent>>

RegisterIp(p) ==
    LET c == call[p]
    IN /\ Creating(p) /\ CreateStep(p) = "target"
       /\ targets' = IF Real("target") THEN targets \cup {<<c.refs["tg"], ip[p]>>} ELSE targets
       /\ Set(p, [Next1(p) EXCEPT !.undo = @ \o <<"tg", "target", "rule">>])
       /\ UNCHANGED <<cloud, halted, born, network, history, store, spent>>

Polls == {"healthy", "ip", "targetHealthy"}

\* Asked about the task, ECS knows it; its address, or whatever has it by
\* now, answers the balancer.  The local probe asks a port of the host.
Answers(p, step) ==
    CASE step = "healthy"       -> mode = "local" \/ Runs(call[p].refs["task"])
      [] step = "ip"            -> mode = "local" \/ Exists("task", call[p].refs["task"])
      [] step = "targetHealthy" -> mode = "alb" => ip[p] # None /\ Runs(holder[ip[p]])

\* A poll of the task or of its target ends well.
Waited(p, step) ==
    /\ Creating(p) /\ CreateStep(p) = step /\ Answers(p, step)
    /\ Set(p, Next1(p))
    /\ UNCHANGED <<cloud, halted, targets, born, holder, history, store, spent>>

\* The address of a task that exists; a task without one is public or local.
AddressOf(i) == {a \in Addresses : holder[a] = i /\ Exists("task", i)}

WaitForHealthy(p)    == Waited(p, "healthy") /\ UNCHANGED ip
WaitTargetHealthy(p) == Waited(p, "targetHealthy") /\ UNCHANGED ip

ResolveTaskIp(p) ==
    /\ Waited(p, "ip")
    /\ IF mode = "alb" THEN \E a \in AddressOf(call[p].refs["task"]) : ip' = [ip EXCEPT ![p] = a]
       ELSE UNCHANGED ip

Throws(p) ==
    /\ Creating(p)
    /\ \/ Fault(CreateStep(p))
       \/ CreateStep(p) \in Kinds /\ NameTaken(CreateStep(p), call[p].tenant) /\ UNCHANGED spent
       \/ CreateStep(p) \in Polls /\ ~Answers(p, CreateStep(p)) /\ UNCHANGED spent
    /\ Set(p, [call[p] EXCEPT !.phase = "undo"])
    /\ UNCHANGED <<world, store>>

\* docker run has no port for the container: the old one is gone by then, the
\* new one is there, was never started, and is not on the rollback stack.
DockerRunFails(p) ==
    /\ Creating(p) /\ CreateStep(p) = "task" /\ mode = "local" /\ Fault("task")
    /\ Make("task", call[p].tenant, call[p].refs)
    /\ halted' = halted \cup {born + 1} /\ lost' = lost \cup {born + 1}
    /\ Set(p, [call[p] EXCEPT !.phase = "undo"])
    /\ UNCHANGED <<targets, ip, kept, store>>

\* createTenantSg makes the group, then fails to revoke or to authorize.
SgRulesFail(p) ==
    /\ Creating(p) /\ CreateStep(p) = "sg" /\ Real("sg") /\ Fault("sgRules")
    /\ Make("sg", call[p].tenant, call[p].refs)
    /\ Set(p, [call[p] EXCEPT !.phase = "undo"])
    /\ lost' = lost \cup {born + 1}
    /\ UNCHANGED <<halted, targets, ip, kept, store>>

Provisioned(p) ==
    /\ Goes(p, "provision", "work") /\ call[p].at > Len(CreateSteps)
    /\ Set(p, [call[p] EXCEPT !.phase = "load", !.running = TRUE])
    /\ UNCHANGED <<world, store, spent>>

\* The last element of the stack is undone; an error is swallowed, which
\* gives up what is left of removeAlbWiring when it comes from one of its calls.
Top(p) == call[p].undo[Len(call[p].undo)]

Undoing(p) == Goes(p, "provision", "undo") /\ call[p].undo # <<>>

Undo(p) ==
    LET c == call[p]
        k == Top(p)
    IN /\ Undoing(p)
       /\ Set(p, [c EXCEPT !.undo = SubSeq(@, 1, Len(@) - 1)])
       /\ \/ ~Real(k) /\ UNCHANGED <<cloud, halted, targets>>
          \/ Real(k) /\ Accepts(k, c) /\ Removal(k, c, ip[p])
       /\ UNCHANGED <<born, network, history, store, spent>>

\* How much of the stack an error in undoing k gives up.
Entries(k) == CASE k = "rule" -> 3 [] k = "target" -> 2 [] OTHER -> 1

UndoFault(k) ==
    CASE k \in Wiring -> "unwire" [] k = "task" -> "undoTask" [] OTHER -> "undo"

UndoFails(p) ==
    LET c == call[p]
        k == Top(p)
        gone == IF k \in Wiring THEN Wiring ELSE {k}
    IN /\ Undoing(p)
       /\ Fault(UndoFault(k)) \/ (Real(k) /\ ~Accepts(k, c) /\ UNCHANGED spent)
       /\ Set(p, [c EXCEPT !.undo = SubSeq(@, 1, Len(@) - Entries(k))])
       /\ lost' = lost \cup {c.refs[x] : x \in gone \cap Kinds}
       /\ UNCHANGED <<cloud, halted, targets, born, network, kept, store>>

Undone(p) ==
    /\ Goes(p, "provision", "undo") /\ call[p].undo = <<>>
    /\ Quit(p)
    /\ UNCHANGED <<world, store, spent>>

-----------------------------------------------------------------------------
(* teardownAgent. *)

Read(p, op, t, d) ==
    /\ store[t] # None
    /\ Begin(p, op, t, [NoCall(t) EXCEPT !.refs = store[t].refs, !.old = store[t].refs,
                                         !.running = store[t].running, !.data = d])

\* Mutant of Skips: the data go with the agent, asked for or not.
SkipsMissing(p) ==
    LET c == call[p]
        k == TeardownStep(p)
    IN \/ k # "target" /\ c.refs[k] = 0
       \/ k \in Wiring /\ 0 \in {c.refs["rule"], c.refs["tg"], c.refs["task"]}

\* A step whose reference is missing (or faked) is skipped, the wiring's three
\* unless the record has all of them, and the data unless they are to go.
Skips(p) ==
    LET c == call[p]
        k == TeardownStep(p)
    IN \/ k # "target" /\ c.refs[k] = 0
       \/ k \in Wiring /\ 0 \in {c.refs["rule"], c.refs["tg"], c.refs["task"]}
       \/ k = "accessPoint" /\ ~c.data

\* Just before the rule is deleted the task's address is looked up, which
\* may fail: the code goes on with an address that nobody has.
Resolves(p) ==
    IF TeardownStep(p) = "rule" /\ ~Skips(p)
    THEN \E a \in AddressOf(call[p].refs["task"]) \cup {None} : ip' = [ip EXCEPT ![p] = a]
    ELSE UNCHANGED ip

Delete(p) ==
    LET c == call[p]
        k == TeardownStep(p)
    IN /\ TearingDown(p) /\ Set(p, Next1(p))
       /\ \/ Skips(p) /\ UNCHANGED <<cloud, halted, targets>>
          \/ ~Skips(p) /\ Accepts(k, c) /\ Removal(k, c, ip[p])
       /\ Resolves(p)
       /\ kept' = IF k = "accessPoint" /\ ~c.data THEN kept \cup {c.refs[k]} ELSE kept
       /\ UNCHANGED <<born, holder, lost, store, spent>>

\* An error ends the teardown; the record stays for another try.
DeleteFails(p) ==
    /\ TearingDown(p) /\ ~Skips(p)
    /\ Fault("teardown") \/ (~Accepts(TeardownStep(p), call[p]) /\ UNCHANGED spent)
    /\ GiveUp(p)
    /\ UNCHANGED <<cloud, halted, targets, born, network, store>>

TornDown(p) ==
    /\ Goes(p, "teardown", "work") /\ call[p].at > Len(TeardownSteps)
    /\ Set(p, [call[p] EXCEPT !.phase = "load"])
    /\ UNCHANGED <<world, store, spent>>

-----------------------------------------------------------------------------
(* controlAgent: docker start, stop or restart, and the record's status. *)

DockerControls(p, v) ==
    LET box == Of("task", call[p].tenant)
    IN /\ Goes(p, "control", "work")
       /\ IF box = {} /\ v # "stop"
          THEN Quit(p) /\ UNCHANGED halted
          ELSE /\ halted' = IF v = "stop" THEN halted \cup {r.id : r \in box}
                            ELSE halted \ {r.id : r \in box}
               /\ Set(p, [call[p] EXCEPT !.phase = "load", !.running = box # {} /\ v # "stop"])
       /\ UNCHANGED <<cloud, targets, born, network, history, store, spent>>

-----------------------------------------------------------------------------
(* updateAgentVersion and updateAwsAgent: no rollback. *)

\* findAgentTask reads everything from the tenant's running task; the record
\* is read again, and its other fields kept, when the task has been swapped.
Update(p, t) ==
    /\ mode = "public"
    /\ \E r \in Up(t) :
         Begin(p, "update", t, [NoCall(t) EXCEPT !.old = [r.refs EXCEPT !["task"] = r.id],
                                                 !.refs = [r.refs EXCEPT !["task"] = r.id]])

UpdateStep(p) == UpdateSteps[call[p].at]

Updating(p) == Goes(p, "update", "work") /\ call[p].at <= Len(UpdateSteps)

\* No task comes up on a group, secret or access point that is gone.
Whole(c) == \A k \in {"accessPoint", "secret", "sg"} : Exists(k, c.refs[k])

Swap(p) ==
    LET c == call[p]
    IN /\ Updating(p)
       /\ \/ /\ UpdateStep(p) = "newTaskDef"
             /\ Make("taskDef", c.tenant, c.refs)
             /\ Set(p, [Next1(p) EXCEPT !.refs["taskDef"] = born + 1])
             /\ UNCHANGED <<halted, targets>>
          \/ /\ UpdateStep(p) = "stopOld"
             /\ Unmake("task", c.old["task"], c.tenant)
             /\ Set(p, Next1(p)) /\ UNCHANGED <<born, holder>>
          \/ /\ UpdateStep(p) = "runNew"
             /\ Whole(c)
             /\ Make("task", c.tenant, [c.refs EXCEPT !["task"] = 0])
             /\ Set(p, [Next1(p) EXCEPT !.refs["task"] = born + 1])
             /\ UNCHANGED <<halted, targets>>
          \/ /\ UpdateStep(p) = "waitNew"
             /\ Runs(c.refs["task"])
             /\ Set(p, Next1(p)) /\ UNCHANGED <<cloud, halted, targets, born, holder>>
          \/ /\ UpdateStep(p) = "dropOld"
             /\ Unmake("taskDef", c.old["taskDef"], c.tenant)
             /\ Set(p, [c EXCEPT !.at = @ + 1, !.phase = "load"])
             /\ UNCHANGED <<born, holder>>
       /\ UNCHANGED <<ip, history, store, spent>>

\* What ends an update without a fault: nothing to run on, or a new task that
\* has stopped before it was healthy.
Stuck(p) ==
    \/ UpdateStep(p) = "runNew" /\ ~Whole(call[p])
    \/ UpdateStep(p) = "waitNew" /\ ~Runs(call[p].refs["task"])

\* Nothing is undone: the new task definition stays, and from the third step
\* on the old task is stopped and the new one runs, which the record does not
\* name.  Only a failure to drop the old task definition is swallowed.
SwapFails(p) ==
    /\ Updating(p)
    /\ Fault("update") \/ (Stuck(p) /\ UNCHANGED spent)
    /\ \/ /\ UpdateStep(p) = "dropOld"
          /\ Set(p, [Next1(p) EXCEPT !.phase = "load"])
          /\ lost' = lost \cup {call[p].old["taskDef"]} /\ UNCHANGED kept
       \/ UpdateStep(p) # "dropOld" /\ GiveUp(p)
    /\ UNCHANGED <<cloud, halted, targets, born, network, store>>

-----------------------------------------------------------------------------
\* The command line asks whether the data go too, the web library always says so.
DeleteData == IF mode = "alb" THEN BOOLEAN ELSE {TRUE}

BeginCall(p) ==
    \E t \in Tenants :
        \/ Provision(p, t)
        \/ \E d \in DeleteData : Read(p, "teardown", t, d)
        \/ mode = "local" /\ Read(p, "control", t, FALSE)
        \/ Update(p, t)

ProvisionStep(p) ==
    \/ Create(p) \/ RegisterIp(p) \/ WaitForHealthy(p) \/ ResolveTaskIp(p)
    \/ WaitTargetHealthy(p) \/ Throws(p) \/ SgRulesFail(p) \/ DockerRunFails(p)
    \/ Provisioned(p) \/ Undo(p) \/ UndoFails(p) \/ Undone(p)

CallStep(p) ==
    \/ ProvisionStep(p)
    \/ Delete(p) \/ DeleteFails(p) \/ TornDown(p)
    \/ \E v \in {"start", "stop", "restart"} : DockerControls(p, v)
    \/ Swap(p) \/ SwapFails(p)
    \/ Load(p) \/ Save(p) \/ SaveFails(p)

Next == TaskExits \/ TaskGone \/ \E p \in Procs : BeginCall(p) \/ CallStep(p) \/ Kill(p)

Spec == Init /\ [][Next]_vars

-----------------------------------------------------------------------------
TypeOK ==
    /\ mode \in Modes /\ backend \in Stores(mode)
    /\ cloud \subseteq Resource
    /\ halted \subseteq Ids /\ targets \subseteq Ids \X (Addresses \cup {None})
    /\ holder \in [Addresses -> Ids] /\ ip \in [Procs -> Addresses \cup {None}]
    /\ born \in Ids /\ kept \subseteq Ids /\ lost \subseteq Ids
    /\ store \in [Tenants -> AgentRecord \cup {None}]
    /\ call \in [Procs -> Call]
    /\ spent \in 0 .. Budget

\* Nothing that costs money is forgotten: what exists is on its way out, or a
\* stored record names it, or a call that is still going on will store or
\* undo it.  The exceptions are the places where the code does forget: the data
\* that a teardown leaves (kept), and in lost
\*   - what a rollback failed to delete (it swallows the error): the resource,
\*     or what is left of the wiring (UndoFails);
\*   - a group whose rules could not be set (SgRulesFail), and a container that
\*     docker created and could not start (DockerRunFails);
\*   - the old task definition that an update failed to drop (SwapFails), or
\*     that the record still named after a failed update (Save);
\*   - what a provision has got when its process is killed or its record cannot
\*     be written (Kill, SaveFails);
\*   - the new task and task definition of an update that fails, is killed, or
\*     cannot be stored, because the write fails or there is no record
\*     (SwapFails, Kill, SaveFails, Save).
InHand(r) ==
    \E p \in Procs : /\ call[p].op # "idle" /\ call[p].tenant = r.tenant
                     /\ r.id \in {call[p].refs[r.kind], call[p].old[r.kind]}

Recorded(r) == store[r.tenant] # None /\ store[r.tenant].refs[r.kind] = r.id

NothingForgotten ==
    \A r \in cloud : \/ r.kind = "task" /\ r.id \in halted /\ mode # "local"
                     \/ r.kind = "accessPoint" /\ r.id \in kept
                     \/ r.id \in lost
                     \/ Recorded(r) \/ InHand(r)

\* Whatever a task that runs or a rule was made of outlives it: the order of
\* the rollback, of the teardown and of the update never pulls the group, the
\* secret or the data away under a running agent, recorded or not.
NothingPulledAway ==
    \A r \in cloud : r.kind \in {"task", "rule"} /\ r.id \notin halted =>
        \A k \in Kinds : r.refs[k] # 0 /\ (r.kind = "task" \/ k = "tg") => Exists(k, r.refs[k])

\* Behind the balancer a tenant's host leads to no other tenant's task: the
\* address in its target group is not one that a gone task has given back and
\* another tenant's task has got since.
HostLeadsHome ==
    \A r \in cloud, q \in cloud, a \in Addresses :
        r.kind = "rule" /\ q.kind = "task" /\ <<r.refs["tg"], a>> \in targets /\ holder[a] = q.id
            => q.tenant = r.tenant

MayDropData(p) ==
    \/ call[p].op = "teardown" /\ call[p].data
    \/ call[p].op = "provision" /\ call[p].phase = "undo"

\* An agent's data go away only when a teardown was told so, or when the call
\* that created them rolls back.
DataGoOnPurpose ==
    [][\A r \in cloud \ cloud' : r.kind = "accessPoint" =>
          \E p \in Procs : MayDropData(p) /\ call[p].refs["accessPoint"] = r.id]_vars
=============================================================================
