----------------------------- MODULE DeployFeed -----------------------------
(***************************************************************************)
(* The progress feed of one agent: the worker writes a status to the row,  *)
(* then emits frames to the ring and to whoever subscribed; a WebSocket    *)
(* session reads the row, and then, in one go, greets, replays the ring    *)
(* and subscribes.  Requests to the API change the row at any moment.      *)
(***************************************************************************)
EXTENDS Integers, Sequences

CONSTANTS
    Tabs,         \* browser tabs, one session each
    MaxRequests,  \* bound on requests and crashes of the container
    MaxFaults,    \* bound on failed steps and lost connections
    Stages,       \* the stages of a deployment between queued and running, in order
    Fragile,      \* the steps that may fail
    MaxLag,       \* the worker does not emit to a tab with more frames under way
    None          \* no status

ASSUME FeedAssumption ==
    /\ MaxRequests \in Nat /\ MaxFaults \in Nat /\ MaxLag \in Nat
    /\ Stages \in Seq({"allocating_ports", "starting", "health_checking", "registering_route"})
    /\ Stages # <<>>

DEPLOY_STEPS == <<"queued", "allocating_ports", "starting", "health_checking",
                  "registering_route", "running">>

TERMINAL_STATUSES == {"failed", "stopped", "crashed"}

Statuses == {DEPLOY_STEPS[i] : i \in 1 .. Len(DEPLOY_STEPS)} \cup TERMINAL_STATUSES
            \cup {"updating"}

StepNames == Statuses \cup {"pulling_image", "creating_backup", "stopping_container",
                            "starting_updated", "updating_complete"}

Frame == [type : {"hello", "step", "ready", "done", "error"}, status : StepNames \cup {None},
          state : {"started", "ok", "failed", None}]

StepFrame(step, state) == [type |-> "step", status |-> step, state |-> state]
Hello(status) == [type |-> "hello", status |-> status, state |-> None]
Done(status)  == [type |-> "done", status |-> status, state |-> None]
Ready         == [type |-> "ready", status |-> None, state |-> None]
Error         == [type |-> "error", status |-> None, state |-> None]

\* What a job does, in order: it writes a status or none, or works, and then
\* emits.  "step" is the step that a failure is reported for.
Writes(s)       == [step |-> s, write |-> s, emits |-> <<>>]
Emits(s, fs)    == [step |-> s, write |-> None, emits |-> fs]

\* A stage of drive: setStatus writes and emits, then the work ends with an ok.
DeployStage(s) ==
    <<Writes(s), Emits(s, <<StepFrame(s, "started")>>), Emits(s, <<StepFrame(s, "ok")>>)>>

LastStage == Stages[Len(Stages)]

DeployScript ==
    [i \in 1 .. 3 * Len(Stages) |-> DeployStage(Stages[((i - 1) \div 3) + 1])[((i - 1) % 3) + 1]]
    \o <<[Writes("running") EXCEPT !.step = LastStage],
         Emits(LastStage, <<StepFrame("running", "ok"), Ready>>)>>

\* updateAgent emits an ok when a stage begins and another when it ends; from
\* the backup on it does not wait between the end of one and the beginning of
\* the next.
Ok(s)         == StepFrame(s, "ok")
Turn(s, next) == Emits(s, <<Ok(s), Ok(next)>>)

UpdateScript ==
    << [Writes("updating") EXCEPT !.step = "pulling_image"],
       Emits("pulling_image", <<StepFrame("updating", "started"), Ok("pulling_image")>>),
       Emits("pulling_image", <<Ok("pulling_image")>>),
       Emits("creating_backup", <<Ok("creating_backup")>>),
       Turn("creating_backup", "stopping_container"),
       Turn("stopping_container", "starting_updated"),
       Turn("starting_updated", "health_checking"),
       Emits("health_checking", <<Ok("health_checking")>>),
       [Writes("running") EXCEPT !.step = "health_checking"],
       Emits("health_checking", <<Ok("running"), Ok("updating_complete"), Ready>>) >>

Script(op) == IF op = "deploy" THEN DeployScript ELSE UpdateScript

VARIABLES
    row,       \* the agent's row: its status and whether it has a URL
    job,       \* the worker's job and how far it is
    ring,      \* stepHistory: the frames kept for late subscribers
    socket,    \* per tab: the session and what it read of the row
    wire,      \* per tab: frames sent and not yet received
    sent,      \* history: the step and ready frames sent to the tab
    requests,  \* requests so far
    faults     \* failures so far

feed == <<row, job, ring, socket, wire, sent, requests, faults>>

Idle == [op |-> "none", at |-> 1, act |-> "script"]

Session == [phase : {"none", "lookup", "attach", "live", "closed"},
            status : Statuses \cup {None}, open : BOOLEAN]

FeedInit ==
    /\ row = [status |-> "queued", url |-> FALSE]
    /\ job = Idle /\ ring = <<>>
    /\ socket = [t \in Tabs |-> [phase |-> "none", status |-> None, open |-> FALSE]]
    /\ wire = [t \in Tabs |-> <<>>] /\ sent = [t \in Tabs |-> <<>>]
    /\ requests = 0 /\ faults = 0

Fault == faults < MaxFaults /\ faults' = faults + 1

-----------------------------------------------------------------------------
(* The bus: every frame goes to the ring, unless it is the last one, and to *)
(* every subscriber whose socket is still open.                             *)

Subscribed(t) == socket[t].phase = "live"
Hears(t)      == Subscribed(t) /\ socket[t].open

Fanout(fs) == wire' = [t \in Tabs |-> IF Hears(t) THEN wire[t] \o fs ELSE wire[t]]

Emit(fs) ==
    /\ ring' = ring \o fs /\ Fanout(fs)
    /\ sent' = [t \in Tabs |-> IF Hears(t) THEN sent[t] \o fs ELSE sent[t]]

Closed(s) == [s EXCEPT !.phase = "closed", !.open = FALSE]

\* Mutant of CloseOnDone: the subscriber passes the frame on and stays.
StayOnDone(s) == s

\* The subscriber closes its socket, which takes the subscription down.
CloseOnDone(s) == Closed(s)

\* Mutant of KeptAfterDone: nobody clears the history, which has the end too.
KeptWithDone(status) == Append(ring, Done(status))

\* clearSteps.
KeptAfterDone(status) == <<>>

EmitDone(status) ==
    /\ ring' = KeptAfterDone(status) /\ Fanout(<<Done(status)>>)
    /\ socket' = [t \in Tabs |-> IF Hears(t) THEN CloseOnDone(socket[t]) ELSE socket[t]]
    /\ UNCHANGED sent

-----------------------------------------------------------------------------
(* The worker. *)

Claim ==
    /\ job = Idle /\ row.status = "queued"
    /\ row' = [row EXCEPT !.status = "allocating_ports"]
    /\ job' = [Idle EXCEPT !.op = "deploy"]
    /\ UNCHANGED <<ring, socket, wire, sent, requests, faults>>

ClaimUpdate ==
    /\ job = Idle /\ row.status = "updating"
    /\ job' = [Idle EXCEPT !.op = "update"]
    /\ UNCHANGED <<row, ring, socket, wire, sent, requests, faults>>

Working == /\ job.op # "none" /\ job.act = "script"
           /\ \A t \in Tabs : Len(wire[t]) <= MaxLag

Advance == IF job.at = Len(Script(job.op)) THEN Idle ELSE [job EXCEPT !.at = @ + 1]

\* One await of drive or updateAgent comes back.
Perform ==
    LET s == Script(job.op)[job.at]
    IN /\ Working
       /\ job' = Advance
       /\ row' = IF s.write = None THEN row
                 ELSE [status |-> s.write, url |-> row.url \/ s.write = "running"]
       /\ Emit(s.emits)
       /\ UNCHANGED <<socket, requests, faults>>

\* failDeployment, await by await.
FailStep ==
    /\ Working /\ Script(job.op)[job.at].step \in Fragile /\ Fault
    /\ Emit(<<StepFrame(Script(job.op)[job.at].step, "failed")>>)
    /\ job' = [job EXCEPT !.act = "failWrite"]
    /\ UNCHANGED <<row, socket, requests>>

FailWrite ==
    /\ job.act = "failWrite" /\ job' = [job EXCEPT !.act = "cleanup"]
    /\ row' = [row EXCEPT !.status = "failed"]
    /\ UNCHANGED <<ring, socket, wire, sent, requests, faults>>

FailDone ==
    /\ job.act = "cleanup" /\ job' = Idle
    /\ EmitDone("failed")
    /\ UNCHANGED <<row, requests, faults>>

-----------------------------------------------------------------------------
(* Others that write the row, and emit nothing. *)

Request(s) ==
    /\ requests < MaxRequests /\ requests' = requests + 1
    /\ row' = [row EXCEPT !.status = s]
    /\ UNCHANGED <<job, ring, socket, wire, sent, faults>>

Control    == \E s \in {"queued", "stopped"} : row.status # s /\ Request(s)
AskUpdate  == row.status \in {"running", "failed"} /\ Request("updating")
BoxCrashes == row.status = "running" /\ Request("crashed")

-----------------------------------------------------------------------------
(* A session. *)

Become(t, s) == socket' = [socket EXCEPT ![t] = s]

Connect(t) ==
    /\ socket[t].phase = "none"
    /\ Become(t, [phase |-> "lookup", status |-> None, open |-> TRUE])
    /\ UNCHANGED <<row, job, ring, wire, sent, requests, faults>>

Lookup(t) ==
    /\ socket[t].phase = "lookup"
    /\ Become(t, [socket[t] EXCEPT !.phase = "attach", !.status = row.status])
    /\ UNCHANGED <<row, job, ring, wire, sent, requests, faults>>

\* What the session says at once; nothing of it arrives at a closed socket.
Greeting(t) ==
    <<Hello(socket[t].status)>> \o ring
    \o (IF socket[t].status \in TERMINAL_STATUSES THEN <<Done(socket[t].status)>> ELSE <<>>)

Attach(t) ==
    LET s == socket[t]
    IN /\ s.phase = "attach"
       /\ wire' = IF s.open THEN [wire EXCEPT ![t] = @ \o Greeting(t)] ELSE wire
       /\ sent' = IF s.open THEN [sent EXCEPT ![t] = ring] ELSE sent
       /\ Become(t, IF s.status \in TERMINAL_STATUSES THEN Closed(s)
                    ELSE [s EXCEPT !.phase = "live"])
       /\ UNCHANGED <<row, job, ring, requests, faults>>

LookupFails(t) ==
    /\ socket[t].phase = "lookup" /\ Fault
    /\ wire' = IF socket[t].open THEN [wire EXCEPT ![t] = Append(@, Error)] ELSE wire
    /\ Become(t, Closed(socket[t]))
    /\ UNCHANGED <<row, job, ring, sent, requests>>

\* The connection is lost, with the frames under way.  A session that has not
\* attached yet has no close handler and will subscribe all the same.
Drop(t) ==
    /\ socket[t].open /\ Fault
    /\ Become(t, IF Subscribed(t) THEN Closed(socket[t]) ELSE [socket[t] EXCEPT !.open = FALSE])
    /\ wire' = [wire EXCEPT ![t] = <<>>]
    /\ UNCHANGED <<row, job, ring, sent, requests>>

Receive(t) ==
    /\ wire[t] # <<>>
    /\ wire' = [wire EXCEPT ![t] = Tail(@)]
    /\ UNCHANGED <<row, job, ring, socket, sent, requests, faults>>

-----------------------------------------------------------------------------
WorkerStep == Claim \/ ClaimUpdate \/ Perform \/ FailWrite \/ FailDone

SessionStep(t) == Lookup(t) \/ Attach(t)

Environment ==
    \/ FailStep \/ Control \/ AskUpdate \/ BoxCrashes
    \/ \E t \in Tabs : LookupFails(t) \/ Drop(t)

FeedTypeOK ==
    /\ row \in [status : Statuses, url : BOOLEAN]
    /\ job \in [op : {"none", "deploy", "update"}, at : Nat,
                act : {"script", "failWrite", "cleanup"}]
    /\ ring \in Seq(Frame)
    /\ socket \in [Tabs -> Session]
    /\ wire \in [Tabs -> Seq(Frame)] /\ sent \in [Tabs -> Seq(Frame)]
    /\ requests \in Nat /\ faults \in Nat

\* An open subscriber has been sent exactly the frames that the ring keeps:
\* none is lost or sent twice between the replay and the subscription,
\* whenever the session attached and however the row had changed since its
\* lookup.
SubscriberHoldsRing == \A t \in Tabs : Hears(t) => sent[t] = ring
=============================================================================
