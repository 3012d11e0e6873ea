-------------------------- MODULE DeployViewProofs --------------------------
(***************************************************************************)
(* The feed and the view for any number of tabs, slots and stages, and any *)
(* bounds.  The inductive invariant says what may be on the ring, on the   *)
(* wire and in a poll's answer before and after an end could be seen.      *)
(***************************************************************************)
EXTENDS DeployView, SequenceTheorems, TLAPS

\* A frame that names a step names a real one.
Heard == {f \in Frame : f.type \in {"hello", "step", "done"} => f.status \in StepNames}

\* What the ring keeps, and what a tab may be sent.
Quiet    == {f \in Heard : f.type \in {"step", "ready"}}
Sound(t) == {f \in Heard : f.type = "done" => ended[t]}

Entry == [step : StepNames, write : Statuses \cup {None}, emits : Seq(Quiet)]

\* The row, and how far a job is in its script.
JobInv ==
    /\ row \in [status : Statuses, url : BOOLEAN]
    /\ job \in [op : {"none", "deploy", "update"}, at : Nat,
                act : {"script", "failWrite", "cleanup"}]
    /\ job.op # "none" => job.at \in 1 .. Len(Script(job.op))
    /\ requests \in Nat /\ faults \in Nat

\* The ring and what subscribers got of it.
RingInv ==
    /\ ring \in Seq(Quiet)
    /\ sent \in [Tabs -> Seq(Quiet)]
    /\ socket \in [Tabs -> Session]
    /\ SubscriberHoldsRing

\* The view's own variables.
ViewInv ==
    /\ view \in [Tabs -> DeployState]
    /\ polls \in [Tabs -> [Slots -> [phase : {"free", "asked", "read"},
                                     status : Statuses \cup {None}, url : BOOLEAN]]]
    /\ ended \in [Tabs -> BOOLEAN]

\* Nobody knows of an end that has not been there to be seen.
WireInv == \A t \in Tabs : wire[t] \in Seq(Sound(t))

SessionInv ==
    \A t \in Tabs :
        /\ socket[t].phase # "none" => view[t].mounted
        /\ socket[t].phase = "attach" =>
              /\ socket[t].status \in Statuses
              /\ socket[t].status \in TERMINAL_STATUSES => ended[t]

PollInv ==
    \A t \in Tabs :
        /\ view[t].timer => view[t].mounted
        /\ \A i \in Slots :
              /\ polls[t][i].phase # "free" => view[t].mounted
              /\ polls[t][i].phase = "read" =>
                    /\ polls[t][i].status \in Statuses
                    /\ polls[t][i].status \in Ends => ended[t]

EndInv ==
    \A t \in Tabs :
        view[t].mounted /\ (row.status \in Ends \/ job.act = "cleanup") => ended[t]

IInv == /\ JobInv /\ RingInv /\ ViewInv
        /\ wire \in [Tabs -> Seq(Heard)]
        /\ WireInv /\ SessionInv /\ PollInv /\ EndInv /\ NoFalseEnd

-----------------------------------------------------------------------------
\* The stages of a deployment are steps and statuses.
LEMMA StageNames ==
    /\ Len(Stages) \in Nat \ {0}
    /\ \A i \in 1 .. Len(Stages) : Stages[i] \in Statuses
    /\ Statuses \subseteq StepNames
<1>1. Len(Stages) \in Nat \ {0}
  BY FeedAssumption, EmptySeq
<1>2. DEPLOY_STEPS[2] = "allocating_ports" /\ DEPLOY_STEPS[3] = "starting"
      /\ DEPLOY_STEPS[4] = "health_checking" /\ DEPLOY_STEPS[5] = "registering_route"
      /\ Len(DEPLOY_STEPS) = 6
  BY DEF DEPLOY_STEPS
<1>3. {"allocating_ports", "starting", "health_checking", "registering_route"} \subseteq Statuses
  BY <1>2 DEF Statuses
<1>4. \A i \in 1 .. Len(Stages) : Stages[i] \in Statuses
  BY <1>3, FeedAssumption, ElementOfSeq
<1>. QED  BY <1>1, <1>4 DEF StepNames

\* The names that the jobs write are statuses.
LEMMA Names ==
    /\ {"queued", "allocating_ports", "running", "health_checking", "updating",
        "failed", "stopped", "crashed"} \subseteq Statuses
    /\ Statuses \subseteq StepNames
<1>1. DEPLOY_STEPS[1] = "queued" /\ DEPLOY_STEPS[2] = "allocating_ports"
      /\ DEPLOY_STEPS[4] = "health_checking" /\ DEPLOY_STEPS[6] = "running"
      /\ Len(DEPLOY_STEPS) = 6
  BY DEF DEPLOY_STEPS
<1>. QED  BY <1>1 DEF Statuses, StepNames, TERMINAL_STATUSES

\* Step frames, and the frame that ends a deployment well, are kept.
LEMMA QuietFrames ==
    /\ \A s \in StepNames : \A x \in {"started", "ok", "failed"} : StepFrame(s, x) \in Quiet
    /\ Ready \in Quiet
    /\ Quiet \subseteq Heard
  BY DEF StepFrame, Ready, Quiet, Heard, Frame

\* One or two or three kept frames are a sequence of kept frames.
LEMMA FewFrames ==
    ASSUME NEW S
    PROVE  /\ <<>> \in Seq(S)
           /\ \A x \in S : <<x>> \in Seq(S)
           /\ \A x, y \in S : <<x, y>> \in Seq(S)
           /\ \A x, y, z \in S : <<x, y, z>> \in Seq(S)
  OBVIOUS

\* Every entry of a stage is an entry.
LEMMA StageEntries ==
    ASSUME NEW s \in Statuses, NEW k \in 1 .. 3
    PROVE  DeployStage(s)[k] \in Entry
<1>1. s \in StepNames
  BY Names
<1>2. Writes(s) \in Entry
  BY <1>1, FewFrames DEF Writes, Entry
<1>3. \A x \in {"started", "ok", "failed"} : Emits(s, <<StepFrame(s, x)>>) \in Entry
  <2>1. \A x \in {"started", "ok", "failed"} : <<StepFrame(s, x)>> \in Seq(Quiet)
    BY <1>1, QuietFrames, FewFrames
  <2>. QED  BY <1>1, <2>1 DEF Emits, Entry
<1>. QED  BY <1>2, <1>3 DEF DeployStage

\* Every step of a job is a status to write or frames to keep.
LEMMA DeployScriptType == DeployScript \in Seq(Entry) /\ Len(DeployScript) >= 1
<1>. DEFINE n == Len(Stages)
            s1 == [i \in 1 .. 3 * n |-> DeployStage(Stages[((i - 1) \div 3) + 1])[((i - 1) % 3) + 1]]
            s2 == <<[Writes("running") EXCEPT !.step = LastStage],
                    Emits(LastStage, <<StepFrame("running", "ok"), Ready>>)>>
<1>1. n \in Nat \ {0}
  BY StageNames
<1>2. \A i \in 1 .. 3 * n : ((i - 1) \div 3) + 1 \in 1 .. n /\ ((i - 1) % 3) + 1 \in 1 .. 3
  BY <1>1
<1>3. \A i \in 1 .. 3 * n : s1[i] \in Entry
  BY <1>2, StageNames, StageEntries
<1>4. s1 \in Seq(Entry)
  <2>1. 3 * n \in Nat
    BY <1>1
  <2>2. s1 \in [1 .. 3 * n -> Entry]
    BY <1>3
  <2>. QED  BY <2>1, <2>2, SeqDef
<1>5. LastStage \in StepNames
  BY <1>1, StageNames DEF LastStage
<1>6. s2 \in Seq(Entry) /\ Len(s2) = 2
  <2>1. [Writes("running") EXCEPT !.step = LastStage] \in Entry
    BY <1>5, Names, FewFrames DEF Writes, Entry
  <2>2. <<StepFrame("running", "ok"), Ready>> \in Seq(Quiet)
    BY Names, QuietFrames, FewFrames
  <2>3. Emits(LastStage, <<StepFrame("running", "ok"), Ready>>) \in Entry
    BY <1>5, <2>2 DEF Emits, Entry
  <2>. QED  BY <2>1, <2>3, FewFrames
<1>7. DeployScript = s1 \o s2
  BY DEF DeployScript
<1>8. Len(s1) \in Nat
  BY <1>4, LenProperties
<1>. HIDE DEF s1, s2
<1>. QED  BY <1>4, <1>6, <1>7, <1>8, ConcatProperties

\* The script of an update is one.
LEMMA UpdateScriptType == UpdateScript \in Seq(Entry) /\ Len(UpdateScript) >= 1
<1>1. {"pulling_image", "creating_backup", "stopping_container", "starting_updated",
       "health_checking", "updating", "running", "updating_complete"} \subseteq StepNames
  BY Names DEF StepNames
<1>2. \A s \in StepNames : Ok(s) \in Quiet
  BY QuietFrames DEF Ok
<1>3. \A s, n \in StepNames : Turn(s, n) \in Entry
  <2>1. \A s, n \in StepNames : <<Ok(s), Ok(n)>> \in Seq(Quiet)
    BY <1>2, FewFrames
  <2>. QED  BY <2>1 DEF Turn, Emits, Entry
<1>4. [Writes("updating") EXCEPT !.step = "pulling_image"] \in Entry
      /\ [Writes("running") EXCEPT !.step = "health_checking"] \in Entry
  BY <1>1, Names, FewFrames DEF Writes, Entry
<1>5. Emits("pulling_image", <<StepFrame("updating", "started"), Ok("pulling_image")>>) \in Entry
  <2>1. <<StepFrame("updating", "started"), Ok("pulling_image")>> \in Seq(Quiet)
    BY <1>1, <1>2, QuietFrames, FewFrames
  <2>. QED  BY <1>1, <2>1 DEF Emits, Entry
<1>6. \A s \in StepNames : Emits(s, <<Ok(s)>>) \in Entry
  <2>1. \A s \in StepNames : <<Ok(s)>> \in Seq(Quiet)
    BY <1>2, FewFrames
  <2>. QED  BY <2>1 DEF Emits, Entry
<1>7. Emits("health_checking", <<Ok("running"), Ok("updating_complete"), Ready>>) \in Entry
  <2>1. <<Ok("running"), Ok("updating_complete"), Ready>> \in Seq(Quiet)
    BY <1>1, <1>2, QuietFrames, FewFrames
  <2>. QED  BY <1>1, <2>1 DEF Emits, Entry
<1>8. /\ Emits("pulling_image", <<Ok("pulling_image")>>) \in Entry
      /\ Emits("creating_backup", <<Ok("creating_backup")>>) \in Entry
      /\ Emits("health_checking", <<Ok("health_checking")>>) \in Entry
      /\ Turn("creating_backup", "stopping_container") \in Entry
      /\ Turn("stopping_container", "starting_updated") \in Entry
      /\ Turn("starting_updated", "health_checking") \in Entry
  BY <1>1, <1>3, <1>6
<1>. QED  BY <1>4, <1>5, <1>7, <1>8 DEF UpdateScript

\* What a job does at its place is an entry of its script.
LEMMA AtEntry ==
    ASSUME NEW op \in {"deploy", "update"}
    PROVE  /\ Script(op) \in Seq(Entry) /\ Len(Script(op)) \in Nat /\ Len(Script(op)) >= 1
           /\ \A i \in 1 .. Len(Script(op)) : Script(op)[i] \in Entry
<1>1. Script(op) \in Seq(Entry) /\ Len(Script(op)) >= 1
  BY DeployScriptType, UpdateScriptType DEF Script
<1>. QED  BY <1>1, LenProperties, ElementOfSeq

-----------------------------------------------------------------------------
\* At first nothing was sent, read or shown.
LEMMA InitIInv == Init => IInv
<1> SUFFICES ASSUME Init PROVE IInv
  OBVIOUS
<1>1. JobInv
  BY Names DEF Init, FeedInit, JobInv, Idle
<1>2. RingInv
  BY DEF Init, FeedInit, RingInv, Session, SubscriberHoldsRing, Hears, Subscribed
<1>3. ViewInv
  <2>1. InitialDeployState \in DeployState
    BY Names DEF InitialDeployState, DeployState
  <2>2. Free \in [phase : {"free", "asked", "read"}, status : Statuses \cup {None}, url : BOOLEAN]
    BY DEF Free
  <2>. QED  BY <2>1, <2>2 DEF Init, ViewInv
<1>4. wire \in [Tabs -> Seq(Heard)] /\ WireInv
  BY DEF Init, FeedInit, WireInv
<1>5. SessionInv /\ PollInv /\ EndInv /\ NoFalseEnd
  BY DEF Init, FeedInit, SessionInv, PollInv, EndInv, NoFalseEnd, InitialDeployState, Free
<1>. QED  BY <1>1, <1>2, <1>3, <1>4, <1>5 DEF IInv

-----------------------------------------------------------------------------
(* The row and the job *)

\* The worker keeps its place in its script.
LEMMA JobStep ==
    ASSUME JobInv,
           \/ WorkerStep \/ Environment
           \/ UNCHANGED <<row, job, requests>> /\ (UNCHANGED faults \/ Fault)
    PROVE  JobInv'
<1>. USE Names DEF JobInv
<1>1. CASE Claim
  BY <1>1, AtEntry DEF Claim, Idle
<1>2. CASE ClaimUpdate
  BY <1>2, AtEntry DEF ClaimUpdate, Idle
<1>3. CASE Perform
  <2>. DEFINE s == Script(job.op)[job.at]
  <2>1. s \in Entry /\ Len(Script(job.op)) \in Nat
    BY <1>3, AtEntry DEF Perform, Working
  <2>2. s.write \in Statuses \cup {None}
    BY <2>1 DEF Entry
  <2>. HIDE DEF s
  <2>3. row' = IF s.write = None THEN row
               ELSE [status |-> s.write, url |-> row.url \/ s.write = "running"]
    BY <1>3 DEF Perform, s
  <2>4. row' \in [status : Statuses, url : BOOLEAN]
    BY <2>2, <2>3
  <2>5. job' = (IF job.at = Len(Script(job.op)) THEN Idle ELSE [job EXCEPT !.at = @ + 1])
        /\ UNCHANGED <<requests, faults>> /\ job.op # "none"
    BY <1>3 DEF Perform, Advance, Working
  <2>6. /\ job' \in [op : {"none", "deploy", "update"}, at : Nat,
                     act : {"script", "failWrite", "cleanup"}]
        /\ job'.op # "none" => job'.at \in 1 .. Len(Script(job'.op))
    BY <2>1, <2>5 DEF Idle
  <2>. QED  BY <2>4, <2>5, <2>6
<1>4. CASE FailWrite
  BY <1>4 DEF FailWrite
<1>5. CASE FailDone
  BY <1>5 DEF FailDone, Idle
<1>6. CASE FailStep
  BY <1>6 DEF FailStep, Fault
<1>7. CASE Control \/ AskUpdate \/ BoxCrashes
  BY <1>7 DEF Control, AskUpdate, BoxCrashes, Request
<1>8. CASE \E t \in Tabs : LookupFails(t) \/ Drop(t)
  BY <1>8 DEF LookupFails, Drop, Fault
<1>9. CASE UNCHANGED <<row, job, requests>> /\ (UNCHANGED faults \/ Fault)
  BY <1>9 DEF Fault
<1>. QED  BY <1>1, <1>2, <1>3, <1>4, <1>5, <1>6, <1>7, <1>8, <1>9 DEF WorkerStep, Environment

-----------------------------------------------------------------------------
(* The ring and the subscribers *)

\* Frames that are emitted go to the ring and to every open subscriber.
LEMMA EmitStep ==
    ASSUME RingInv, NEW fs \in Seq(Quiet), Emit(fs), UNCHANGED socket
    PROVE  RingInv'
<1>1. ring' = ring \o fs /\ ring' \in Seq(Quiet)
  BY ConcatProperties DEF RingInv, Emit
<1>2. ASSUME NEW t \in Tabs
      PROVE  sent[t] \o fs \in Seq(Quiet) /\ sent[t] \in Seq(Quiet)
  BY ConcatProperties DEF RingInv
<1>3. sent' = [t \in Tabs |-> IF Hears(t) THEN sent[t] \o fs ELSE sent[t]]
  BY DEF Emit
<1>4. sent' \in [Tabs -> Seq(Quiet)]
  BY <1>2, <1>3
<1>5. \A t \in Tabs : Hears(t)' => sent'[t] = ring'
  BY <1>1, <1>3 DEF RingInv, SubscriberHoldsRing, Hears, Subscribed
<1>. QED  BY <1>1, <1>4, <1>5 DEF RingInv, SubscriberHoldsRing

\* The frames of a job's place, and those of a failure, are kept.
LEMMA JobEmits ==
    ASSUME JobInv, Working
    PROVE  /\ Script(job.op)[job.at].emits \in Seq(Quiet)
           /\ <<StepFrame(Script(job.op)[job.at].step, "failed")>> \in Seq(Quiet)
<1>1. Script(job.op)[job.at] \in Entry
  BY AtEntry DEF JobInv, Working
<1>. QED  BY <1>1, QuietFrames, FewFrames DEF Entry

\* An open subscriber keeps up with the ring in every step.
LEMMA RingStep ==
    ASSUME JobInv, RingInv,
           \/ WorkerStep \/ Environment
           \/ \E t \in Tabs : Connect(t) \/ SessionStep(t)
           \/ UNCHANGED <<ring, socket, sent>>
    PROVE  RingInv'
<1>1. CASE UNCHANGED <<ring, socket, sent>>
  BY <1>1 DEF RingInv, SubscriberHoldsRing, Hears, Subscribed
<1>2. CASE Perform
  BY <1>2, JobEmits, EmitStep DEF Perform
<1>3. CASE FailStep
  BY <1>3, JobEmits, EmitStep DEF FailStep
<1>4. CASE FailDone
  <2>1. /\ ring' = <<>> /\ UNCHANGED sent
        /\ socket' = [t \in Tabs |-> IF Hears(t) THEN [socket[t] EXCEPT !.phase = "closed", !.open = FALSE] ELSE socket[t]]
    BY <1>4 DEF FailDone, EmitDone, KeptAfterDone, CloseOnDone, Closed
  <2>2. socket' \in [Tabs -> Session]
    BY <2>1 DEF RingInv, Session
  <2>3. \A t \in Tabs : ~Hears(t)'
    BY <2>1 DEF RingInv, Session, Hears, Subscribed
  <2>. QED  BY <2>1, <2>2, <2>3, EmptySeq DEF RingInv, SubscriberHoldsRing
<1>5. ASSUME NEW t \in Tabs, Connect(t) \/ Lookup(t) PROVE RingInv'
  <2>1. /\ UNCHANGED <<ring, sent>>
        /\ \E s \in Session : socket' = [socket EXCEPT ![t] = s] /\ s.phase # "live"
    <3>1. CASE Connect(t)
      <4>. DEFINE s == [phase |-> "lookup", status |-> None, open |-> TRUE]
      <4>1. s \in Session /\ s.phase # "live"
        BY DEF Session
      <4>. QED  BY <3>1, <4>1 DEF Connect, Become
    <3>2. CASE Lookup(t)
      <4>. DEFINE s == [socket[t] EXCEPT !.phase = "attach", !.status = row.status]
      <4>1. s \in Session /\ s.phase # "live"
        BY DEF Session, RingInv, JobInv
      <4>. QED  BY <3>2, <4>1 DEF Lookup, Become
    <3>. QED  BY <1>5, <3>1, <3>2
  <2>. QED  BY <2>1 DEF RingInv, SubscriberHoldsRing, Hears, Subscribed
<1>6. ASSUME NEW t \in Tabs, LookupFails(t) \/ Drop(t) PROVE RingInv'
  <2>1. /\ UNCHANGED <<ring, sent>>
        /\ \E s \in Session : socket' = [socket EXCEPT ![t] = s] /\ ~s.open
    <3>1. Closed(socket[t]) \in Session /\ [socket[t] EXCEPT !.open = FALSE] \in Session
      BY DEF Closed, RingInv, Session
    <3>2. ~Closed(socket[t]).open /\ ~[socket[t] EXCEPT !.open = FALSE].open
      BY DEF Closed, RingInv, Session
    <3>. QED  BY <1>6, <3>1, <3>2 DEF LookupFails, Drop, Become
  <2>. QED  BY <2>1 DEF RingInv, SubscriberHoldsRing, Hears, Subscribed
<1>7. ASSUME NEW t \in Tabs, Attach(t) PROVE RingInv'
  <2>. DEFINE s == IF socket[t].status \in TERMINAL_STATUSES THEN Closed(socket[t])
                   ELSE [socket[t] EXCEPT !.phase = "live"]
  <2>1. s \in Session /\ (s.open => socket[t].open)
    BY DEF Closed, RingInv, Session
  <2>2. socket' = [socket EXCEPT ![t] = s] /\ UNCHANGED ring
    BY <1>7 DEF Attach, Become
  <2>3. sent' = IF socket[t].open THEN [sent EXCEPT ![t] = ring] ELSE sent
    BY <1>7 DEF Attach
  <2>. HIDE DEF s
  <2>4. socket' \in [Tabs -> Session] /\ sent' \in [Tabs -> Seq(Quiet)] /\ ring' \in Seq(Quiet)
    BY <2>1, <2>2, <2>3 DEF RingInv
  <2>5. \A x \in Tabs : Hears(x)' => sent'[x] = ring'
    BY <2>1, <2>2, <2>3 DEF RingInv, SubscriberHoldsRing, Hears, Subscribed
  <2>. QED  BY <2>4, <2>5 DEF RingInv, SubscriberHoldsRing
<1>8. CASE Claim \/ ClaimUpdate \/ FailWrite \/ Control \/ AskUpdate \/ BoxCrashes
  BY <1>1, <1>8 DEF Claim, ClaimUpdate, FailWrite, Control, AskUpdate, BoxCrashes, Request
<1>. QED  BY <1>1, <1>2, <1>3, <1>4, <1>5, <1>6, <1>7, <1>8 DEF WorkerStep, Environment, SessionStep

-----------------------------------------------------------------------------
(* What the tabs know *)

\* An end that can be seen is noted, and never forgotten.
LEMMA Watched ==
    ASSUME ViewInv, Watch
    PROVE  /\ ended' \in [Tabs -> BOOLEAN] /\ EndInv'
           /\ \A t \in Tabs : ended[t] => ended'[t]
<1>1. ended' = [t \in Tabs |-> ended[t] \/ (view'[t].mounted /\ (row'.status \in Ends \/ job'.act = "cleanup"))]
  BY DEF Watch, Seen
<1>. QED  BY <1>1 DEF ViewInv, EndInv

\* Every step notes which tabs could have seen an end.
LEMMA EveryStepWatches == Next => Watch
  BY DEF Next, FeedStep, Mount, OnMessage, PollStep, PollAsk, PollRead, PollReturn, PollFails

\* A frame ends the view only if it is the last one.
LEMMA ReduceFrame ==
    ASSUME NEW v \in DeployState, NEW f \in Heard
    PROVE  /\ reduceFrame(v, f) \in DeployState
           /\ reduceFrame(v, f).mounted = v.mounted /\ reduceFrame(v, f).timer = v.timer
           /\ reduceFrame(v, f).terminal => v.terminal \/ f.type = "done"
<1>1. CASE f.type = "hello"
  <2>1. reduceFrame(v, f) = [v EXCEPT !.status = f.status] /\ f.status \in StepNames
    BY <1>1 DEF reduceFrame, Heard
  <2>. QED  BY <2>1 DEF DeployState
<1>2. CASE f.type = "step"
  <2>1. /\ reduceFrame(v, f) = [v EXCEPT !.steps[f.status] = f.state, !.status = f.status]
        /\ f.status \in StepNames /\ f.state \in {"started", "ok", "failed", None}
    BY <1>2 DEF reduceFrame, Heard, Frame
  <2>. QED  BY <2>1 DEF DeployState
<1>3. CASE f.type = "ready"
  <2>1. reduceFrame(v, f) = [v EXCEPT !.url = TRUE]
    BY <1>3 DEF reduceFrame
  <2>. QED  BY <2>1 DEF DeployState
<1>4. CASE f.type = "done"
  <2>. DEFINE ends == f.status \in Ends
  <2>1. /\ reduceFrame(v, f) = [v EXCEPT !.status = f.status, !.terminal = ends]
        /\ f.status \in StepNames /\ ends \in BOOLEAN
    BY <1>4 DEF reduceFrame, Heard
  <2>. HIDE DEF ends
  <2>. QED  BY <1>4, <2>1 DEF DeployState
<1>5. CASE f.type \notin {"hello", "step", "ready", "done"}
  BY <1>5 DEF reduceFrame
<1>. QED  BY <1>1, <1>2, <1>3, <1>4, <1>5

\* A poll ends the view only with an end that it read.
LEMMA PolledRow ==
    ASSUME NEW v \in DeployState, NEW p, p.status \in Statuses, p.url \in BOOLEAN
    PROVE  /\ Polled(v, p) \in DeployState
           /\ Polled(v, p).mounted = v.mounted
           /\ Polled(v, p).timer => v.timer
           /\ Polled(v, p).terminal => v.terminal \/ p.status \in Ends
<1>1. Synthesized(v, p.status) \in [StepNames -> {"started", "ok", "failed", None}]
  BY DEF Synthesized, DeployState
<1>. DEFINE steps == Synthesized(v, p.status)
            ends == p.status \in Ends
<1>2. Polled(v, p) = [v EXCEPT !.status = p.status, !.steps = steps,
                               !.url = @ \/ (ends /\ p.url), !.terminal = @ \/ ends,
                               !.timer = @ /\ ~ends]
  BY DEF Polled
<1>3. p.status \in StepNames
  BY Names
<1>. HIDE DEF steps
<1>. QED  BY <1>1, <1>2, <1>3 DEF DeployState, steps

\* The views and the polls, and what they may claim.
LEMMA ViewStep ==
    ASSUME IInv, Next
    PROVE  /\ ViewInv' /\ PollInv' /\ NoFalseEnd'
           /\ \A t \in Tabs : view[t].mounted => view'[t].mounted
<1>1. /\ ended' \in [Tabs -> BOOLEAN]
      /\ \A t \in Tabs : ended[t] => ended'[t]
  BY Watched, EveryStepWatches DEF IInv
<1>. DEFINE PollRecord == [phase : {"free", "asked", "read"},
                           status : Statuses \cup {None}, url : BOOLEAN]
<1>2. CASE UNCHANGED <<view, polls>>
  BY <1>1, <1>2 DEF IInv, ViewInv, PollInv, NoFalseEnd
<1>3. ASSUME NEW t \in Tabs, Mount(t)
      PROVE  /\ ViewInv' /\ PollInv' /\ NoFalseEnd'
             /\ \A x \in Tabs : view[x].mounted => view'[x].mounted
  <2>1. view' = [view EXCEPT ![t].mounted = TRUE, ![t].timer = TRUE] /\ UNCHANGED polls
    BY <1>3 DEF Mount
  <2>2. view' \in [Tabs -> DeployState]
    BY <2>1 DEF IInv, ViewInv, DeployState
  <2>3. \A x \in Tabs : /\ view'[x].terminal = view[x].terminal
                        /\ view[x].mounted \/ x = t => view'[x].mounted
                        /\ x # t => view'[x] = view[x]
    BY <2>1 DEF IInv, ViewInv, DeployState
  <2>. QED  BY <1>1, <2>1, <2>2, <2>3 DEF IInv, ViewInv, PollInv, NoFalseEnd
<1>4. ASSUME NEW t \in Tabs, OnMessage(t)
      PROVE  /\ ViewInv' /\ PollInv' /\ NoFalseEnd'
             /\ \A x \in Tabs : view[x].mounted => view'[x].mounted
  <2>. DEFINE f == Head(wire[t])
  <2>1. f \in Sound(t) /\ f \in Heard
    BY <1>4, HeadTailProperties DEF OnMessage, Receive, IInv, WireInv, Sound
  <2>2. f.type = "done" => ended[t]
    BY <2>1 DEF Sound
  <2>3. /\ view' = [view EXCEPT ![t] = IF view[t].mounted THEN reduceFrame(view[t], f) ELSE view[t]]
        /\ UNCHANGED polls
    BY <1>4 DEF OnMessage
  <2>4. view[t] \in DeployState
    BY DEF IInv, ViewInv
  <2>. HIDE DEF f
  <2>. DEFINE w == IF view[t].mounted THEN reduceFrame(view[t], f) ELSE view[t]
  <2>5. /\ w \in DeployState /\ w.mounted = view[t].mounted /\ w.timer = view[t].timer
        /\ w.terminal => view[t].terminal \/ ended[t]
    BY <2>1, <2>2, <2>4, ReduceFrame
  <2>. HIDE DEF w
  <2>6. view' = [view EXCEPT ![t] = w] /\ UNCHANGED polls
    BY <2>3 DEF w
  <2>. QED  BY <1>1, <2>5, <2>6 DEF IInv, ViewInv, PollInv, NoFalseEnd
<1>5. ASSUME NEW t \in Tabs, NEW i \in Slots, NEW p \in PollRecord,
             polls' = [polls EXCEPT ![t][i] = p], UNCHANGED view,
             p.phase # "free" => view[t].mounted,
             p.phase = "read" => /\ p.status \in Statuses
                                 /\ p.status \in Ends => ended[t]
      PROVE  /\ ViewInv' /\ PollInv' /\ NoFalseEnd'
             /\ \A x \in Tabs : view[x].mounted => view'[x].mounted
  <2>1. polls' \in [Tabs -> [Slots -> PollRecord]]
    BY <1>5 DEF IInv, ViewInv
  <2>2. \A x \in Tabs : \A j \in Slots : polls'[x][j] = IF x = t /\ j = i THEN p ELSE polls[x][j]
    BY <1>5 DEF IInv, ViewInv
  <2>. QED  BY <1>1, <1>5, <2>1, <2>2 DEF IInv, ViewInv, PollInv, NoFalseEnd
<1>6. ASSUME NEW t \in Tabs, NEW i \in Slots, PollAsk(t, i) \/ PollFails(t, i)
      PROVE  /\ ViewInv' /\ PollInv' /\ NoFalseEnd'
             /\ \A x \in Tabs : view[x].mounted => view'[x].mounted
  <2>1. CASE PollAsk(t, i)
    BY <1>5, <2>1 DEF PollAsk, Poll, Asked, IInv, PollInv
  <2>2. CASE PollFails(t, i)
    BY <1>5, <2>2 DEF PollFails, Poll, Free
  <2>. QED  BY <1>6, <2>1, <2>2
<1>7. ASSUME NEW t \in Tabs, NEW i \in Slots, PollRead(t, i)
      PROVE  /\ ViewInv' /\ PollInv' /\ NoFalseEnd'
             /\ \A x \in Tabs : view[x].mounted => view'[x].mounted
  <2>. DEFINE p == [phase |-> "read", status |-> row.status, url |-> row.url]
  <2>1. p \in PollRecord /\ p.status \in Statuses
    BY DEF IInv, JobInv
  <2>2. polls[t][i].phase # "free" /\ view[t].mounted
    BY <1>7 DEF PollRead, Asked, IInv, PollInv
  <2>3. p.status \in Ends => ended[t]
    BY <2>2 DEF IInv, EndInv
  <2>4. polls' = [polls EXCEPT ![t][i] = p] /\ UNCHANGED view
    BY <1>7 DEF PollRead, Poll
  <2>. QED  BY <1>5, <2>1, <2>2, <2>3, <2>4
<1>8. ASSUME NEW t \in Tabs, NEW i \in Slots, PollReturn(t, i)
      PROVE  /\ ViewInv' /\ PollInv' /\ NoFalseEnd'
             /\ \A x \in Tabs : view[x].mounted => view'[x].mounted
  <2>. DEFINE p == polls[t][i]
              w == Polled(view[t], p)
  <2>1. /\ view' = [view EXCEPT ![t] = w]
        /\ polls' = [polls EXCEPT ![t][i] = Free]
    BY <1>8 DEF PollReturn, Poll
  <2>2. p.status \in Statuses /\ p.url \in BOOLEAN /\ (p.status \in Ends => ended[t])
    BY <1>8 DEF PollReturn, IInv, PollInv, ViewInv
  <2>3. view[t] \in DeployState
    BY DEF IInv, ViewInv
  <2>. HIDE DEF p
  <2>4. /\ w \in DeployState /\ w.mounted = view[t].mounted /\ (w.timer => view[t].timer)
        /\ w.terminal => view[t].terminal \/ ended[t]
    BY <2>2, <2>3, PolledRow
  <2>. HIDE DEF w
  <2>5. Free \in PollRecord /\ Free.phase = "free"
    BY DEF Free
  <2>6. polls' \in [Tabs -> [Slots -> PollRecord]]
    BY <2>1, <2>5 DEF IInv, ViewInv
  <2>7. \A x \in Tabs : \A j \in Slots : polls'[x][j] = IF x = t /\ j = i THEN Free ELSE polls[x][j]
    BY <2>1 DEF IInv, ViewInv
  <2>8. /\ view' \in [Tabs -> DeployState]
        /\ \A x \in Tabs : view'[x] = IF x = t THEN w ELSE view[x]
    BY <2>1, <2>4 DEF IInv, ViewInv
  <2>9. ViewInv'
    BY <1>1, <2>6, <2>8 DEF ViewInv
  <2>10. PollInv'
    <3>1. ASSUME NEW x \in Tabs PROVE view'[x].timer => view'[x].mounted
      BY <2>4, <2>8 DEF IInv, PollInv
    <3>2. ASSUME NEW x \in Tabs, NEW j \in Slots, polls'[x][j] = polls[x][j]
          PROVE  /\ polls'[x][j].phase # "free" => view'[x].mounted
                 /\ polls'[x][j].phase = "read" => /\ polls'[x][j].status \in Statuses
                                                   /\ polls'[x][j].status \in Ends => ended'[x]
      <4>1. view[x].mounted => view'[x].mounted
        BY <2>4, <2>8
      <4>. QED  BY <1>1, <3>2, <4>1 DEF IInv, PollInv
    <3>3. \A x \in Tabs : \A j \in Slots :
             polls'[x][j] = polls[x][j] \/ polls'[x][j].phase = "free"
      BY <2>5, <2>7
    <3>. QED  BY <3>1, <3>2, <3>3 DEF PollInv
  <2>11. NoFalseEnd'
    BY <1>1, <2>2, <2>4, <2>8 DEF IInv, NoFalseEnd
  <2>. QED  BY <2>4, <2>8, <2>9, <2>10, <2>11
<1>. QED  BY <1>2, <1>3, <1>4, <1>6, <1>7, <1>8 DEF Next, FeedStep, PollStep

-----------------------------------------------------------------------------
(* What is on its way to a tab *)

\* What was sound to send stays so, and kept frames are always sound.
LEMMA SoundGrows ==
    ASSUME NEW t \in Tabs, ended[t] => ended'[t]
    PROVE  /\ Sound(t) \subseteq Sound(t)' /\ Quiet \subseteq Sound(t)'
           /\ Sound(t)' \subseteq Heard
  BY DEF Sound, Quiet

\* Sound frames may follow what is under way.
LEMMA MoreFrames ==
    ASSUME IInv, NEW t \in Tabs, ended[t] => ended'[t], NEW fs \in Seq(Sound(t)')
    PROVE  /\ wire[t] \o fs \in Seq(Sound(t)') /\ wire[t] \in Seq(Sound(t)')
           /\ wire[t] # <<>> => Tail(wire[t]) \in Seq(Sound(t)')
           /\ <<>> \in Seq(Sound(t)')
<1>1. wire[t] \in Seq(Sound(t)')
  BY SoundGrows, SeqMonotonic DEF IInv, WireInv
<1>. QED  BY <1>1, ConcatProperties, HeadTailProperties, EmptySeq

\* To send something sound to some tabs keeps the wires sound.
LEMMA WireKept ==
    ASSUME IInv, \A t \in Tabs : ended[t] => ended'[t],
           wire' = [t \in Tabs |-> wire'[t]],
           \A t \in Tabs : wire'[t] \in Seq(Sound(t)')
    PROVE  wire' \in [Tabs -> Seq(Heard)] /\ WireInv'
<1>1. ASSUME NEW t \in Tabs PROVE wire'[t] \in Seq(Heard)
  BY SoundGrows, SeqMonotonic
<1>. QED  BY <1>1 DEF WireInv

\* Frames that end a view are fanned out only to tabs that could have seen the end.
LEMMA FanoutKept ==
    ASSUME IInv, \A t \in Tabs : ended[t] => ended'[t], NEW fs, Fanout(fs),
           \A t \in Tabs : Hears(t) => fs \in Seq(Sound(t)')
    PROVE  wire' \in [Tabs -> Seq(Heard)] /\ WireInv'
<1>1. wire' = [t \in Tabs |-> IF Hears(t) THEN wire[t] \o fs ELSE wire[t]]
  BY DEF Fanout
<1>2. ASSUME NEW t \in Tabs
      PROVE  wire'[t] \in Seq(Sound(t)')
  <2>1. <<>> \in Seq(Sound(t)')
    BY EmptySeq
  <2>. QED  BY <1>1, <2>1, MoreFrames
<1>. QED  BY <1>1, <1>2, WireKept

\* Only one tab's wire changes.
LEMMA OneWireKept ==
    ASSUME IInv, \A t \in Tabs : ended[t] => ended'[t], NEW x \in Tabs,
           NEW fs \in Seq(Sound(x)'), wire' = [wire EXCEPT ![x] = fs]
    PROVE  wire' \in [Tabs -> Seq(Heard)] /\ WireInv'
<1>1. ASSUME NEW t \in Tabs
      PROVE  wire'[t] \in Seq(Sound(t)')
  <2>1. <<>> \in Seq(Sound(t)')
    BY EmptySeq
  <2>. QED  BY <2>1, MoreFrames DEF IInv
<1>2. wire' = [t \in Tabs |-> wire'[t]]
  BY DEF IInv
<1>. QED  BY <1>1, <1>2, WireKept

\* A greeting tells of an end only if the row was at one.
LEMMA GreetingSound ==
    ASSUME IInv, NEW t \in Tabs, ended[t] => ended'[t], socket[t].phase = "attach"
    PROVE  Greeting(t) \in Seq(Sound(t)')
<1>. DEFINE st == socket[t].status
<1>1. st \in StepNames /\ (st \in TERMINAL_STATUSES => ended'[t])
  BY Names DEF IInv, SessionInv
<1>2. <<Hello(st)>> \in Seq(Sound(t)')
  <2>1. Hello(st) \in Sound(t)'
    BY <1>1 DEF Hello, Sound, Heard, Frame
  <2>. QED  BY <2>1, FewFrames
<1>3. ring \in Seq(Sound(t)')
  BY SoundGrows, SeqMonotonic DEF IInv, RingInv
<1>4. (IF st \in TERMINAL_STATUSES THEN <<Done(st)>> ELSE <<>>) \in Seq(Sound(t)')
  <2>1. CASE st \in TERMINAL_STATUSES
    <3>1. Done(st) \in Sound(t)'
      BY <1>1, <2>1 DEF Done, Sound, Heard, Frame
    <3>. QED  BY <2>1, <3>1, FewFrames
  <2>2. CASE st \notin TERMINAL_STATUSES
    BY <2>2, EmptySeq
  <2>. QED  BY <2>1, <2>2
<1>5. <<Hello(st)>> \o ring \in Seq(Sound(t)')
  BY <1>2, <1>3, ConcatProperties
<1>. QED  BY <1>4, <1>5, ConcatProperties DEF Greeting

\* Every step leaves a wire with frames of which an end was to be seen.
LEMMA WireStep ==
    ASSUME IInv, Next
    PROVE  wire' \in [Tabs -> Seq(Heard)] /\ WireInv'
<1>1. \A t \in Tabs : ended[t] => ended'[t]
  BY Watched, EveryStepWatches DEF IInv
<1>2. CASE UNCHANGED wire
  <2>1. ASSUME NEW t \in Tabs PROVE wire'[t] \in Seq(Sound(t)')
    <3>1. <<>> \in Seq(Sound(t)')
      BY EmptySeq
    <3>. QED  BY <1>1, <1>2, <3>1, MoreFrames
  <2>2. wire' = [t \in Tabs |-> wire'[t]]
    BY <1>2 DEF IInv
  <2>. QED  BY <1>1, <2>1, <2>2, WireKept
<1>3. ASSUME NEW fs \in Seq(Quiet), Emit(fs)
      PROVE  wire' \in [Tabs -> Seq(Heard)] /\ WireInv'
  <2>1. \A t \in Tabs : fs \in Seq(Sound(t)')
    BY <1>1, SoundGrows, SeqMonotonic
  <2>. QED  BY <1>1, <1>3, <2>1, FanoutKept DEF Emit
<1>4. CASE Perform
  BY <1>3, <1>4, JobEmits DEF Perform, IInv
<1>5. CASE FailStep
  BY <1>3, <1>5, JobEmits DEF FailStep, IInv
<1>6. CASE FailDone
  <2>1. Fanout(<<Done("failed")>>) /\ job.act = "cleanup"
    BY <1>6 DEF FailDone, EmitDone
  <2>2. ASSUME NEW t \in Tabs, Hears(t)
        PROVE  <<Done("failed")>> \in Seq(Sound(t)')
    <3>1. ended'[t]
      BY <1>1, <2>1, <2>2 DEF Hears, Subscribed, IInv, SessionInv, EndInv
    <3>2. Done("failed") \in Sound(t)'
      BY <3>1, Names DEF Done, Sound, Heard, Frame
    <3>. QED  BY <3>2, FewFrames
  <2>. QED  BY <1>1, <2>1, <2>2, FanoutKept
<1>7. ASSUME NEW t \in Tabs, Attach(t)
      PROVE  wire' \in [Tabs -> Seq(Heard)] /\ WireInv'
  <2>1. CASE socket[t].open
    <3>1. Greeting(t) \in Seq(Sound(t)')
      BY <1>1, <1>7, GreetingSound DEF Attach
    <3>2. wire[t] \o Greeting(t) \in Seq(Sound(t)')
      BY <1>1, <3>1, MoreFrames
    <3>3. wire' = [wire EXCEPT ![t] = wire[t] \o Greeting(t)]
      BY <1>7, <2>1 DEF Attach
    <3>. QED  BY <1>1, <3>2, <3>3, OneWireKept
  <2>2. CASE ~socket[t].open
    BY <1>2, <1>7, <2>2 DEF Attach
  <2>. QED  BY <2>1, <2>2
<1>8. ASSUME NEW t \in Tabs, LookupFails(t)
      PROVE  wire' \in [Tabs -> Seq(Heard)] /\ WireInv'
  <2>1. CASE socket[t].open
    <3>1. <<Error>> \in Seq(Sound(t)')
      <4>1. Error \in Sound(t)'
        BY DEF Error, Sound, Heard, Frame
      <4>. QED  BY <4>1, FewFrames
    <3>2. Append(wire[t], Error) \in Seq(Sound(t)')
      <4>1. wire[t] \in Seq(Sound(t)') /\ Error \in Sound(t)'
        BY <1>1, <3>1, MoreFrames DEF Error, Sound, Heard, Frame
      <4>. QED  BY <4>1
    <3>3. wire' = [wire EXCEPT ![t] = Append(wire[t], Error)]
      BY <1>8, <2>1 DEF LookupFails
    <3>. QED  BY <1>1, <3>2, <3>3, OneWireKept
  <2>2. CASE ~socket[t].open
    BY <1>2, <1>8, <2>2 DEF LookupFails
  <2>. QED  BY <2>1, <2>2
<1>9. ASSUME NEW t \in Tabs, Drop(t)
      PROVE  wire' \in [Tabs -> Seq(Heard)] /\ WireInv'
  <2>1. wire' = [wire EXCEPT ![t] = <<>>] /\ <<>> \in Seq(Sound(t)')
    BY <1>9, EmptySeq DEF Drop
  <2>. QED  BY <1>1, <2>1, OneWireKept
<1>10. ASSUME NEW t \in Tabs, Receive(t)
       PROVE  wire' \in [Tabs -> Seq(Heard)] /\ WireInv'
  <2>1. wire' = [wire EXCEPT ![t] = Tail(wire[t])] /\ wire[t] # <<>>
    BY <1>10 DEF Receive
  <2>2. <<>> \in Seq(Sound(t)')
    BY EmptySeq
  <2>3. Tail(wire[t]) \in Seq(Sound(t)')
    BY <1>1, <2>1, <2>2, MoreFrames
  <2>. QED  BY <1>1, <2>1, <2>3, OneWireKept
<1>11. CASE \/ Claim \/ ClaimUpdate \/ FailWrite \/ Control \/ AskUpdate \/ BoxCrashes
            \/ \E t \in Tabs : Lookup(t) \/ Connect(t)
            \/ UNCHANGED feed
            \/ \E t \in Tabs : \E i \in Slots : PollFails(t, i)
  BY <1>2, <1>11 DEF Claim, ClaimUpdate, FailWrite, Control, AskUpdate, BoxCrashes, Request,
                     Lookup, Connect, feed, PollFails
<1>. QED  BY <1>4, <1>5, <1>6, <1>7, <1>8, <1>9, <1>10, <1>11
          DEF Next, FeedStep, WorkerStep, Environment, SessionStep, Mount, OnMessage, PollStep,
              PollAsk, PollRead, PollReturn

\* Whoever has a session is mounted, and an end that it has read was seen.
LEMMA SessionKept ==
    ASSUME IInv, Next
    PROVE  SessionInv'
<1>1. /\ \A t \in Tabs : ended[t] => ended'[t]
      /\ \A t \in Tabs : view[t].mounted => view'[t].mounted
  BY Watched, EveryStepWatches, ViewStep DEF IInv
<1>2. CASE UNCHANGED socket
  BY <1>1, <1>2 DEF IInv, SessionInv
<1>3. ASSUME \A t \in Tabs : \/ socket'[t] = socket[t]
                             \/ socket'[t].phase \in {"live", "closed"} /\ socket[t].phase # "none"
                             \/ /\ socket'[t].phase = socket[t].phase
                                /\ socket'[t].status = socket[t].status
      PROVE  SessionInv'
  BY <1>1, <1>3 DEF IInv, SessionInv
<1>4. CASE FailDone
  <2>1. socket' = [t \in Tabs |-> IF Hears(t) THEN [socket[t] EXCEPT !.phase = "closed", !.open = FALSE]
                                  ELSE socket[t]]
    BY <1>4 DEF FailDone, EmitDone, CloseOnDone, Closed
  <2>. QED  BY <1>3, <2>1 DEF Hears, Subscribed, IInv, RingInv, Session
<1>5. ASSUME NEW t \in Tabs, Attach(t) PROVE SessionInv'
  <2>1. /\ \E s \in {Closed(socket[t]), [socket[t] EXCEPT !.phase = "live"]} :
              socket' = [socket EXCEPT ![t] = s]
        /\ socket[t].phase = "attach"
    BY <1>5 DEF Attach, Become
  <2>. QED  BY <1>3, <2>1 DEF Closed, IInv, RingInv, Session
<1>6. ASSUME NEW t \in Tabs, LookupFails(t) PROVE SessionInv'
  <2>1. socket' = [socket EXCEPT ![t] = Closed(socket[t])] /\ socket[t].phase = "lookup"
    BY <1>6 DEF LookupFails, Become
  <2>. QED  BY <1>3, <2>1 DEF Closed, IInv, RingInv, Session
<1>7. ASSUME NEW t \in Tabs, Drop(t) PROVE SessionInv'
  <2>1. socket' = [socket EXCEPT ![t] = IF Subscribed(t) THEN Closed(socket[t])
                                        ELSE [socket[t] EXCEPT !.open = FALSE]]
    BY <1>7 DEF Drop, Become
  <2>. QED  BY <1>3, <2>1 DEF Closed, Subscribed, IInv, RingInv, Session
<1>8. ASSUME NEW t \in Tabs, Lookup(t) PROVE SessionInv'
  <2>. DEFINE s == [socket[t] EXCEPT !.phase = "attach", !.status = row.status]
  <2>1. socket' = [socket EXCEPT ![t] = s] /\ socket[t].phase = "lookup"
    BY <1>8 DEF Lookup, Become
  <2>2. s.phase = "attach" /\ s.status = row.status /\ row.status \in Statuses
    BY DEF IInv, RingInv, Session, JobInv
  <2>3. view[t].mounted /\ (row.status \in TERMINAL_STATUSES => ended[t])
    BY <2>1 DEF IInv, SessionInv, EndInv, Ends
  <2>. HIDE DEF s
  <2>4. \A x \in Tabs : socket'[x] = IF x = t THEN s ELSE socket[x]
    BY <2>1 DEF IInv, RingInv
  <2>. QED  BY <1>1, <2>2, <2>3, <2>4 DEF IInv, SessionInv
<1>9. ASSUME NEW t \in Tabs, Mount(t) PROVE SessionInv'
  <2>1. /\ socket' = [socket EXCEPT ![t] = [phase |-> "lookup", status |-> None, open |-> TRUE]]
        /\ view' = [view EXCEPT ![t].mounted = TRUE, ![t].timer = TRUE]
    BY <1>9 DEF Mount, Connect, Become
  <2>2. view'[t].mounted
    BY <2>1 DEF IInv, ViewInv, DeployState
  <2>. QED  BY <1>1, <2>1, <2>2 DEF IInv, RingInv, SessionInv
<1>10. CASE \/ Claim \/ ClaimUpdate \/ Perform \/ FailStep \/ FailWrite
            \/ Control \/ AskUpdate \/ BoxCrashes
            \/ \E t \in Tabs : \/ OnMessage(t) \/ PollStep(t)
                               \/ \E i \in Slots : PollFails(t, i)
  BY <1>2, <1>10 DEF Claim, ClaimUpdate, Perform, FailStep, FailWrite, Control, AskUpdate,
                     BoxCrashes, Request, OnMessage, Receive, PollStep, PollAsk, PollRead,
                     PollReturn, PollFails, feed
<1>. QED  BY <1>4, <1>5, <1>6, <1>7, <1>8, <1>9, <1>10
          DEF Next, FeedStep, WorkerStep, Environment, SessionStep

-----------------------------------------------------------------------------
\* Every step of the feed and of a tab keeps the invariant.
LEMMA StepIInv == IInv /\ [Next]_vars => IInv'
<1> SUFFICES ASSUME IInv, [Next]_vars PROVE IInv'
  OBVIOUS
<1>1. CASE Next
  <2>1. JobInv'
    <3>1. \/ WorkerStep \/ Environment
          \/ UNCHANGED <<row, job, requests>> /\ (UNCHANGED faults \/ Fault)
      BY <1>1 DEF Next, FeedStep, SessionStep, Lookup, Attach, Mount, Connect, OnMessage,
                  Receive, PollStep, PollAsk, PollRead, PollReturn, PollFails, feed
    <3>. QED  BY <3>1, JobStep DEF IInv
  <2>2. RingInv'
    BY <1>1, RingStep DEF IInv, Next, FeedStep, Mount, OnMessage, Receive, PollStep,
                          PollAsk, PollRead, PollReturn, PollFails, feed
  <2>3. EndInv'
    BY <1>1, Watched, EveryStepWatches DEF IInv
  <2>. QED  BY <1>1, <2>1, <2>2, <2>3, ViewStep, WireStep, SessionKept DEF IInv
<1>2. CASE UNCHANGED vars
  <2>1. JobInv' /\ RingInv' /\ ViewInv'
    BY <1>2 DEF vars, feed, IInv, JobInv, RingInv, ViewInv, SubscriberHoldsRing, Hears, Subscribed
  <2>2. wire' \in [Tabs -> Seq(Heard)] /\ WireInv'
    BY <1>2 DEF vars, feed, IInv, WireInv, Sound
  <2>3. SessionInv' /\ PollInv' /\ EndInv' /\ NoFalseEnd'
    BY <1>2 DEF vars, feed, IInv, SessionInv, PollInv, EndInv, NoFalseEnd
  <2>. QED  BY <2>1, <2>2, <2>3 DEF IInv
<1>. QED  BY <1>1, <1>2

\* The inductive invariant: the types; that a job stands in its script; that
\* a subscriber has been sent the ring; and that nothing on the wire, in a
\* session or in a poll's answer tells of an end that nobody could have seen.
THEOREM Invariance == Spec => []IInv
<1>1. Init => IInv
  BY InitIInv
<1>2. IInv /\ [Next]_vars => IInv'
  BY StepIInv
<1>. QED  BY <1>1, <1>2, PTL DEF Spec

\* The variables of the feed and of the tabs keep their types.
THEOREM TypeCorrect == Spec => []TypeOK
<1>1. IInv => TypeOK
  <2>1. ASSUME IInv PROVE ring \in Seq(Frame)
    BY <2>1, SeqMonotonic DEF IInv, RingInv, Quiet, Heard
  <2>2. ASSUME IInv, NEW t \in Tabs PROVE wire[t] \in Seq(Frame) /\ sent[t] \in Seq(Frame)
    <3>1. Heard \subseteq Frame /\ Quiet \subseteq Frame
      BY DEF Heard, Quiet
    <3>2. wire[t] \in Seq(Heard) /\ sent[t] \in Seq(Quiet)
      BY <2>2 DEF IInv, RingInv
    <3>. QED  BY <3>1, <3>2, SeqMonotonic
  <2>. QED  BY <2>1, <2>2 DEF IInv, JobInv, RingInv, ViewInv, TypeOK, FeedTypeOK
<1>. QED  BY <1>1, Invariance, PTL

\* An open subscriber has been sent what the ring keeps, no frame lost or
\* twice, for any scripts of stages and any number of tabs.
THEOREM SubscribersHoldRing == Spec => []SubscriberHoldsRing
<1>1. IInv => SubscriberHoldsRing
  BY DEF IInv, RingInv
<1>. QED  BY <1>1, Invariance, PTL

\* No tab shows an end unless there was one to be seen since it was opened.
THEOREM EndsAreReal == Spec => []NoFalseEnd
<1>1. IInv => NoFalseEnd
  BY DEF IInv
<1>. QED  BY <1>1, Invariance, PTL
=============================================================================
