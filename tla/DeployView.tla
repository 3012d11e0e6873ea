----------------------------- MODULE DeployView -----------------------------
(***************************************************************************)
(* The deployment view in the browser, on top of the feed: useDeploySocket *)
(* reduces the frames of the socket and, besides, polls the row, with as   *)
(* many requests under way as the network is slow, until a poll has seen   *)
(* the row at an end.                                                      *)
(***************************************************************************)
EXTENDS DeployFeed

CONSTANT Slots   \* requests of a tab that can be under way at once

VARIABLES
    view,   \* per tab: the state of reduceFrame, and whether the timer runs
    polls,  \* per tab and slot: free, asked, or the row that was read
    ended   \* history: a terminal status was there to be seen since the mount

vars == <<feed, view, polls, ended>>

Steps == {DEPLOY_STEPS[i] : i \in 1 .. Len(DEPLOY_STEPS)}

DeployState == [status : StepNames, steps : [StepNames -> {"started", "ok", "failed", None}],
                url : BOOLEAN, terminal : BOOLEAN, timer : BOOLEAN, mounted : BOOLEAN]

InitialDeployState ==
    [status |-> "queued", steps |-> [s \in StepNames |-> None], url |-> FALSE,
     terminal |-> FALSE, timer |-> FALSE, mounted |-> FALSE]

Free  == [phase |-> "free", status |-> None, url |-> FALSE]
Asked == [phase |-> "asked", status |-> None, url |-> FALSE]

Ends == TERMINAL_STATUSES \cup {"running"}

Init ==
    /\ FeedInit
    /\ view = [t \in Tabs |-> InitialDeployState]
    /\ polls = [t \in Tabs |-> [i \in Slots |-> Free]]
    /\ ended = [t \in Tabs |-> FALSE]

\* A tab can see an end from its mount on; one that the worker has yet to
\* announce counts as well.
Seen(t) == view'[t].mounted /\ (row'.status \in Ends \/ job'.act = "cleanup")

Watch == ended' = [t \in Tabs |-> ended[t] \/ Seen(t)]

-----------------------------------------------------------------------------
reduceFrame(v, f) ==
    CASE f.type = "hello" -> [v EXCEPT !.status = f.status]
      [] f.type = "step"  -> [v EXCEPT !.steps[f.status] = f.state, !.status = f.status]
      [] f.type = "ready" -> [v EXCEPT !.url = TRUE]
      [] f.type = "done"  -> [v EXCEPT !.status = f.status, !.terminal = f.status \in Ends]
      [] OTHER -> v

\* The frames that a poll makes up: the steps before the status are ok, its
\* own has started, and all of them are ok once the agent runs.
Position(s) == CHOOSE i \in 1 .. Len(DEPLOY_STEPS) : DEPLOY_STEPS[i] = s

Synthesized(v, s) ==
    IF s \notin Steps THEN v.steps
    ELSE [x \in StepNames |->
            CASE x \in Steps /\ (s = "running" \/ Position(x) < Position(s)) -> "ok"
              [] x = s /\ s # "running" -> "started"
              [] OTHER -> v.steps[x]]

\* Mutant of Polled: a failed agent does not stop the poll, nor end the view.
PolledUntilUp(v, p) ==
    LET ends == p.status = "running"
    IN [v EXCEPT !.status = p.status, !.steps = Synthesized(v, p.status),
                 !.url = @ \/ (ends /\ p.url), !.terminal = @ \/ ends, !.timer = @ /\ ~ends]

Polled(v, p) ==
    LET ends == p.status \in Ends
    IN [v EXCEPT !.status = p.status, !.steps = Synthesized(v, p.status),
                 !.url = @ \/ (ends /\ p.url), !.terminal = @ \/ ends, !.timer = @ /\ ~ends]

-----------------------------------------------------------------------------
\* The effect starts the timer and opens the socket.
Mount(t) ==
    /\ ~view[t].mounted /\ Connect(t)
    /\ view' = [view EXCEPT ![t].mounted = TRUE, ![t].timer = TRUE]
    /\ UNCHANGED polls /\ Watch

OnMessage(t) ==
    /\ Receive(t)
    /\ view' = [view EXCEPT ![t] = IF @.mounted THEN reduceFrame(@, Head(wire[t])) ELSE @]
    /\ UNCHANGED polls /\ Watch

Poll(t, i, p) == polls' = [polls EXCEPT ![t][i] = p]

PollAsk(t, i) ==
    /\ view[t].timer /\ polls[t][i] = Free
    /\ Poll(t, i, Asked)
    /\ UNCHANGED <<feed, view>> /\ Watch

PollRead(t, i) ==
    /\ polls[t][i] = Asked
    /\ Poll(t, i, [phase |-> "read", status |-> row.status, url |-> row.url])
    /\ UNCHANGED <<feed, view>> /\ Watch

PollReturn(t, i) ==
    /\ polls[t][i].phase = "read"
    /\ Poll(t, i, Free)
    /\ view' = [view EXCEPT ![t] = Polled(@, polls[t][i])]
    /\ UNCHANGED feed /\ Watch

\* The request or its answer is lost; an answer that is not ok does the same.
PollFails(t, i) ==
    /\ polls[t][i] # Free /\ Fault
    /\ Poll(t, i, Free)
    /\ UNCHANGED <<row, job, ring, socket, wire, sent, requests, view>> /\ Watch

-----------------------------------------------------------------------------
PollStep(t) == \E i \in Slots : PollAsk(t, i) \/ PollRead(t, i) \/ PollReturn(t, i)

FeedStep ==
    /\ WorkerStep \/ Environment \/ \E t \in Tabs : SessionStep(t)
    /\ UNCHANGED <<view, polls>> /\ Watch

Next ==
    \/ FeedStep
    \/ \E t \in Tabs : \/ Mount(t) \/ OnMessage(t) \/ PollStep(t)
                       \/ \E i \in Slots : PollFails(t, i)

\* The timer fires and the server answers; nothing is asked of the worker or
\* of the socket.
Spec ==
    Init /\ [][Next]_vars
    /\ \A t \in Tabs, i \in Slots : /\ WF_vars(PollAsk(t, i)) /\ WF_vars(PollRead(t, i))
                                    /\ WF_vars(PollReturn(t, i))

-----------------------------------------------------------------------------
TypeOK ==
    /\ FeedTypeOK
    /\ view \in [Tabs -> DeployState]
    /\ polls \in [Tabs -> [Slots -> [phase : {"free", "asked", "read"},
                                     status : Statuses \cup {None}, url : BOOLEAN]]]
    /\ ended \in [Tabs -> BOOLEAN]

\* No tab is told that the deployment is over unless it ended, or its end was
\* still to be announced, since the tab was opened: the replay carries no end
\* of an earlier deployment.
NoFalseEnd == \A t \in Tabs : view[t].terminal => ended[t]

\* A tab whose agent stays at an end says so in the end, without the socket
\* and with requests that get lost.
ViewSettles ==
    \A t \in Tabs : (view[t].mounted /\ row.status \in Ends)
                        ~> (view[t].terminal \/ row.status \notin Ends)

\* useDeploySocket.ts:86: the reducer tolerates any order.  So a finished view
\* that shows what the row says does not leave it while the row stays.
OrderTolerant ==
    [][\A t \in Tabs : view[t].terminal /\ view[t].status = row.status /\ row' = row
          => view'[t].status = view[t].status]_vars
=============================================================================
