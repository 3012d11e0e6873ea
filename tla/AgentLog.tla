------------------------------ MODULE AgentLog ------------------------------
(***************************************************************************)
(* The log of one agent: the tailer that follows its container and numbers *)
(* lines in memory (deployer-worker/src/logs.ts), the system lines that    *)
(* the rest of the worker appends, and the retention sweep that deletes    *)
(* old rows of the same table.  The life of the container is reduced to    *)
(* the calls that lifecycle.ts, main.ts and crash.ts make around it.       *)
(***************************************************************************)
EXTENDS Integers, Sequences

CONSTANTS
    MaxBoxes,    \* bound on containers the agent ever has
    MaxTailers,  \* bound on streams that are opened
    MaxLines     \* bound on lines that are numbered; all three in Nat

Tailers == 1 .. MaxTailers
System  == 0   \* the source of a line that no tailer wrote

VARIABLES
    box,      \* the container that the row names, 0 when none is up
    boxes,    \* containers so far
    status,   \* the row: "down", "starting" or "running"
    call,     \* startTailer under way: its stage and its container
    active,   \* the map of tailers: the agent's entry, 0 when there is none
    tailer,   \* the state object of each tailer, and its stream
    opened,   \* tailers so far
    inserts,  \* lines that are numbered and not yet in the table
    lines,    \* AgentLog in the order of its ids
    reading   \* appendSystemLog under way: the last number it read, or -1

vars == <<box, boxes, status, call, active, tailer, opened, inserts, lines, reading>>
agentVars  == <<box, boxes, status>>
tailVars   == <<call, active, tailer, opened>>
tableVars  == <<inserts, lines, reading>>

NoCall == [at |-> "none", box |-> 0]

Init ==
    /\ box = 0 /\ boxes = 0 /\ status = "down"
    /\ call = NoCall /\ active = 0 /\ opened = 0
    /\ tailer = [t \in Tailers |-> [box |-> 0, next |-> 1, stream |-> "none"]]
    /\ inserts = {} /\ lines = <<>> /\ reading = -1

Numbers == {lines[i].lineNo : i \in DOMAIN lines}

\* The greatest number in the table.
currentLineNo == CHOOSE n \in Numbers \cup {0} : \A m \in Numbers : m <= n

\* The streams of a container that dies come to their end; the map of
\* tailers is not told.
StreamsEnd(c) ==
    [t \in Tailers |-> IF tailer[t].box = c /\ tailer[t].stream = "open"
                       THEN [tailer[t] EXCEPT !.stream = "over"] ELSE tailer[t]]

-----------------------------------------------------------------------------
(* The container, and the calls around it *)

\* drive and updateAgent remove the container that they replace, create the
\* next one and call startTailer; neither calls stopTailer.
Deploy ==
    /\ call = NoCall /\ status # "starting" /\ boxes < MaxBoxes
    /\ boxes' = boxes + 1 /\ box' = boxes + 1 /\ status' = "starting"
    /\ tailer' = StreamsEnd(box)
    /\ call' = [at |-> "called", box |-> boxes + 1]
    /\ UNCHANGED <<active, opened, tableVars>>

\* stopTailer.  The abort ends a stream that is there; startTailer does not
\* see it when it still waits for its stream.
StopTailer(tl) ==
    /\ active' = 0
    /\ tailer' = IF active = 0 THEN tl
                 ELSE [tl EXCEPT ![active].stream = IF @ = "open" THEN "over" ELSE @]

\* drainStops calls stopTailer before it removes the container; the crash
\* watcher calls it when the container is dead.
StopOrCrash ==
    /\ status = "running"
    /\ status' = "down" /\ box' = 0
    /\ StopTailer(StreamsEnd(box))
    /\ UNCHANGED <<boxes, call, opened, tableVars>>

\* The deployment fails after its container was started: the cleanup removes
\* the container and does not call stopTailer.
DeployFails ==
    /\ status = "starting" /\ call = NoCall
    /\ status' = "down" /\ box' = 0
    /\ tailer' = StreamsEnd(box)
    /\ UNCHANGED <<boxes, call, active, opened, tableVars>>

\* The worker exits; its next start resumes the tailers of running agents.
\* Exits inside a deployment are those of HermesDeployer.
Resume ==
    /\ status # "starting"
    /\ active' = 0 /\ inserts' = {} /\ reading' = -1
    /\ tailer' = [t \in Tailers |-> IF tailer[t].stream = "open"
                                    THEN [tailer[t] EXCEPT !.stream = "over"] ELSE tailer[t]]
    /\ call' = IF status = "running" THEN [at |-> "called", box |-> box] ELSE NoCall
    /\ UNCHANGED <<agentVars, opened, lines>>

\* The health check has passed.
Runs ==
    /\ status = "starting" /\ call = NoCall
    /\ status' = "running"
    /\ UNCHANGED <<box, boxes, tailVars, tableVars>>

-----------------------------------------------------------------------------
(* startTailer *)

\* It returns at once when the agent has an entry, else it asks for the last
\* number.
StartTailer ==
    /\ call.at = "called"
    /\ call' = IF active # 0 THEN NoCall ELSE [call EXCEPT !.at = "count"]
    /\ UNCHANGED <<agentVars, active, tailer, opened, tableVars>>

\* With the number it makes its entry, then it asks for the stream.
Enter ==
    /\ call.at = "count" /\ opened < MaxTailers
    /\ opened' = opened + 1 /\ active' = opened + 1
    /\ tailer' = [tailer EXCEPT ![opened + 1].box = call.box,
                                ![opened + 1].next = currentLineNo + 1]
    /\ call' = [call EXCEPT !.at = "logs"]
    /\ UNCHANGED <<agentVars, tableVars>>

\* The daemon gives the stream, or none for a container that is gone: then
\* the entry stays.
Follow ==
    /\ call.at = "logs"
    /\ \/ /\ box = call.box
          /\ tailer' = [tailer EXCEPT ![opened].stream = "open"]
       \/ /\ box # call.box
          /\ UNCHANGED tailer
    /\ call' = NoCall
    /\ UNCHANGED <<agentVars, active, opened, tableVars>>

\* The container prints a line: writeLine takes a number and does not wait
\* for the insert.
WriteLine(t) ==
    /\ tailer[t].stream = "open" /\ tailer[t].next <= MaxLines
    /\ tailer' = [tailer EXCEPT ![t].next = @ + 1]
    /\ inserts' = inserts \cup {[lineNo |-> tailer[t].next, by |-> t]}
    /\ UNCHANGED <<agentVars, call, active, opened, lines, reading>>

\* The insert is done, or fails and is forgotten.
Persist(l) ==
    /\ l \in inserts
    /\ inserts' = inserts \ {l}
    /\ lines' \in {lines, Append(lines, l)}
    /\ UNCHANGED <<agentVars, tailVars, reading>>

-----------------------------------------------------------------------------
(* appendSystemLog, and retention *)

ReadLast ==
    /\ reading = -1 /\ currentLineNo < MaxLines
    /\ reading' = currentLineNo
    /\ UNCHANGED <<agentVars, tailVars, inserts, lines>>

AppendSystemLog ==
    /\ reading # -1
    /\ lines' = Append(lines, [lineNo |-> reading + 1, by |-> System])
    /\ reading' = -1
    /\ UNCHANGED <<agentVars, tailVars, inserts>>

\* pruneStream deletes what is older than the cutoff of its stream; system
\* lines are kept for longer.
Prune ==
    /\ \E cut \in 0 .. Len(lines) : \E sysCut \in 0 .. cut :
         lines' = SelectSeq(SubSeq(lines, sysCut + 1, cut), LAMBDA l : l.by = System)
                    \o SubSeq(lines, cut + 1, Len(lines))
    /\ UNCHANGED <<agentVars, tailVars, inserts, reading>>

Next ==
    \/ Deploy \/ DeployFails \/ Runs \/ StopOrCrash \/ Resume
    \/ StartTailer \/ Enter \/ Follow
    \/ \E t \in Tailers : WriteLine(t)
    \/ \E l \in inserts : Persist(l)
    \/ ReadLast \/ AppendSystemLog \/ Prune

Spec == Init /\ [][Next]_vars

-----------------------------------------------------------------------------
(* Properties *)

\* A running agent's log is followed: the tailer of its entry reads the
\* container that the row names (lifecycle.ts:428, "Tail now so the user
\* sees boot output").
RunningIsTailed ==
    status = "running" /\ call = NoCall =>
        active # 0 /\ tailer[active].box = box /\ tailer[active].stream = "open"

\* No two lines have the same number (logs.ts:120: system lines re-read the
\* tail "so they never collide with the live tailer's nextLine").
LinesNeverCollide ==
    \A i, j \in DOMAIN lines : lines[i].lineNo = lines[j].lineNo => i = j
=============================================================================
