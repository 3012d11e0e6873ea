---------------------------- MODULE ShellSession ----------------------------
(***************************************************************************)
(* The owner's shell (deployer-worker/src/shell.ts): every session has a   *)
(* socket to the browser, a toolbox container of its own, and the stream   *)
(* attached to it.  Each of the three can end first, at any moment; the    *)
(* handlers registered at the end of handleShellSession have to end the    *)
(* other two, and the container must not outlive the session.              *)
(***************************************************************************)
CONSTANTS
    Sessions,   \* the sockets that ever connect
    HasImage    \* config.toolboxImage is set

ASSUME ShellSessionAssumption == HasImage \in BOOLEAN

VARIABLES
    agent,     \* the agent's row: "running", "other" (status) or "absent"
    stage,     \* where handleShellSession of the session stands
    ticket,    \* what the token says: "owner", "other" user, or "invalid"
    sock,      \* the WebSocket; "unheard" if it closed before the handler
    toolbox,   \* the container at the daemon
    held,      \* toolboxId # null
    stream,    \* attachStream; "ended" until its close event is handled
    removals   \* calls of stopAndRemove for the toolbox: under way

vars == <<agent, stage, ticket, sock, toolbox, held, stream, removals>>

Stages == {"new", "lookup", "create", "start", "attach", "live", "done"}

\* The variables keep their types.
TypeOK ==
    /\ agent \in {"running", "other", "absent"}
    /\ stage \in [Sessions -> Stages]
    /\ ticket \in [Sessions -> {"owner", "other", "invalid"}]
    /\ sock \in [Sessions -> {"open", "closing", "closed", "unheard"}]
    /\ toolbox \in [Sessions -> {"none", "created", "up"}]
    /\ held \in [Sessions -> BOOLEAN]
    /\ stream \in [Sessions -> {"none", "open", "ended", "closed"}]
    /\ removals \in [Sessions -> BOOLEAN]

Init ==
    /\ agent = "running"
    /\ stage = [s \in Sessions |-> "new"]
    /\ ticket \in [Sessions -> {"owner", "other", "invalid"}]
    /\ sock = [s \in Sessions |-> "open"]
    /\ toolbox = [s \in Sessions |-> "none"]
    /\ held = [s \in Sessions |-> FALSE]
    /\ stream = [s \in Sessions |-> "none"]
    /\ removals = [s \in Sessions |-> FALSE]

Set(f, s, v) == [f EXCEPT ![s] = v]

\* ws.close: the close event follows; nothing happens on a closed socket.
CloseSocket(s) ==
    sock' = [sock EXCEPT ![s] = IF @ = "open" THEN "closing" ELSE @]

\* cleanup: takes the id, so that of two callers one removes the container.
Cleanup(s) ==
    /\ held' = Set(held, s, FALSE)
    /\ removals' = [removals EXCEPT ![s] = @ \/ held[s]]

-----------------------------------------------------------------------------
(* handleShellSession, one action per await *)

\* verifyToken needs no await: an invalid token ends the session at once.
Verify(s) ==
    /\ stage[s] = "new"
    /\ \/ /\ ticket[s] = "invalid"
          /\ stage' = Set(stage, s, "done") /\ CloseSocket(s)
       \/ /\ ticket[s] # "invalid"
          /\ stage' = Set(stage, s, "lookup") /\ UNCHANGED sock
    /\ UNCHANGED <<agent, ticket, toolbox, held, stream, removals>>

MayOpen(s) == agent = "running" /\ ticket[s] = "owner" /\ HasImage

Lookup(s) ==
    /\ stage[s] = "lookup"
    /\ \/ /\ ~MayOpen(s)
          /\ stage' = Set(stage, s, "done") /\ CloseSocket(s)
       \/ /\ MayOpen(s)
          /\ stage' = Set(stage, s, "create") /\ UNCHANGED sock
    /\ UNCHANGED <<agent, ticket, toolbox, held, stream, removals>>

\* Mutant: the catch closes the socket and forgets the container.
FailsWithoutCleanup(s) ==
    /\ stage' = Set(stage, s, "done")
    /\ UNCHANGED <<stream, removals>> /\ held' = Set(held, s, FALSE)
    /\ CloseSocket(s)
\* The catch of handleShellSession.
Fails(s) ==
    /\ stage' = Set(stage, s, "done")
    /\ stream' = [stream EXCEPT ![s] = IF @ = "open" THEN "ended" ELSE @]
    /\ Cleanup(s)
    /\ CloseSocket(s)

\* runToolboxContainer: the network, then createContainer.
Create(s) ==
    /\ stage[s] = "create"
    /\ \/ /\ stage' = Set(stage, s, "start")
          /\ toolbox' = Set(toolbox, s, "created")
          /\ UNCHANGED <<sock, held, stream, removals>>
       \/ Fails(s) /\ UNCHANGED toolbox
    /\ UNCHANGED <<agent, ticket>>

\* runToolboxContainer: start.  The daemon removes an AutoRemove container
\* that did not start.  On success the caller learns the id.
Start(s) ==
    /\ stage[s] = "start"
    /\ \/ /\ stage' = Set(stage, s, "attach")
          /\ toolbox' = Set(toolbox, s, "up")
          /\ held' = Set(held, s, TRUE)
          /\ UNCHANGED <<sock, stream, removals>>
       \/ toolbox' = Set(toolbox, s, "none") /\ Fails(s)
    /\ UNCHANGED <<agent, ticket>>

\* container.attach; the handlers of stream and socket are registered.
Attach(s) ==
    /\ stage[s] = "attach"
    /\ \/ /\ toolbox[s] = "up"
          /\ stage' = Set(stage, s, "live")
          /\ stream' = Set(stream, s, "open")
          /\ UNCHANGED <<sock, held, removals>>
       \/ Fails(s)
    /\ UNCHANGED <<agent, ticket, toolbox>>

\* attachStream's error handler: the connection to the daemon breaks.
StreamError(s) ==
    /\ stream[s] = "open"
    /\ stream' = Set(stream, s, "ended")
    /\ CloseSocket(s)
    /\ UNCHANGED <<agent, stage, ticket, toolbox, held, removals>>

\* attachStream's close handler.
StreamClose(s) ==
    /\ stream[s] = "ended"
    /\ stream' = Set(stream, s, "closed")
    /\ CloseSocket(s)
    /\ Cleanup(s)
    /\ UNCHANGED <<agent, stage, ticket, toolbox>>

\* Mutant: the close handler ends the stream's write side, which bash does
\* not notice, and leaves the container to the end of the stream.
SocketEndsStream(s) ==
    /\ sock' = Set(sock, s, IF stage[s] = "live" THEN "closed" ELSE "unheard")
    /\ UNCHANGED <<held, removals>>
\* The socket's close handler ends the stream's write side and cleans up.
SocketClosed(s) ==
    IF stage[s] = "live"
    THEN sock' = Set(sock, s, "closed") /\ Cleanup(s)
    ELSE sock' = Set(sock, s, "unheard") /\ UNCHANGED <<held, removals>>

\* The peer answers the close of the worker.
SocketCloses(s) ==
    /\ sock[s] = "closing"
    /\ SocketClosed(s)
    /\ UNCHANGED <<agent, stage, ticket, toolbox, stream>>

-----------------------------------------------------------------------------
(* The daemon, the browser and the other parts *)

\* The tab is closed or the connection is lost, before or after the handler
\* that would notice it exists.
ClientCloses(s) ==
    /\ sock[s] = "open"
    /\ SocketClosed(s)
    /\ UNCHANGED <<agent, stage, ticket, toolbox, stream>>

\* The owner leaves bash, or it is killed: AutoRemove removes the container
\* and the daemon ends the stream.
Gone(s) ==
    /\ toolbox' = Set(toolbox, s, "none")
    /\ stream' = [stream EXCEPT ![s] = IF @ = "open" THEN "ended" ELSE @]

ShellExits(s) ==
    /\ toolbox[s] = "up"
    /\ Gone(s)
    /\ UNCHANGED <<agent, stage, ticket, sock, held, removals>>

\* stopAndRemove comes to its end, and the daemon ends the stream.
RemovalEnds(s) ==
    /\ removals[s]
    /\ removals' = Set(removals, s, FALSE)
    /\ Gone(s)
    /\ UNCHANGED <<agent, stage, ticket, sock, held>>

\* The agent is stopped, crashes, is deleted or comes up again.
AgentChanges ==
    /\ agent' \in IF agent = "absent" THEN {} ELSE {"running", "other", "absent"}
    /\ UNCHANGED <<stage, ticket, sock, toolbox, held, stream, removals>>

SessionStep(s) ==
    \/ Verify(s) \/ Lookup(s) \/ Create(s) \/ Start(s) \/ Attach(s)
    \/ StreamClose(s) \/ SocketCloses(s) \/ RemovalEnds(s)

Next ==
    \/ \E s \in Sessions : \/ SessionStep(s) \/ StreamError(s)
                           \/ ClientCloses(s) \/ ShellExits(s)
    \/ AgentChanges

\* The worker's awaits return, events are delivered, and a peer or a timeout
\* of the WebSocket library completes a close.  Owners need not leave.
Spec     == Init /\ [][Next]_vars
LiveSpec == Spec /\ \A s \in Sessions : WF_vars(SessionStep(s))

-----------------------------------------------------------------------------
(* Properties *)

\* A toolbox is never forgotten: whatever fails, ends first or ends twice,
\* while the container exists its creation is under way, or its id is held
\* for a close handler that has yet to run, or its removal is under way
\* (shell.ts, cleanup).
NoToolboxForgotten ==
    \A s \in Sessions : toolbox[s] # "none" =>
        \/ stage[s] = "start"
        \/ held[s] /\ stage[s] \in {"attach", "live"} /\ stream[s] # "closed"
        \/ removals[s]

\* Socket, stream and container of an attached session end together: once
\* its close handler has run or bash has ended, all three come to their end.
EndsTogether ==
    \A s \in Sessions :
        stage[s] = "live" /\ (sock[s] = "closed" \/ toolbox[s] = "none")
            ~> /\ toolbox[s] = "none" /\ stream[s] = "closed"
               /\ sock[s] \in {"closed", "unheard"}

\* What shell.ts:26 says: "Torn down (stopAndRemove) when the WS closes".
TornDownWithSocket ==
    \A s \in Sessions :
        sock[s] \in {"closed", "unheard"} ~> toolbox[s] = "none" /\ stage[s] \in {"live", "done"}
=============================================================================
