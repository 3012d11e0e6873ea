----------------------------- MODULE ControlApi -----------------------------
(***************************************************************************)
(* The web application's agent routes (apps/web/src/app/api/agents).  They *)
(* set intent on the Agent row and never touch Docker or Caddy.  A handler *)
(* that reads before it writes is two actions, with its local state kept   *)
(* in `calls` in between.                                                  *)
(***************************************************************************)
EXTENDS Platform

CONSTANTS
    Verbs,        \* the requests owners make, a subset of AllVerbs
    MaxRequests   \* bound on the requests after the creation of agents

AllVerbs == {"start", "stop", "delete", "update"}

ASSUME ControlApiAssumption == Verbs \subseteq AllVerbs /\ MaxRequests \in Nat

VARIABLES
    calls,      \* handlers between two of their awaits
    requests    \* requests accepted so far

apiVars == <<calls, requests>>

\* live is what DELETE read, version what update was asked for.
Call == [agent : Agents, at : {"secret", "delete", "updateCheck", "updateWrite"},
         live : BOOLEAN, version : VersionOrNone]

ApiTypeOK ==
    /\ calls \in SUBSET Call
    /\ requests \in Nat

ApiInit ==
    /\ calls = {}
    /\ requests = 0

NewCall(a, at) == [agent |-> a, at |-> at, live |-> FALSE, version |-> None]

Request(verb) ==
    /\ verb \in Verbs
    /\ requests < MaxRequests
    /\ requests' = requests + 1

End(c) == calls' = calls \ {c}

-----------------------------------------------------------------------------
(* POST /api/agents *)

\* The row is inserted as `queued` before its secret is written.
CreateRow(a) ==
    /\ Oldest(a, WithStatus("unborn"))
    /\ row' = [row EXCEPT ![a].status = "queued"]
    /\ calls' = calls \cup {NewCall(a, "secret")}
    /\ UNCHANGED requests

\* Mutant of WriteSecret: an upsert.
UpsertSecret(c) ==
    /\ c.at = "secret"
    /\ row' = [row EXCEPT ![c.agent].secretBlob = TRUE]
    /\ End(c)
    /\ UNCHANGED requests

\* writeSecret updates the row, and throws when it is gone.
WriteSecret(c) ==
    /\ c.at = "secret"
    /\ row' = IF Exists(c.agent)
              THEN [row EXCEPT ![c.agent].secretBlob = TRUE] ELSE row
    /\ End(c)
    /\ UNCHANGED requests

-----------------------------------------------------------------------------
(* POST /api/agents/[id]/control *)

\* Mutant of ACTION_TO_STATUS: the action is stored as it came.
ActionItself(action) == action

ACTION_TO_STATUS(action) == IF action = "stop" THEN "stopped" ELSE "queued"

\* Whatever the status was; start and restart are one and the same.
Control(a, action) ==
    /\ Request(action)
    /\ Exists(a)
    /\ SetStatus(a, ACTION_TO_STATUS(action))
    /\ UNCHANGED calls

-----------------------------------------------------------------------------
(* DELETE /api/agents/[id] *)

\* Mutant of DeleteRead: never looks for a live container.
DeleteBlind(a) ==
    /\ Request("delete")
    /\ Exists(a)
    /\ calls' = calls \cup {NewCall(a, "delete")}
    /\ UNCHANGED row

DeleteRead(a) ==
    /\ Request("delete")
    /\ Exists(a)
    /\ calls' = calls \cup
         {[NewCall(a, "delete") EXCEPT !.live = row[a].containerId # None]}
    /\ UNCHANGED row

\* With a container, the worker is asked to delete.
DeleteMarks(c) ==
    /\ c.at = "delete" /\ c.live
    /\ IF Exists(c.agent) THEN SetStatus(c.agent, "deleting") ELSE UNCHANGED row
    /\ End(c)
    /\ UNCHANGED <<alloc, requests>>

\* Without one, a transaction deletes the row and its port rows, or, when
\* the row is gone, fails as a whole.
DeletePurges(c) ==
    /\ c.at = "delete" /\ ~c.live
    /\ IF Exists(c.agent)
       THEN /\ row' = [row EXCEPT ![c.agent] = [UnbornRow EXCEPT !.status = "gone"]]
            /\ ReleasePort(c.agent)
       ELSE UNCHANGED tables
    /\ End(c)
    /\ UNCHANGED requests

-----------------------------------------------------------------------------
(* POST /api/agents/[id]/update *)

UpdateRequest(a, v) ==
    /\ Request("update")
    /\ row[a].status \in {"running", "failed"}
    /\ calls' = calls \cup {[NewCall(a, "updateCheck") EXCEPT !.version = v]}
    /\ UNCHANGED row

UpdateCheck(c) ==
    /\ c.at = "updateCheck"
    /\ calls' = (calls \ {c}) \cup
          IF row[c.agent].status = "updating" THEN {}
          ELSE {[c EXCEPT !.at = "updateWrite"]}
    /\ UNCHANGED <<row, requests>>

UpdateWrite(c) ==
    /\ c.at = "updateWrite"
    /\ row' = IF Exists(c.agent)
              THEN [row EXCEPT ![c.agent].status = "updating",
                               ![c.agent].target = c.version]
              ELSE row
    /\ End(c)
    /\ UNCHANGED requests

-----------------------------------------------------------------------------

NewRequest ==
    \E a \in Agents :
        \/ CreateRow(a)
        \/ Control(a, "start")
        \/ Control(a, "stop")
        \/ DeleteRead(a)
        \/ \E v \in Versions : UpdateRequest(a, v)

FinishCall ==
    /\ \E c \in calls :
          \/ (WriteSecret(c) \/ UpdateCheck(c) \/ UpdateWrite(c)) /\ UNCHANGED alloc
          \/ DeleteMarks(c)
          \/ DeletePurges(c)
    /\ UNCHANGED <<route, docker>>

ApiStep ==
    \/ NewRequest /\ UNCHANGED <<alloc, route, docker>>
    \/ FinishCall
=============================================================================
