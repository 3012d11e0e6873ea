---------------------------- MODULE CrashWatcher ----------------------------
(***************************************************************************)
(* watchCrashes (packages/deployer-worker/src/crash.ts): one handler per   *)
(* die event of an agent's container, whose stages interleave with the     *)
(* worker's tick, with the API and with the handlers of other events.      *)
(***************************************************************************)
EXTENDS Platform

CONSTANT keepCrashedContainers   \* config.keepCrashedContainers

ASSUME CrashWatcherAssumption == keepCrashedContainers \in BOOLEAN

SKIP_STATUSES ==
    Pipeline \cup {"stopped", "crashed", "failed", "queued", "updating", "deleting"}

Advance(d, at) == dies' = (dies \ {d}) \cup {[d EXCEPT !.at = at]}
Finish(d)      == dies' = dies \ {d}

\* inspect, then findUnique: the status decides, the container id does not.
CrashRead(d) ==
    /\ d.at = "event"
    /\ IF ~Exists(d.agent) \/ row[d.agent].status \in SKIP_STATUSES
       THEN Finish(d)
       ELSE Advance(d, "mark")
    /\ UNCHANGED <<row, alloc, box>>

\* After tailLogs: an unconditional update, which throws when the row is gone.
CrashMark(d) ==
    /\ d.at = "mark"
    /\ IF Exists(d.agent)
       THEN SetStatus(d.agent, "crashed") /\ Advance(d, "log")
       ELSE UNCHANGED row /\ Finish(d)
    /\ UNCHANGED <<alloc, box>>

\* appendSystemLog: the log line's foreign key needs the row.
CrashLog(d) ==
    /\ d.at = "log"
    /\ IF Exists(d.agent) THEN Advance(d, "release") ELSE Finish(d)
    /\ UNCHANGED <<row, alloc, box>>

\* Mutant of CrashRelease: the ports stay with the crashed agent.
CrashKeepsPorts(d) ==
    /\ d.at = "release"
    /\ IF keepCrashedContainers THEN Finish(d) ELSE Advance(d, "sweep")
    /\ UNCHANGED <<row, alloc, box>>

CrashRelease(d) ==
    /\ d.at = "release"
    /\ ReleasePort(d.agent)
    /\ IF keepCrashedContainers THEN Finish(d) ELSE Advance(d, "sweep")
    /\ UNCHANGED <<row, box>>

CrashSweep(d) ==
    /\ d.at = "sweep"
    /\ StopAndRemove(d.agent, d.id, dies \ {d})
    /\ UNCHANGED <<row, alloc>>

WatcherStep ==
    /\ \E d \in dies : \/ CrashRead(d) \/ CrashMark(d) \/ CrashLog(d)
                       \/ CrashRelease(d) \/ CrashSweep(d)
    /\ UNCHANGED <<route, gen, attached, deaths>>
=============================================================================
