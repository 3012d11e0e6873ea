--------------------------- MODULE PortAllocator ----------------------------
(***************************************************************************)
(* packages/deployer-worker/src/ports.ts with several callers at once: the *)
(* workers that ports.ts is written for, each driving an agent of its own. *)
(* allocatePort reads the table once and then tries the ports it saw free, *)
(* in order, with nothing but the table's unique key to settle a race.     *)
(* drive calls it twice and holds both ports until releasePort.            *)
(***************************************************************************)
EXTENDS Naturals, FiniteSets

CONSTANTS
    Agents,   \* the agents that are driven, each by one worker at a time
    Ports,    \* config.portMin .. config.portMax
    None,     \* no agent
    Releasing \* the agents whose ports may be released while others allocate

ASSUME PortAllocatorAssumption ==
    /\ Ports \subseteq Nat
    /\ None \notin Agents
    /\ Releasing \subseteq Agents

VARIABLES
    alloc,   \* the table PortAllocation
    pc,      \* where each agent's drive is
    taken,   \* allocatePort: the ports of the findMany
    port,    \* allocatePort: the loop variable
    got      \* the ports that allocatePort has returned to drive

vars == <<alloc, pc, taken, port, got>>

TypeOK ==
    /\ alloc \in [Ports -> Agents \cup {None}]
    /\ pc \in [Agents -> {"idle", "find", "try", "holding", "release"}]
    /\ taken \in [Agents -> SUBSET Ports]
    /\ port \in [Agents -> Nat]
    /\ got \in [Agents -> SUBSET Ports]

Init ==
    /\ alloc = [p \in Ports |-> None]
    /\ pc = [a \in Agents |-> "idle"]
    /\ taken = [a \in Agents |-> {}]
    /\ port = [a \in Agents |-> 0]
    /\ got = [a \in Agents |-> {}]

Goto(a, next) == pc' = [pc EXCEPT ![a] = next]

DriveStarts(a) ==
    /\ pc[a] = "idle"
    /\ Goto(a, "find")
    /\ UNCHANGED <<alloc, taken, port, got>>

FindMany(a) ==
    /\ pc[a] = "find"
    /\ taken' = [taken EXCEPT ![a] = {p \in Ports : alloc[p] # None}]
    /\ port' = [port EXCEPT ![a] = 0]
    /\ Goto(a, "try")
    /\ UNCHANGED <<alloc, got>>

\* The ports that the loop still has to try.
Left(a) == {p \in Ports : p \notin taken[a] /\ port[a] <= p}

NextCandidate(a, p) == p \in Left(a) /\ \A q \in Left(a) : p <= q

\* Mutants of Create: an upsert that takes the port from its owner, and a
\* drive that is content with one port.
CreateOrTake(a, p) ==
    /\ pc[a] = "try"
    /\ NextCandidate(a, p)
    /\ alloc' = [alloc EXCEPT ![p] = a]
    /\ got' = [got EXCEPT ![a] = @ \cup {p}]
    /\ Goto(a, IF got[a] = {} THEN "find" ELSE "holding")
    /\ UNCHANGED <<taken, port>>

CreateOnce(a, p) ==
    /\ pc[a] = "try"
    /\ NextCandidate(a, p)
    /\ alloc[p] = None
    /\ alloc' = [alloc EXCEPT ![p] = a]
    /\ got' = [got EXCEPT ![a] = @ \cup {p}]
    /\ Goto(a, "holding")
    /\ UNCHANGED <<taken, port>>

\* create(): the port's row is inserted and the port returned.
Create(a, p) ==
    /\ pc[a] = "try"
    /\ NextCandidate(a, p)
    /\ alloc[p] = None
    /\ alloc' = [alloc EXCEPT ![p] = a]
    /\ got' = [got EXCEPT ![a] = @ \cup {p}]
    /\ Goto(a, IF got[a] = {} THEN "find" ELSE "holding")
    /\ UNCHANGED <<taken, port>>

\* Mutant of LoseRace: the loser retries the same port.
LoseRaceRetries(a, p) ==
    /\ pc[a] = "try"
    /\ NextCandidate(a, p)
    /\ alloc[p] # None
    /\ UNCHANGED vars

\* create() violates the unique key: a losing racer tries the next port.  The
\* code takes every error for that one; a database that fails is not modelled.
LoseRace(a, p) ==
    /\ pc[a] = "try"
    /\ NextCandidate(a, p)
    /\ alloc[p] # None
    /\ port' = [port EXCEPT ![a] = p + 1]
    /\ UNCHANGED <<alloc, pc, taken, got>>

\* "No free ports in range": drive fails and cleans up what it has got.
Exhausted(a) ==
    /\ pc[a] = "try"
    /\ Left(a) = {}
    /\ Goto(a, "release")
    /\ UNCHANGED <<alloc, taken, port, got>>

\* The agent is stopped, deleted, crashes or fails.
Relinquish(a) ==
    /\ a \in Releasing
    /\ pc[a] = "holding"
    /\ Goto(a, "release")
    /\ UNCHANGED <<alloc, taken, port, got>>

ReleasePort(a) ==
    /\ pc[a] = "release"
    /\ alloc' = [p \in Ports |-> IF alloc[p] = a THEN None ELSE alloc[p]]
    /\ got' = [got EXCEPT ![a] = {}]
    /\ taken' = [taken EXCEPT ![a] = {}]
    /\ port' = [port EXCEPT ![a] = 0]
    /\ Goto(a, "idle")

AllocateStep(a) ==
    \/ FindMany(a)
    \/ \E p \in Ports : Create(a, p) \/ LoseRace(a, p)
    \/ Exhausted(a)

Next == \E a \in Agents : \/ DriveStarts(a) \/ AllocateStep(a)
                          \/ Relinquish(a) \/ ReleasePort(a)

\* A call of allocatePort runs on: its awaits return.
Spec == Init /\ [][Next]_vars /\ \A a \in Agents : WF_vars(AllocateStep(a))

-----------------------------------------------------------------------------

\* What allocatePort has returned to a drive is exactly what the table says
\* its agent owns: a losing racer never keeps a port that another agent got,
\* and no row is left in the table that the agent's release would not free.
GotIsOwned ==
    \A a \in Agents : got[a] = {p \in Ports : alloc[p] = a}

\* A drive goes on to its container with two different ports.
HoldsTwo == \A a \in Agents : pc[a] = "holding" => Cardinality(got[a]) = 2

\* With two ports per agent in the range no allocation throws, whoever loses
\* which race: a loser always finds another candidate among those it saw.
NoFalseExhaustion ==
    Cardinality(Ports) >= 2 * Cardinality(Agents)
        => \A a \in Agents : pc[a] = "try" => Left(a) # {}

\* "No free ports in range": when allocatePort throws, the range is full.
ThrowMeansFull ==
    \A a \in Agents :
        pc[a] = "try" /\ Left(a) = {} => \A p \in Ports : alloc[p] # None

\* Every call of allocatePort ends, with a port or by throwing.
AllocationReturns ==
    \A a \in Agents : pc[a] \in {"find", "try"} ~> pc[a] \notin {"find", "try"}

Pool == INSTANCE PortPool WITH owner <- alloc

\* The racing allocators implement the table's contract.
PoolSpec == Pool!Spec
=============================================================================
