------------------------ MODULE PortAllocatorProofs -------------------------
(***************************************************************************)
(* For any number of concurrent callers, any port range and any pattern of *)
(* releases: what allocatePort has returned is exactly what the table      *)
(* records, and the racing callers implement the contract PortPool.        *)
(***************************************************************************)
EXTENDS PortAllocator, FiniteSetTheorems, TLAPS

\* The variables of PortAllocator keep their types (ports.ts).
THEOREM TypeCorrect == Spec => []TypeOK
<1>1. Init => TypeOK
  BY DEF Init, TypeOK
<1>2. TypeOK /\ [Next]_vars => TypeOK'
  <2> SUFFICES ASSUME TypeOK, [Next]_vars PROVE TypeOK'
    OBVIOUS
  <2> USE DEF TypeOK, Goto
  <2>1. ASSUME NEW a \in Agents, DriveStarts(a) PROVE TypeOK'
    BY <2>1 DEF DriveStarts
  <2>2. ASSUME NEW a \in Agents, FindMany(a) PROVE TypeOK'
    BY <2>2 DEF FindMany
  <2>3. ASSUME NEW a \in Agents, NEW p \in Ports, Create(a, p) PROVE TypeOK'
    BY <2>3 DEF Create
  <2>4. ASSUME NEW a \in Agents, NEW p \in Ports, LoseRace(a, p) PROVE TypeOK'
    BY <2>4, PortAllocatorAssumption DEF LoseRace
  <2>5. ASSUME NEW a \in Agents, Exhausted(a) PROVE TypeOK'
    BY <2>5 DEF Exhausted
  <2>6. ASSUME NEW a \in Agents, Relinquish(a) PROVE TypeOK'
    BY <2>6 DEF Relinquish
  <2>7. ASSUME NEW a \in Agents, ReleasePort(a) PROVE TypeOK'
    BY <2>7 DEF ReleasePort
  <2>8. CASE UNCHANGED vars
    BY <2>8 DEF vars
  <2> QED
    BY <2>1, <2>2, <2>3, <2>4, <2>5, <2>6, <2>7, <2>8 DEF Next, AllocateStep
<1> QED
  BY <1>1, <1>2, PTL DEF Spec

\* No step of a race breaks the agreement of drive's variables and the table:
\* inserting is the only way to get a port, and the unique key refuses the
\* insertion of a port that another agent owns.
LEMMA OwnershipStep ==
  ASSUME TypeOK, GotIsOwned, [Next]_vars
  PROVE  GotIsOwned'
<1> USE DEF GotIsOwned, TypeOK
<1>1. ASSUME NEW a \in Agents,
             DriveStarts(a) \/ FindMany(a) \/ Exhausted(a) \/ Relinquish(a)
      PROVE  GotIsOwned'
  BY <1>1 DEF DriveStarts, FindMany, Exhausted, Relinquish
<1>2. ASSUME NEW a \in Agents, NEW p \in Ports, Create(a, p)
      PROVE  GotIsOwned'
  <2> SUFFICES ASSUME NEW b \in Agents
               PROVE  got'[b] = {q \in Ports : alloc'[q] = b}
    OBVIOUS
  <2>1. alloc[p] = None /\ alloc' = [alloc EXCEPT ![p] = a]
    BY <1>2 DEF Create
  <2>2. got' = [got EXCEPT ![a] = @ \cup {p}]
    BY <1>2 DEF Create
  <2>3. CASE b = a
    BY <2>1, <2>2, <2>3
  <2>4. CASE b # a
    BY <2>1, <2>2, <2>4, PortAllocatorAssumption
  <2> QED
    BY <2>3, <2>4
<1>3. ASSUME NEW a \in Agents, NEW p \in Ports, LoseRace(a, p)
      PROVE  GotIsOwned'
  BY <1>3 DEF LoseRace
<1>4. ASSUME NEW a \in Agents, ReleasePort(a)
      PROVE  GotIsOwned'
  <2> SUFFICES ASSUME NEW b \in Agents
               PROVE  got'[b] = {q \in Ports : alloc'[q] = b}
    OBVIOUS
  <2>1. alloc' = [q \in Ports |-> IF alloc[q] = a THEN None ELSE alloc[q]]
    BY <1>4 DEF ReleasePort
  <2>2. got' = [got EXCEPT ![a] = {}]
    BY <1>4 DEF ReleasePort
  <2> QED
    BY <2>1, <2>2, PortAllocatorAssumption
<1>5. CASE UNCHANGED vars
  BY <1>5 DEF vars
<1> QED
  BY <1>1, <1>2, <1>3, <1>4, <1>5 DEF Next, AllocateStep

\* What allocatePort has returned to a drive is exactly what the table says
\* its agent owns.
THEOREM OwnershipAgrees == Spec => []GotIsOwned
<1>1. Init => GotIsOwned
  BY PortAllocatorAssumption DEF Init, GotIsOwned
<1>2. TypeOK /\ GotIsOwned /\ [Next]_vars => GotIsOwned'
  BY OwnershipStep
<1> QED
  BY <1>1, <1>2, TypeCorrect, PTL DEF Spec

Disjoint == \A a, b \in Agents : a # b => got[a] \cap got[b] = {}

\* No two drives ever hold the same port: ports.ts's "concurrent workers never
\* hand out the same port".
THEOREM PortsDisjoint == Spec => []Disjoint
<1>1. GotIsOwned => Disjoint
  BY DEF GotIsOwned, Disjoint
<1> QED
  BY <1>1, OwnershipAgrees, PTL

\* How many ports a drive has got, by where it is: none or one while it still
\* allocates, two different ones once it goes on.
Progress ==
    \A a \in Agents :
        /\ pc[a] = "idle" => got[a] = {}
        /\ pc[a] \in {"find", "try"} => got[a] = {} \/ \E p \in Ports : got[a] = {p}
        /\ pc[a] = "holding" =>
              \E p, q \in Ports : p # q /\ got[a] = {p, q}

\* The second port differs from the first, because the first is owned by the
\* agent and the table refuses to insert a port that is owned.
LEMMA ProgressStep ==
  ASSUME TypeOK, GotIsOwned, Progress, [Next]_vars
  PROVE  Progress'
<1> USE DEF Progress, TypeOK, Goto
<1>1. ASSUME NEW a \in Agents, DriveStarts(a)
      PROVE  Progress'
  BY <1>1 DEF DriveStarts
<1>2. ASSUME NEW a \in Agents, FindMany(a)
      PROVE  Progress'
  BY <1>2 DEF FindMany
<1>3. ASSUME NEW a \in Agents, NEW p \in Ports, Create(a, p)
      PROVE  Progress'
  <2>1. /\ pc[a] = "try"
        /\ alloc[p] = None
        /\ got' = [got EXCEPT ![a] = @ \cup {p}]
        /\ pc' = [pc EXCEPT ![a] = IF got[a] = {} THEN "find" ELSE "holding"]
    BY <1>3 DEF Create
  <2>2. p \notin got[a]
    BY <2>1, PortAllocatorAssumption DEF GotIsOwned
  <2>3. CASE got[a] = {}
    <3>1. got'[a] = {p} /\ pc'[a] = "find"
      BY <2>1, <2>3
    <3> QED
      BY <2>1, <3>1
  <2>4. CASE got[a] # {}
    <3>1. PICK q \in Ports : got[a] = {q}
      BY <2>1, <2>4
    <3>2. got'[a] = {q, p} /\ q # p /\ pc'[a] = "holding"
      BY <2>1, <2>2, <2>4, <3>1
    <3> QED
      BY <2>1, <3>2
  <2> QED
    BY <2>3, <2>4
<1>4. ASSUME NEW a \in Agents, NEW p \in Ports, LoseRace(a, p)
      PROVE  Progress'
  BY <1>4 DEF LoseRace
<1>5. ASSUME NEW a \in Agents, Exhausted(a) \/ Relinquish(a)
      PROVE  Progress'
  BY <1>5 DEF Exhausted, Relinquish
<1>6. ASSUME NEW a \in Agents, ReleasePort(a)
      PROVE  Progress'
  BY <1>6 DEF ReleasePort
<1>7. CASE UNCHANGED vars
  BY <1>7 DEF vars
<1> QED
  BY <1>1, <1>2, <1>3, <1>4, <1>5, <1>6, <1>7 DEF Next, AllocateStep

\* A drive that goes on to its container has got exactly two ports
\* (lifecycle.ts, the two calls of allocatePort).
THEOREM TwoPortsEach == Spec => []HoldsTwo
<1>1. Init => Progress
  BY DEF Init, Progress
<1>2. TypeOK /\ GotIsOwned /\ Progress /\ [Next]_vars => Progress'
  BY ProgressStep
<1>3. Progress => HoldsTwo
  <2> SUFFICES ASSUME Progress, NEW a \in Agents, pc[a] = "holding"
               PROVE  Cardinality(got[a]) = 2
    BY DEF HoldsTwo
  <2>1. PICK p, q \in Ports : p # q /\ got[a] = {p, q}
    BY DEF Progress
  <2>2. IsFiniteSet({p}) /\ Cardinality({p}) = 1
    BY FS_Singleton
  <2>3. Cardinality({p} \cup {q}) = Cardinality({p}) + 1
    BY <2>1, <2>2, FS_AddElement
  <2>4. got[a] = {p} \cup {q}
    BY <2>1
  <2> QED
    BY <2>2, <2>3, <2>4
<1> QED
  BY <1>1, <1>2, <1>3, TypeCorrect, OwnershipAgrees, PTL DEF Spec

\* Every step of the racing allocators is a Take, a GiveBack or a stutter of
\* the table's contract.
THEOREM ImplementsPool == Spec => PoolSpec
<1>1. Init => Pool!Init
  BY DEF Init, Pool!Init
<1>2. [Next]_vars => [Pool!Next]_alloc
  <2> SUFFICES ASSUME [Next]_vars PROVE Pool!Next \/ UNCHANGED alloc
    OBVIOUS
  <2>1. ASSUME NEW a \in Agents, NEW p \in Ports, Create(a, p)
        PROVE  Pool!Next
    BY <2>1 DEF Create, Pool!Next, Pool!Take
  <2>2. ASSUME NEW a \in Agents, ReleasePort(a)
        PROVE  Pool!Next
    BY <2>2 DEF ReleasePort, Pool!Next, Pool!GiveBack
  <2>3. ASSUME NEW a \in Agents,
               \/ DriveStarts(a) \/ FindMany(a) \/ Exhausted(a) \/ Relinquish(a)
               \/ \E p \in Ports : LoseRace(a, p)
        PROVE  UNCHANGED alloc
    BY <2>3 DEF DriveStarts, FindMany, Exhausted, Relinquish, LoseRace
  <2>4. CASE UNCHANGED vars
    BY <2>4 DEF vars
  <2> QED
    BY <2>1, <2>2, <2>3, <2>4 DEF Next, AllocateStep
<1> QED
  BY <1>1, <1>2, PTL DEF Spec, PoolSpec, Pool!Spec
=============================================================================
