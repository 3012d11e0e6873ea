------------------------- MODULE ShellSessionProofs -------------------------
(***************************************************************************)
(* For any number of sessions, no toolbox container is forgotten.          *)
(***************************************************************************)
EXTENDS ShellSession, TLAPS

\* The stream exists only once attach has returned.
StreamLast ==
    \A s \in Sessions :
        stage[s] \in {"new", "lookup", "create", "start", "attach"}
            => stream[s] = "none"

\* NoToolboxForgotten is not inductive alone: that the id taken by Start will
\* be used needs that the stream it is to be closed by is not over yet.
IInv == TypeOK /\ StreamLast /\ NoToolboxForgotten

\* Initially nothing exists.
LEMMA InitIInv == Init => IInv
  BY DEF Init, IInv, TypeOK, StreamLast, NoToolboxForgotten, Stages

\* A step of handleShellSession keeps the invariant, whichever way it ends.
LEMMA OpeningKeepsIInv ==
    ASSUME IInv, NEW s \in Sessions,
           Verify(s) \/ Lookup(s) \/ Create(s) \/ Start(s) \/ Attach(s)
    PROVE  IInv'
<1> USE DEF IInv, Set, CloseSocket
<1>1. CASE Verify(s)
  <2>1. TypeOK'
    BY <1>1 DEF Verify, TypeOK, Stages
  <2>2. StreamLast' /\ NoToolboxForgotten'
    BY <1>1 DEF Verify, TypeOK, StreamLast, NoToolboxForgotten
  <2>. QED  BY <2>1, <2>2
<1>2. CASE Lookup(s)
  <2>1. TypeOK'
    BY <1>2 DEF Lookup, TypeOK, Stages
  <2>2. StreamLast' /\ NoToolboxForgotten'
    BY <1>2 DEF Lookup, TypeOK, StreamLast, NoToolboxForgotten
  <2>. QED  BY <2>1, <2>2
<1>3. CASE Create(s)
  <2>1. TypeOK'
    BY <1>3 DEF Create, Fails, Cleanup, TypeOK, Stages
  <2>2. StreamLast'
    BY <1>3 DEF Create, Fails, Cleanup, TypeOK, StreamLast
  <2>3. NoToolboxForgotten'
    BY <1>3 DEF Create, Fails, Cleanup, TypeOK, NoToolboxForgotten
  <2>. QED  BY <2>1, <2>2, <2>3
<1>4. CASE Start(s)
  <2>1. TypeOK'
    BY <1>4 DEF Start, Fails, Cleanup, TypeOK, Stages
  <2>2. StreamLast'
    BY <1>4 DEF Start, Fails, Cleanup, TypeOK, StreamLast
  <2>3. NoToolboxForgotten'
    BY <1>4 DEF Start, Fails, Cleanup, TypeOK, StreamLast, NoToolboxForgotten
  <2>. QED  BY <2>1, <2>2, <2>3
<1>5. CASE Attach(s)
  <2>1. TypeOK'
    BY <1>5 DEF Attach, Fails, Cleanup, TypeOK, Stages
  <2>2. StreamLast'
    BY <1>5 DEF Attach, Fails, Cleanup, TypeOK, StreamLast
  <2>3. NoToolboxForgotten'
    BY <1>5 DEF Attach, Fails, Cleanup, TypeOK, NoToolboxForgotten
  <2>. QED  BY <2>1, <2>2, <2>3
<1>. QED  BY <1>1, <1>2, <1>3, <1>4, <1>5

\* So does whatever ends a session, in whatever order the three parts end.
LEMMA EndingKeepsIInv ==
    ASSUME IInv, NEW s \in Sessions,
           \/ StreamError(s) \/ StreamClose(s) \/ SocketCloses(s)
           \/ ClientCloses(s) \/ ShellExits(s) \/ RemovalEnds(s)
    PROVE  IInv'
<1> USE DEF IInv, Set, CloseSocket, Cleanup, Gone
<1>1. CASE StreamError(s)
  BY <1>1 DEF StreamError, TypeOK, StreamLast, NoToolboxForgotten
<1>2. CASE StreamClose(s)
  BY <1>2 DEF StreamClose, TypeOK, StreamLast, NoToolboxForgotten
<1>3. CASE SocketCloses(s) \/ ClientCloses(s)
  <2>1. TypeOK'
    BY <1>3 DEF SocketCloses, ClientCloses, SocketClosed, TypeOK
  <2>2. StreamLast' /\ NoToolboxForgotten'
    BY <1>3 DEF SocketCloses, ClientCloses, SocketClosed, TypeOK, StreamLast,
                NoToolboxForgotten
  <2>. QED  BY <2>1, <2>2
<1>4. CASE ShellExits(s)
  BY <1>4 DEF ShellExits, TypeOK, StreamLast, NoToolboxForgotten
<1>5. CASE RemovalEnds(s)
  BY <1>5 DEF RemovalEnds, TypeOK, StreamLast, NoToolboxForgotten
<1>. QED  BY <1>1, <1>2, <1>3, <1>4, <1>5

\* Every step keeps the invariant.
LEMMA NextIInv == IInv /\ [Next]_vars => IInv'
<1> SUFFICES ASSUME IInv, [Next]_vars PROVE IInv'
  OBVIOUS
<1>1. ASSUME NEW s \in Sessions,
             \/ SessionStep(s) \/ StreamError(s)
             \/ ClientCloses(s) \/ ShellExits(s)
      PROVE  IInv'
  BY <1>1, OpeningKeepsIInv, EndingKeepsIInv DEF SessionStep
<1>2. CASE AgentChanges
  BY <1>2 DEF AgentChanges, IInv, TypeOK, StreamLast, NoToolboxForgotten
<1>3. CASE UNCHANGED vars
  BY <1>3 DEF vars, IInv, TypeOK, StreamLast, NoToolboxForgotten
<1>. QED  BY <1>1, <1>2, <1>3 DEF Next

\* The invariant of the shell sessions holds for any number of them.
THEOREM Invariance == Spec => []IInv
  BY InitIInv, NextIInv, PTL DEF Spec

\* Whatever fails and whichever of socket, stream and bash ends first, there
\* is always somebody left who is going to remove the toolbox.
THEOREM ToolboxRemembered == Spec => []NoToolboxForgotten
<1>1. IInv => NoToolboxForgotten
  BY DEF IInv
<1>. QED  BY Invariance, <1>1, PTL
=============================================================================
