------------------------------ MODULE PortPool ------------------------------
(***************************************************************************)
(* What the table PortAllocation promises, whoever uses it and however     *)
(* many workers do: a port goes from nobody to one agent, one port at a    *)
(* time, and comes back only when its own agent's ports are released, all  *)
(* of them together.  A port never passes from one agent to another.       *)
(***************************************************************************)
CONSTANTS
    Agents,   \* who can own ports
    Ports,    \* the range config.portMin .. config.portMax
    None      \* no owner

VARIABLE owner   \* the table: owner[p] is PortAllocation[p].agentId

Init == owner = [p \in Ports |-> None]

Take(a, p) ==
    /\ owner[p] = None
    /\ owner' = [owner EXCEPT ![p] = a]

GiveBack(a) == owner' = [p \in Ports |-> IF owner[p] = a THEN None ELSE owner[p]]

Next == \E a \in Agents : GiveBack(a) \/ \E p \in Ports : Take(a, p)

Spec == Init /\ [][Next]_owner
=============================================================================
