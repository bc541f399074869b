-------------------------- MODULE MCConfigCommands --------------------------
(***************************************************************************)
(* Two gateways with addresses 1 and 2; devices and values come, go and    *)
(* move while the tasks of the nodes poll.                                 *)
(***************************************************************************)
EXTENDS ConfigCommands, TLC

CONSTANTS s1, s2

Device(n, address) == [parent |-> n, address |-> address, deleted |-> FALSE]
Value(d, logging) == [device |-> d, logging |-> logging]

\* One device with a value at the first node, one without at the second.
TwoNodes ==
  [nodes |-> <<1, 2>>, devices |-> <<Device(1, 1), Device(2, 2)>>, values |-> <<Value(1, On)>>,
   measures |-> {}, next |-> [node |-> 3, device |-> 3, value |-> 2]]

\* A value that no longer logs but has measures, with ids of its own: what only one
\* node is needed for is asked of these.
Stored ==
  [nodes |-> <<1>>, devices |-> 3 :> Device(1, 1), values |-> 3 :> Value(3, Off),
   measures |-> {3}, next |-> [node |-> 2, device |-> 4, value |-> 4]]

Small == {TwoNodes, Stored}

AllCommands ==
  {Command("CreateNode", Null, Null, 3)}
    \cup {Command("UpdateNode", 1, Null, ip) : ip \in {2, 3}}
    \cup {Command("DeleteNode", n, Null, Null) : n \in {1, 3}}
    \cup {Command("CreateDevice", Null, 1, 2)}
    \cup {Command("UpdateDevice", 1, 2, a) : a \in {2, 3}}
    \cup {Command("UpdateDevice", 2, n, 1) : n \in {Null, 1}}
    \cup {Command("DeleteDevice", d, Null, Null) : d \in {1, 3}}
    \cup {Command("CreateValue", Null, 3, On)}
    \cup {Command("UpdateValue", 1, 2, Null), Command("UpdateValue", 3, Null, On)}
    \cup {Command("DeleteValue", 1, Null, Null)}

TwoSlots == {s1, s2}
SlotSymmetry == Permutations(TwoSlots)
TaskIds == 1 .. 3
=============================================================================
