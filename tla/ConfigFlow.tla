----------------------------- MODULE ConfigFlow -----------------------------
(***************************************************************************)
(* What holds of the commands, the events and the tasks of ConfigCommands  *)
(* in every state, and why Converged and OneTaskEach do: each notice that  *)
(* a task still needs is owed by a command that runs, or on its way.       *)
(***************************************************************************)
EXTENDS ConfigCommands

EventRows == [type : {"Create", "Update", "Delete"}, id : Nat, ip : Nat]

IsTask(x) ==
  /\ x = [id |-> x.id, pc |-> x.pc, ip |-> x.ip, view |-> x.view, inbox |-> x.inbox]
  /\ x.id \in Nat /\ (x.id # Null => x.pc \in {"idle", "load"}) /\ x.inbox \in Seq(EventRows)

FlowTypes ==
  /\ events \in Seq(EventRows)
  /\ master \in [pc : {"start", "select", "create"}, event : EventRows \cup {NoEvent}, tries : Nat]
  /\ master.pc = "create" => master.event.type = "Create"
  /\ tasks = [t \in TaskSlots |-> tasks[t]]
  /\ \A t \in TaskSlots : IsTask(tasks[t]) /\ (master.pc = "start" => tasks[t] = NoTask)
  /\ calm \in BOOLEAN

Written(x) == x.pc \notin {"free", "check", "write"}
Unsent(x) == x.pc \in {"send", "send2"}

\* What a command sends.
EventOf(x) ==
  Unsent(x) =>
    /\ x.event \in EventRows
    /\ x.event.type = CASE x.cmd.op = "CreateNode" -> "Create"
                        [] x.cmd.op = "DeleteNode" -> "Delete"
                        [] OTHER -> "Update"
    /\ x.cmd.op = "CreateNode" => (x.event.ip = x.cmd.set /\ x.pc = "send")
    /\ IF x.cmd.op = "DeleteNode" THEN x.event.id \in x.touches.nodes ELSE x.event.id \in x.told

\* Ids that are in use were given, and what was deleted is announced as deleted.
Old(e) == e.id < db.next.node /\ (e.type = "Delete" => e.id \notin DOMAIN db.nodes)

GivenSlot(x) ==
  /\ \A n \in x.touches.nodes \cup x.told : n < db.next.node
  /\ EventOf(x)
  /\ Unsent(x) => Old(x.event)
  /\ x.pc = "read" \/ ~Written(x) => x.told = {}

Given ==
  /\ \A s \in Slots : GivenSlot(slots[s])
  /\ \A e \in Range(Stream) : Old(e)
  /\ \A t \in TaskSlots : tasks[t].id < db.next.node /\ \A e \in Range(tasks[t].inbox) : Old(e)

Some(n) == {n} \ {Null}

\* What a command that met no other one is about, in tables x.
GroundedNode(slot, x) ==
  LET c == slot.cmd
      B == slot.touches.nodes
  IN  CASE c.op = "CreateNode" ->
             /\ c.set \in slot.touches.ips
             /\ IF Written(slot) THEN \E m \in DOMAIN x.nodes : B = {m} /\ NodesWithIp(x, c.set) = {m}
                ELSE B = {} /\ (slot.pc = "write" => NodesWithIp(x, c.set) = {})
        [] c.op = "UpdateNode" -> B = {c.id} /\ c.id \in DOMAIN x.nodes
        [] c.op = "DeleteNode" -> B = {c.id} /\ (~Written(slot) => c.id \in DOMAIN x.nodes)

GroundedDevice(slot, x) ==
  LET c == slot.cmd
      B == slot.touches.nodes
  IN  /\ c.to = Null \/ c.to \in DOMAIN x.nodes
      /\ c.op = "CreateDevice" => B = {c.to}
      /\ c.op # "CreateDevice" /\ slot.pc = "check" =>
           c.id < x.next.device /\ B = Some(NodeOfDevice(x, c.id)) \cup Some(c.to)
      /\ c.op # "CreateDevice" /\ slot.pc # "check" =>
           /\ B = {slot.old} \cup Some(c.to) /\ slot.old \in DOMAIN x.nodes
           /\ slot.pc = "write" =>
                /\ c.id \in Live(x) /\ x.devices[c.id].parent = slot.old
                /\ c.op = "DeleteDevice" => slot.listed = GetValues(x, c.id)
           /\ Written(slot) /\ c.op = "UpdateDevice" =>
                c.id \in Live(x) /\ x.devices[c.id].parent = Coalesce(c.to, slot.old)

GroundedValue(slot, x) ==
  LET c == slot.cmd
      device == IF slot.pc = "check" THEN x.values[c.id].device ELSE slot.old
      there == Some(NodeOfDevice(x, c.to))
  IN  /\ c.to < x.next.device
      /\ IF c.op = "CreateValue" THEN slot.touches.nodes = there
         ELSE /\ slot.touches.nodes = {NodeOfDevice(x, device)} \cup there
              /\ device < x.next.device
              /\ ~Written(slot) => c.id \in DOMAIN x.values /\ x.values[c.id].device = device

Grounded(slot, x) ==
  CASE slot.cmd.op \in {"CreateNode", "UpdateNode", "DeleteNode"} -> GroundedNode(slot, x)
    [] slot.cmd.op \in {"CreateDevice", "UpdateDevice", "DeleteDevice"} -> GroundedDevice(slot, x)
    [] OTHER -> GroundedValue(slot, x)

\* Nodes it has still to announce.
Left(slot, x) ==
  CASE slot.pc \in {"send", "read2"} ->
         (CASE slot.cmd.op = "UpdateDevice" -> {slot.old}
            [] slot.cmd.op = "UpdateValue" -> {NodeOfDevice(x, slot.cmd.to)}
            [] OTHER -> {})
    [] slot.pc \in {"send2", "end"} -> {}
    [] OTHER -> slot.touches.nodes

CalmSlot(x) ==
  /\ Grounded(x, db)
  /\ x.cmd.op = "CreateNode" => master.pc # "start"
  /\ x.told \subseteq x.touches.nodes
  /\ x.touches.nodes \cap DOMAIN db.nodes \subseteq x.told \cup Left(x, db)

CalmSlots ==
  calm =>
    /\ \A r, s \in Running : r # s => ~Meets(slots[r].touches, slots[s].touches)
    /\ \A s \in Running : CalmSlot(slots[s])

\* Otherwise what a command has not announced is in doubt.
DoubtedSlot(x) ==
  /\ x.touches.nodes \ x.told \subseteq doubt
  /\ x.cmd.op = "CreateNode" /\ Unsent(x) => x.event.id \in doubt

Doubted == ~calm => \A s \in Running : DoubtedSlot(slots[s])

\* A command is about the address it gives and the node it deletes.
AddressedSlot(x) ==
  /\ x.cmd.op = "CreateNode" \/ (x.cmd.op = "UpdateNode" /\ x.cmd.set # Null) =>
       x.cmd.set \in x.touches.ips
  /\ x.cmd.op = "DeleteNode" => x.cmd.id \in x.touches.nodes

Addressed == \A s \in Running : AddressedSlot(slots[s])

\* Creations on their way: who looks a node up finds the node that was created,
Found(e) ==
  /\ e.id \in DOMAIN db.nodes \ doubt => NodesWithIp(db, e.ip) = {e.id}
  /\ NodesWithIp(db, e.ip) \ doubt \subseteq {e.id}

\* no command that is to write is about it
Awaits(e, x) ==
  /\ e.ip \in x.touches.ips => ~calm /\ e.id \in doubt
  /\ x.cmd.op = "UpdateNode" /\ x.cmd.id = e.id => e.id \in doubt

\* and none that creates a node finds another one.
CreatesAlone(x) ==
  x.cmd.op = "CreateNode" /\ x.pc \in {"write", "read", "send"} =>
    \A n \in NodesWithIp(db, x.cmd.set) \ doubt : calm /\ n \in x.touches.nodes

Creations ==
  /\ \A e \in Pending : Found(e) /\ \A s \in Unwritten : Awaits(e, slots[s])
  /\ \A s \in Slots : CreatesAlone(slots[s])

Creates(x, n) ==
  /\ x.cmd.op = "CreateNode"
  /\ (x.pc = "read" /\ n \in x.touches.nodes) \/ (x.pc = "send" /\ x.event.id = n)
Creators(n) == {s \in Slots : Creates(slots[s], n)}
IsEvent(e, type, n) == e.type = type /\ e.id = n
Has(seq, type, n) == {i \in DOMAIN seq : IsEvent(seq[i], type, n)}

\* A node has one task, or one creation on its way to node_master.
OneTask(n) ==
  LET awaited == Creators(n) # {} \/ Has(Stream, "Create", n) # {}
  IN  /\ Creators(n) # {} => Has(Stream, "Create", n) = {} /\ Has(Stream, "Update", n) = {}
      /\ \A r, s \in Creators(n) : r = s
      /\ \A i, j \in Has(Stream, "Create", n) : i = j
      /\ awaited => master.pc # "start" /\ TasksOf(n) = {}
      /\ ~awaited => master.pc = "start" \/ \E t \in TaskSlots : TasksOf(n) = {t}

Counted == \A n \in DOMAIN db.nodes \ doubt : OneTask(n)

\* The task of a deleted node will hear of it.
Deletes(x, n) == Unsent(x) /\ IsEvent(x.event, "Delete", n)
Ends(t) ==
  LET n == tasks[t].id
  IN  \/ \E s \in Slots : Deletes(slots[s], n)
      \/ Has(Stream, "Delete", n) # {}
      \/ Has(tasks[t].inbox, "Delete", n) # {}

Ending ==
  \A t \in TaskSlots :
    tasks[t].id # Null /\ tasks[t].id \notin DOMAIN db.nodes \cup doubt => Ends(t)

\* A command will announce the node.
Owes(x, n) == Written(x) /\ n \in x.touches.nodes \ x.told
Sends(x, n) == Unsent(x) /\ IsEvent(x.event, "Update", n)
Owed(n) == \E s \in Slots : Owes(slots[s], n) \/ Sends(slots[s], n)

\* The last notice of a node has this address.
LastHas(seq, n, ip) ==
  \A i \in Has(seq, "Update", n) : (\A j \in Has(seq, "Update", n) : j <= i) => seq[i].ip = ip

\* Every notice is right when it is sent, and another follows a change.
Right(n) ==
  /\ \A s \in Slots : Sends(slots[s], n) => slots[s].event.ip = db.nodes[n]
  /\ Owed(n) \/ LastHas(Stream, n, db.nodes[n])

Told == \A n \in DOMAIN db.nodes \ doubt : Right(n)

\* A task shows what the database holds or will hear of it.
UpToDate(x, n) ==
  \/ Has(x.inbox, "Update", n) # {} /\ LastHas(x.inbox, n, db.nodes[n])
  \/ /\ Has(x.inbox, "Update", n) = {} /\ x.ip = db.nodes[n]
     /\ x.pc = "load" \/ x.view \in {{}, Config(db, n)}

Follows(t) ==
  LET n == tasks[t].id
  IN  Owed(n) \/ Has(Stream, "Update", n) # {} \/ UpToDate(tasks[t], n)

Heard == \A t \in TaskSlots : tasks[t].id \in DOMAIN db.nodes \ doubt => Follows(t)

FlowInv ==
  /\ FlowTypes /\ Given /\ CalmSlots /\ Doubted /\ Addressed /\ Creations
  /\ Counted /\ Ending /\ Told /\ Heard
=============================================================================
