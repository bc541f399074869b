--------------------------- MODULE ConfigCommands ---------------------------
(***************************************************************************)
(* Commands that change the configuration, from the handler of the API to  *)
(* the readers: each runs in a task of its own, checks, writes, reads the  *)
(* node again and sends it to node_master, which hands it to the tasks of  *)
(* the nodes; those read their devices and values again.                   *)
(*                                                                         *)
(* A step ends at an await that another command can get in before: several *)
(* reads in a row are one step, a transaction is one step.  The channels   *)
(* between them are FIFO; their limits are in MessageBus.                  *)
(***************************************************************************)
EXTENDS ConfigTables, Sequences, SequencesExt, FiniteSets

CONSTANTS
  Databases,     \* what the tables may hold at the start
  Commands,      \* the commands users may give
  Slots,         \* bound: commands that run at once
  TaskSlots,     \* bound: tasks of nodes that run at once, 1 .. n
  FeedCapacity,  \* of the broadcast channel to the tasks (100)
  MaxTries,      \* of create_new_node (5)
  MaxCommands,   \* bound: commands given
  MaxCuts        \* bound: commands and fetches that a timeout or the database fails

Operations ==
  {"CreateNode", "UpdateNode", "DeleteNode", "CreateDevice", "UpdateDevice", "DeleteDevice",
   "CreateValue", "UpdateValue", "DeleteValue"}

\* What the handlers can send on: a value logs or does not.
IsCommand(c) ==
  /\ c \in [op : Operations, id : Nat, to : Nat, set : Nat]
  /\ c.op \in {"CreateNode", "CreateDevice", "CreateValue"} => c.id = Null
  /\ c.op \in {"CreateNode", "UpdateNode", "DeleteNode", "DeleteDevice", "DeleteValue"} => c.to = Null
  /\ c.op = "CreateValue" => c.set \in {On, Off}
  /\ c.op = "UpdateValue" => c.set \in {Null, On, Off}

ASSUME ConfigCommandsAssumption ==
  /\ IsFiniteSet(TaskSlots) /\ TaskSlots = 1 .. Cardinality(TaskSlots)
  /\ {FeedCapacity, MaxTries} \subseteq Nat \ {0}
  /\ {MaxCommands, MaxCuts} \subseteq Nat
  /\ \A c \in Commands : IsCommand(c)
  /\ \A d \in Databases : Tables(d) /\ Related(d) /\ AddressesDiffer(d)

VARIABLES
  db,       \* the tables
  slots,    \* the commands that run
  events,   \* ConfigEvents on their way to node_master
  master,   \* node_master: what it does, and the node it creates
  tasks,    \* the tasks of the nodes
  bounded,  \* commands given, and cut or failed so far
  raced,    \* history: two commands about the same thing ever ran at once
  calm,     \* history: none of those that run met another one
  doubt     \* history: nodes whose task may have missed something

vars == <<db, slots, events, master, tasks, bounded, raced, calm, doubt>>

NoCommand == [op |-> "none", id |-> Null, to |-> Null, set |-> Null]
Command(op, id, to, set) == [op |-> op, id |-> id, to |-> to, set |-> set]

NoEvent == [type |-> "none", id |-> Null, ip |-> Null]

\* ConfigEvent with the row of the node as it is now.
ConfigEvent(type, n) == [type |-> type, id |-> n, ip |-> db.nodes[n]]

Untouched == [nodes |-> {}, ips |-> {}]

\* A slot: old is the parent read before the write, listed the values delete_device
\* found, told the nodes it has sent, touches what it is about.
FreeSlot ==
  [cmd |-> NoCommand, pc |-> "free", old |-> Null, listed |-> {}, event |-> NoEvent,
   told |-> {}, touches |-> Untouched]

NewSlot(c, about) == [FreeSlot EXCEPT !.cmd = c, !.pc = "check", !.touches = about]

NoTask == [id |-> Null, pc |-> "free", ip |-> Null, view |-> {}, inbox |-> <<>>]
Task(n, ip) == [NoTask EXCEPT !.id = n, !.pc = "idle", !.ip = ip]

Running == {s \in Slots : slots[s].pc # "free"}
TasksOf(n) == {t \in TaskSlots : tasks[t].id = n /\ n # Null}

Init ==
  /\ db \in Databases
  /\ slots = [s \in Slots |-> FreeSlot]
  /\ events = <<>>
  /\ master = [pc |-> "start", event |-> NoEvent, tries |-> 0]
  /\ tasks = [t \in TaskSlots |-> NoTask]
  /\ bounded = [commands |-> 0, cuts |-> 0]
  /\ raced = FALSE
  /\ calm = TRUE
  /\ doubt = {}

-----------------------------------------------------------------------------
(* Histories: what a command is about.                                       *)

Meets(a, b) == a.nodes \cap b.nodes # {} \/ a.ips \cap b.ips # {}

\* The nodes and addresses of nodes that a command reads, writes or announces; Null
\* stands for the values of deleted devices.
Touches(c) ==
  LET node(n) == IF n \in DOMAIN db.nodes THEN {n} ELSE {}
      parent(d) == node(NodeOfDevice(db, d))
  IN  CASE c.op = "CreateNode" -> [nodes |-> {}, ips |-> {c.set}]
        [] c.op = "UpdateNode" ->
             [nodes |-> node(c.id), ips |-> {db.nodes[m] : m \in node(c.id)} \cup ({c.set} \ {Null})]
        [] c.op = "DeleteNode" -> [nodes |-> node(c.id), ips |-> {}]
        [] c.op \in {"CreateDevice", "UpdateDevice", "DeleteDevice"} ->
             [nodes |-> parent(c.id) \cup node(c.to), ips |-> {}]
        [] c.op = "CreateValue" -> [nodes |-> parent(c.to), ips |-> {}]
        [] OTHER ->
             [nodes |-> {NodeOfDevice(db, db.values[c.id].device)} \cup parent(c.to), ips |-> {}]

\* Events that node_master has not dealt with, and the creations among them.
Stream == (IF master.pc = "create" THEN <<master.event>> ELSE <<>>) \o events
Pending == {e \in Range(Stream) : e.type = "Create"}

\* The nodes that a write changes for their tasks.
Changed(x, u) ==
  {n \in DOMAIN x.nodes \cup DOMAIN u.nodes :
     ~ /\ n \in DOMAIN x.nodes \cap DOMAIN u.nodes
       /\ x.nodes[n] = u.nodes[n] /\ Config(x, n) = Config(u, n)}

Frees(s) == slots' = [slots EXCEPT ![s] = FreeSlot]

-----------------------------------------------------------------------------
(* The commands.                                                             *)

\* Commands name rows the user was shown; the handlers of create_node, update_node
\* and create_devices ask for the same as the worker before they send the command.
NodeCreation(c) == c.op = "CreateNode" /\ NodeCanBeCreated(db, c.set)
NodeUpdate(c) == c.op = "UpdateNode" /\ NodeCanBeUpdated(db, c.id, c.set)
NodeDeletion(c) == c.op = "DeleteNode" /\ c.id \in DOMAIN db.nodes
DeviceCreation(c) == c.op = "CreateDevice" /\ c.to \in DOMAIN db.nodes
DeviceChange(c) ==
  /\ c.op \in {"UpdateDevice", "DeleteDevice"}
  /\ c.id \in DOMAIN db.devices /\ c.to \in DOMAIN db.nodes \cup {Null}
ValueCommand(c) ==
  \/ c.op = "CreateValue" /\ c.to \in DOMAIN db.devices
  \/ /\ c.op \in {"UpdateValue", "DeleteValue"}
     /\ c.id \in DOMAIN db.values /\ c.to \in DOMAIN db.devices \cup {Null}

Admitted(c) ==
  \/ NodeCreation(c) \/ NodeUpdate(c) \/ NodeDeletion(c)
  \/ DeviceCreation(c) \/ DeviceChange(c) \/ ValueCommand(c)

Issue(s, c) ==
  LET mine == Touches(c)
      met == {r \in Running : Meets(slots[r].touches, mine)}
      awaited == {e \in Pending : e.ip \in mine.ips}
      early == c.op = "CreateNode" /\ master.pc = "start"
      near == UNION {slots[r].touches.nodes : r \in Running}
  IN  /\ slots[s].pc = "free"
      /\ bounded.commands < MaxCommands
      /\ Admitted(c)
      /\ slots' = [slots EXCEPT ![s] = NewSlot(c, mine)]
      /\ bounded' = [bounded EXCEPT !.commands = @ + 1]
      /\ raced' = (raced \/ met # {})
      /\ calm' = ((calm \/ Running = {}) /\ met = {} /\ awaited = {} /\ ~early)
      /\ doubt' = IF calm' THEN doubt
                  ELSE doubt \cup mine.nodes \cup near \cup {e.id : e \in awaited}
      /\ UNCHANGED <<db, events, master, tasks>>

\* The checks, and what is read before the write.
Check(s) ==
  LET c == slots[s].cmd
      old == CASE c.op \in {"UpdateDevice", "DeleteDevice"} -> GetParent(db, c.id)
               [] c.op \in {"UpdateValue", "DeleteValue"} -> db.values[c.id].device
               [] OTHER -> Null
      listed == IF c.op = "DeleteDevice" THEN GetValues(db, c.id) ELSE {}
  IN  /\ slots[s].pc = "check"
      /\ IF Accepts(db, c)
         THEN slots' = [slots EXCEPT ![s].pc = "write", ![s].old = old, ![s].listed = listed]
         ELSE Frees(s)
      /\ UNCHANGED <<db, events, master, tasks, bounded, raced, calm, doubt>>

\* The write.  delete_node has read the row it will announce and panics without one;
\* the panic comes after the commit and ends the task.
WriteRows(s) ==
  LET c == slots[s].cmd
      about == slots[s].touches
      gone == c.op = "DeleteNode" /\ c.id \notin DOMAIN db.nodes
      created == IF c.op = "CreateNode" THEN {db.next.node} ELSE {}
  IN  /\ slots[s].pc = "write"
      /\ IF Keyed(db, c, slots[s].listed)
         THEN /\ db' = Write(db, c, slots[s].listed)
              /\ slots' = [slots EXCEPT ![s] =
                   CASE gone -> FreeSlot
                     [] c.op = "DeleteNode" /\ ~gone ->
                          [@ EXCEPT !.pc = "send", !.event = ConfigEvent("Delete", c.id)]
                     [] OTHER ->
                          [@ EXCEPT !.pc = "read",
                                    !.touches = [about EXCEPT !.nodes = about.nodes \cup created]]]
              /\ doubt' = IF calm THEN doubt ELSE doubt \cup Changed(db, db')
         ELSE Frees(s) /\ UNCHANGED <<db, doubt>>
      /\ UNCHANGED <<events, master, tasks, bounded, raced, calm>>

\* The node a command reads to announce it; told are those announced before.
NodeToTell(c, old, told) ==
  CASE c.op = "CreateNode" -> GetByIp(db, c.set)
    [] c.op = "UpdateNode" -> GetNode(db, c.id)
    [] c.op = "CreateDevice" -> GetNode(db, c.to)
    [] c.op = "UpdateDevice" -> GetNode(db, GetParent(db, c.id))
    [] c.op = "DeleteDevice" -> GetNode(db, old)
    [] c.op = "CreateValue" -> NodeOfDevice(db, c.to)
    [] c.op \in {"UpdateValue", "DeleteValue"} -> NodeOfDevice(db, old)

\* value_update: where the value is now.
NewNodeOfValue(c) == IF c.to = Null THEN Null ELSE NodeOfDevice(db, c.to)

\* Mutant: only the first node is told.
NoSecond(c, old, told) == Null

\* The second node of update_device, where the device was, and of value_update,
\* unless it was the first.
SecondToTell(c, old, told) ==
  LET n == CASE c.op = "UpdateDevice" -> GetNode(db, old)
             [] c.op = "UpdateValue" -> NewNodeOfValue(c)
             [] OTHER -> Null
  IN  IF n \in told THEN Null ELSE n

\* A row that cannot be read is not announced: the command goes on.  When no other
\* one runs and no creation is awaited, it sets right a node that has one task.
ReadNode(s) ==
  LET slot == slots[s]
      n == IF slot.pc = "read" THEN NodeToTell(slot.cmd, slot.old, slot.told)
           ELSE SecondToTell(slot.cmd, slot.old, slot.told)
      type == IF slot.cmd.op = "CreateNode" THEN "Create" ELSE "Update"
      heals == Running = {s} /\ Pending = {} /\ type = "Update" /\ Cardinality(TasksOf(n)) = 1
  IN  /\ slot.pc \in {"read", "read2"}
      /\ slots' = [slots EXCEPT ![s] =
           IF n # Null
           THEN [@ EXCEPT !.event = ConfigEvent(type, n), !.told = slot.told \cup {n},
                          !.pc = IF slot.pc = "read" THEN "send" ELSE "send2"]
           ELSE [@ EXCEPT !.pc = IF slot.pc = "read" THEN "read2" ELSE "end"]]
      /\ doubt' = CASE heals -> doubt \ {n}
                   [] ~heals /\ calm -> doubt
                   [] OTHER -> doubt \cup {n}
      /\ UNCHANGED <<db, events, master, tasks, bounded, raced, calm>>

SendEvent(s) ==
  /\ slots[s].pc \in {"send", "send2"}
  /\ events' = Append(events, slots[s].event)
  /\ slots' = [slots EXCEPT ![s].pc = IF @ = "send" THEN "read2" ELSE "end"]
  /\ UNCHANGED <<db, master, tasks, bounded, raced, calm, doubt>>

\* Ok to the handler.
Finish(s) ==
  /\ slots[s].pc = "end"
  /\ Frees(s)
  /\ UNCHANGED <<db, events, master, tasks, bounded, raced, calm, doubt>>

\* The five seconds are over, or the database fails, between any two steps.  Before
\* the write that leaves no trace.
Cut(s) ==
  /\ slots[s].pc \in {"read", "send", "read2", "send2"}
  /\ bounded.cuts < MaxCuts
  /\ Frees(s)
  /\ bounded' = [bounded EXCEPT !.cuts = @ + 1]
  /\ doubt' = doubt \cup slots[s].touches.nodes \cup slots[s].told
  /\ UNCHANGED <<db, events, master, tasks, raced, calm>>

-----------------------------------------------------------------------------
(* node_master.                                                              *)

FreeTask == {t \in TaskSlots : tasks[t].id = Null}

\* init_nodes: a task for every row, in their order.
Nth(t) == First({n \in DOMAIN db.nodes : Cardinality({m \in DOMAIN db.nodes : m <= n}) = t})

NodesRead ==
  /\ master.pc = "start"
  /\ Cardinality(DOMAIN db.nodes) <= Cardinality(TaskSlots)
  /\ tasks' = [t \in TaskSlots |-> IF Nth(t) = Null THEN NoTask ELSE Task(Nth(t), db.nodes[Nth(t)])]
  /\ master' = [master EXCEPT !.pc = "select"]
  /\ UNCHANGED <<db, slots, events, bounded, raced, calm, doubt>>

\* send_to_workers: every receiver keeps the last FeedCapacity events; one that
\* loses an event says so in the log and goes on.
Broadcast(e) ==
  LET full == {t \in TaskSlots \ FreeTask : Len(tasks[t].inbox) = FeedCapacity}
      kept(t) == IF t \in full THEN Tail(tasks[t].inbox) ELSE tasks[t].inbox
  IN  /\ tasks' = [t \in TaskSlots |->
                    IF t \in FreeTask THEN NoTask
                    ELSE [tasks[t] EXCEPT !.inbox = Append(kept(t), e)]]
      /\ doubt' = doubt \cup {tasks[t].id : t \in full}

MasterTakes ==
  /\ master.pc = "select" /\ events # <<>>
  /\ events' = Tail(events)
  /\ IF Head(events).type = "Create"
     THEN /\ master' = [pc |-> "create", event |-> Head(events), tries |-> 0]
          /\ UNCHANGED <<tasks, doubt>>
     ELSE Broadcast(Head(events)) /\ UNCHANGED master
  /\ UNCHANGED <<db, slots, bounded, raced, calm>>

Selecting == [pc |-> "select", event |-> NoEvent, tries |-> 0]
GivesUp == master.tries + 1 = MaxTries
TryAgain == master' = IF GivesUp THEN Selecting ELSE [master EXCEPT !.tries = @ + 1]

\* create_new_node looks the node up by its address and starts a task for what
\* it finds.
MasterLooksUp ==
  LET n == GetByIp(db, master.event.ip)
  IN  /\ master.pc = "create"
      /\ IF n # Null
         THEN /\ FreeTask # {}
              /\ tasks' = [tasks EXCEPT ![First(FreeTask)] = Task(n, db.nodes[n])]
              /\ master' = Selecting
         ELSE UNCHANGED tasks /\ TryAgain
      /\ UNCHANGED <<db, slots, events, bounded, raced, calm, doubt>>

\* The lookup runs into its timeout or the database fails: that costs a try too, and
\* after the last one the node has no task.
LookupFails ==
  /\ master.pc = "create"
  /\ TryAgain
  /\ doubt' = IF GivesUp THEN doubt \cup {master.event.id} ELSE doubt
  /\ UNCHANGED <<db, slots, events, tasks, bounded, raced, calm>>

-----------------------------------------------------------------------------
(* The task of a node: node_loop, as far as its configuration goes.          *)

\* Mutant: the id is not compared.
EndedByAny(t, e) == e.type = "Delete"

Ended(t, e) == e.type = "Delete" /\ e.id = tasks[t].id

TaskHears(t) ==
  LET e == Head(tasks[t].inbox)
      rest == [tasks[t] EXCEPT !.inbox = Tail(@)]
  IN  /\ tasks[t].pc = "idle" /\ tasks[t].inbox # <<>>
      /\ tasks' = [tasks EXCEPT ![t] =
           CASE Ended(t, e) -> NoTask
             [] e.type = "Update" /\ e.id = tasks[t].id ->
                  [rest EXCEPT !.pc = "load", !.ip = e.ip]
             [] OTHER -> rest]
      /\ UNCHANGED <<db, slots, events, master, bounded, raced, calm, doubt>>

\* create_devices, in an update and, while the node has no devices, in every tick.
Empty(t) == tasks[t].pc = "idle" /\ tasks[t].view = {} /\ Config(db, tasks[t].id) # {}
CreatesDevices(t) == tasks[t].pc = "load" \/ Empty(t)

TaskLoads(t) ==
  /\ CreatesDevices(t)
  /\ tasks' = [tasks EXCEPT ![t].view = Config(db, tasks[t].id), ![t].pc = "idle"]
  /\ UNCHANGED <<db, slots, events, master, bounded, raced, calm, doubt>>

\* The list of devices is asked for until it comes; a device whose values do not come
\* is left out, and nothing asks for them again before the next event.  When none of
\* the list is left when_next_device panics, which ends the task.
LoadsPart(t) ==
  /\ CreatesDevices(t) /\ bounded.cuts < MaxCuts
  /\ \E part \in SUBSET Config(db, tasks[t].id) :
       /\ part # Config(db, tasks[t].id)
       /\ tasks' = [tasks EXCEPT ![t] = IF part = {} THEN NoTask
                                        ELSE [@ EXCEPT !.view = part, !.pc = "idle"]]
  /\ bounded' = [bounded EXCEPT !.cuts = @ + 1]
  /\ doubt' = doubt \cup {tasks[t].id}
  /\ UNCHANGED <<db, slots, events, master, raced, calm>>

\* A value that a task reads and that logs gets measures.
Measured(t, v) ==
  /\ \E d \in tasks[t].view : <<v, On>> \in d.values
  /\ v \in DOMAIN db.values \ db.measures
  /\ db' = [db EXCEPT !.measures = @ \cup {v}]
  /\ UNCHANGED <<slots, events, master, tasks, bounded, raced, calm, doubt>>

-----------------------------------------------------------------------------
CommandStep(s) ==
  \/ Check(s) \/ WriteRows(s) \/ ReadNode(s) \/ SendEvent(s) \/ Finish(s) \/ Cut(s)

Next ==
  \/ \E s \in Slots : (\E c \in Commands : Issue(s, c)) \/ CommandStep(s)
  \/ NodesRead \/ MasterTakes \/ MasterLooksUp \/ LookupFails
  \/ \E t \in TaskSlots : TaskHears(t) \/ TaskLoads(t) \/ LoadsPart(t)
  \/ \E t \in TaskSlots : \E v \in DOMAIN db.values : Measured(t, v)

Spec == Init /\ [][Next]_vars

-----------------------------------------------------------------------------
(* Properties.                                                               *)

Quiet ==
  /\ Running = {} /\ events = <<>> /\ master.pc = "select"
  /\ \A t \in TaskSlots : tasks[t].pc # "load" /\ tasks[t].inbox = <<>> /\ ~Empty(t)

Shows(t, n) == tasks[t].ip = db.nodes[n] /\ tasks[t].view = Config(db, n)

\* When all commands have been worked off, every task polls the address, the
\* devices and the values the database holds for its node: no notice is missing,
\* none names the wrong node and the last one to arrive was not read too early
\* (device_worker.rs:508-539, value_worker.rs:440-469).  Excepted are the nodes in
\* doubt: those of commands that ran while two met about the same, or a creation
\* was still to be looked up by the address; of commands that were cut; and nodes
\* whose task lost a notice or could not fetch the values of a device; each until a
\* command that runs alone announces it to its one task.
Converged ==
  Quiet => \A n \in DOMAIN db.nodes \ doubt : \A t \in TasksOf(n) : Shows(t, n)

\* Every node of the database is polled by one task and no other node is polled,
\* whatever order creation, deletion and node_master's lookup by address came in
\* (read_loop.rs:81-118), with the same exceptions and without the nodes whose
\* lookup failed five times or whose task panicked for want of devices.
OneTaskEach ==
  Quiet => \A n \in 1 .. db.next.node - 1 :
             n \notin doubt => Cardinality(TasksOf(n)) = IF n \in DOMAIN db.nodes THEN 1 ELSE 0

\* The checks of the workers keep the addresses of nodes, and of the devices in
\* use of one node, different (node_worker.rs:266, 336; device_worker.rs:363,
\* 462), as long as no two commands about the same ran at once: there is no key
\* behind them.
UniqueUnlessRaced == ~raced => AddressesDiffer(db)

\* Deleting a node keeps the values that log, with their devices and measures
\* (node_worker.rs:174-211): they go only with a command about the value or its
\* device, and measures that were stored never lose their value otherwise.
HistoryKept ==
  [][\A v \in DOMAIN db.values :
       \/ v \in DOMAIN db'.values
       \/ \E s \in Slots : /\ slots'[s] # slots[s]
                          /\ \/ slots[s].cmd.op = "DeleteValue" /\ slots[s].cmd.id = v
                             \/ slots[s].cmd.op = "DeleteDevice" /\ v \in slots[s].listed
       \/ db.values[v].logging = Off /\ v \notin db.measures]_vars

-----------------------------------------------------------------------------
(* The inductive invariant behind UniqueUnlessRaced.                         *)

SlotType ==
  [cmd : Commands \cup {NoCommand},
   pc : {"free", "check", "write", "read", "send", "read2", "send2", "end"},
   old : Nat, listed : SUBSET Nat,
   event : [type : {"none", "Create", "Update", "Delete"}, id : Nat, ip : Nat],
   told : SUBSET Nat, touches : [nodes : SUBSET Nat, ips : SUBSET Nat]]

\* A node that is deleted is not read again.
TypeOK ==
  /\ Tables(db)
  /\ slots \in [Slots -> SlotType]
  /\ \A s \in Slots : slots[s].pc # "free" => slots[s].cmd \in Commands
  /\ \A s \in Slots : slots[s].pc = "read" => slots[s].cmd.op # "DeleteNode"
  /\ raced \in BOOLEAN

Unwritten == {s \in Slots : slots[s].pc \in {"check", "write"}}

\* A command is about the addresses it gives and the nodes it changes the devices of.
Covers(about, c, tables) ==
  /\ c.op = "CreateNode" \/ (c.op = "UpdateNode" /\ c.set # Null) => c.set \in about.ips
  /\ c.op = "CreateDevice" \/ (c.op = "UpdateDevice" /\ c.to # Null) => c.to \in about.nodes
  /\ c.op = "UpdateDevice" =>
       /\ c.id < tables.next.device
       /\ c.id \in Live(tables) => tables.devices[c.id].parent \in about.nodes

\* Nothing stands in the way of the write of a command: what its checks have found
\* still holds.
Clear(c, tables) ==
  LET row == tables.devices[c.id]
      taken(d, n, address) == tables.devices[d].parent = n /\ tables.devices[d].address = address
  IN  /\ c.op = "CreateNode" => NodesWithIp(tables, c.set) = {}
      /\ c.op = "UpdateNode" /\ c.set # Null => NodesWithIp(tables, c.set) \subseteq {c.id}
      /\ c.op = "CreateDevice" => \A d \in Live(tables) : ~taken(d, c.to, c.set)
      /\ c.op = "UpdateDevice" /\ c.id \in Live(tables) =>
           \A d \in Live(tables) \ {c.id} :
             ~taken(d, Coalesce(c.to, row.parent), Coalesce(c.set, row.address))

\* As long as no two commands about the same ran at once, a command that is to write
\* has its subject for itself and finds it as its checks did.
ClearUnlessRaced ==
  ~raced =>
    /\ \A r, s \in Unwritten : r # s => ~Meets(slots[r].touches, slots[s].touches)
    /\ \A s \in Unwritten : Covers(slots[s].touches, slots[s].cmd, db)
    /\ \A s \in Unwritten : slots[s].pc = "write" => Clear(slots[s].cmd, db)

IndInv == TypeOK /\ Related(db) /\ ClearUnlessRaced /\ UniqueUnlessRaced
=============================================================================
