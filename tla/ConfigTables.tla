---------------------------- MODULE ConfigTables ----------------------------
(***************************************************************************)
(* The tables nodes, devices, value_units and measures, and what each      *)
(* command of node_worker, device_worker and value_worker asks of them and *)
(* writes into them.                                                       *)
(*                                                                         *)
(* A table is a function from the ids of its rows.  Null is both NULL and  *)
(* "not given" in a command, as in COALESCE.  A row of measures stands for *)
(* all the measures of its value.  Names, ports, descriptions and settings *)
(* are left out: a change of them reads like one that changes nothing.     *)
(***************************************************************************)
EXTENDS Integers, Functions

Null == 0
On == 1   \* is_logging
Off == 2

Coalesce(a, b) == IF a = Null THEN b ELSE a
Insert(table, id, row) ==
  [x \in DOMAIN table \cup {id} |-> IF x = id THEN row ELSE table[x]]
Without(table, ids) == Restrict(table, DOMAIN table \ ids)
First(ids) == IF ids = {} THEN Null ELSE CHOOSE i \in ids : \A j \in ids : i <= j

-----------------------------------------------------------------------------
(* Queries.                                                                  *)

NodesWithIp(db, ip) == {n \in DOMAIN db.nodes : db.nodes[n] = ip}

\* get_by_ip: the address is not a key, the first row is answered.
GetByIp(db, ip) == First(NodesWithIp(db, ip))

\* get_node_by_id
GetNode(db, n) == IF n \in DOMAIN db.nodes THEN n ELSE Null

Live(db) == {d \in DOMAIN db.devices : ~db.devices[d].deleted}

\* get_device_by_id, by its parent_node_id
GetParent(db, d) == IF d \in Live(db) THEN db.devices[d].parent ELSE Null

\* get_device_by_node_id
GetByNode(db, n) == {d \in Live(db) : db.devices[d].parent = n}

\* get_value_by_device_id
GetValues(db, d) == {v \in DOMAIN db.values : db.values[v].device = d}

\* get_node_directly_by_device_id does not ask whether the device is deleted.
NodeOfDevice(db, d) ==
  IF d \in DOMAIN db.devices THEN GetNode(db, db.devices[d].parent) ELSE Null

\* What the task of a node makes of the tables when every query of create_devices is
\* answered; LoadsPart of ConfigCommands is the rest.
Config(db, n) ==
  {[id |-> d, address |-> db.devices[d].address,
    values |-> {<<v, db.values[v].logging>> : v \in GetValues(db, d)}] : d \in GetByNode(db, n)}

\* Mutant: among the deleted devices.
SameAddressDeleted(db, address, node) ==
  {d \in DOMAIN db.devices \ Live(db) :
     /\ db.devices[d].address = Coalesce(address, db.devices[d].address)
     /\ db.devices[d].parent = Coalesce(node, db.devices[d].parent)}

\* The query for devices that already have the address; what is not given
\* restricts nothing.
SameAddress(db, address, node) ==
  {d \in Live(db) : /\ db.devices[d].address = Coalesce(address, db.devices[d].address)
                    /\ db.devices[d].parent = Coalesce(node, db.devices[d].parent)}

-----------------------------------------------------------------------------
(* The checks a worker makes before it writes.                               *)

NodeCanBeCreated(db, ip) == GetByIp(db, ip) = Null

NodeCanBeUpdated(db, n, ip) ==
  n \in DOMAIN db.nodes /\ (ip # Null => GetByIp(db, ip) \in {Null, n})

DeviceCanBeCreated(db, n, address) ==
  n \in DOMAIN db.nodes /\ SameAddress(db, address, n) = {}

\* Of the devices with the address the first is compared with this one.
DeviceCanBeUpdated(db, d, n, address) ==
  /\ n # Null => n \in DOMAIN db.nodes
  /\ n # Null \/ address # Null => First(SameAddress(db, address, n)) \in {Null, d}
  /\ d \in Live(db)

ValueCanBeUpdated(db, v, d) ==
  v \in DOMAIN db.values /\ (d # Null => d \in Live(db))

Accepts(db, c) ==
  CASE c.op = "CreateNode" -> NodeCanBeCreated(db, c.set)
    [] c.op = "UpdateNode" -> NodeCanBeUpdated(db, c.id, c.set)
    [] c.op = "DeleteNode" -> TRUE
    [] c.op = "CreateDevice" -> DeviceCanBeCreated(db, c.to, c.set)
    [] c.op = "UpdateDevice" -> DeviceCanBeUpdated(db, c.id, c.to, c.set)
    [] c.op = "DeleteDevice" -> c.id \in Live(db)
    [] c.op = "CreateValue" -> c.to \in Live(db)
    [] c.op = "UpdateValue" -> ValueCanBeUpdated(db, c.id, c.to)
    [] c.op = "DeleteValue" -> c.id \in DOMAIN db.values

-----------------------------------------------------------------------------
(* Writes: each is one statement or one transaction.  A write that a foreign *)
(* key refuses changes nothing.                                              *)

InsertNode(db, ip) ==
  [db EXCEPT !.nodes = Insert(@, db.next.node, ip), !.next = [db.next EXCEPT !.node = db.next.node + 1]]

UpdateNode(db, n, ip) ==
  IF n \in DOMAIN db.nodes THEN [db EXCEPT !.nodes[n] = Coalesce(ip, @)] ELSE db

\* Devices of a node that delete_node only marks: they log a value.
Logs(db, d) == \E v \in GetValues(db, d) : db.values[v].logging = On
Marked(db, n) == {d \in DOMAIN db.devices : db.devices[d].parent = n /\ Logs(db, d)}
Dropped(db, n) == GetByNode(db, n) \ Marked(db, n)
DroppedValues(db, n) == UNION {GetValues(db, d) : d \in Dropped(db, n)}

\* A value that no longer logs may still have measures.
NodeDeletable(db, n) == DroppedValues(db, n) \cap db.measures = {}

\* Mutant: the devices of the node are deleted before those that log are marked.
DeleteNodeUnmarked(db, n) ==
  LET gone == UNION {GetValues(db, d) : d \in GetByNode(db, n)}
  IN  [db EXCEPT !.values = Without(@, gone), !.measures = @ \ gone,
                 !.devices = Without(@, GetByNode(db, n)), !.nodes = Without(@, {n})]

\* The foreign key sets the parent of the devices that stay to NULL.
Orphaned(db, d, n) ==
  LET row == db.devices[d]
  IN  IF row.parent # n THEN row
      ELSE [parent |-> Null, address |-> row.address,
            deleted |-> row.deleted \/ d \in Marked(db, n)]

\* delete_node
DeleteNode(db, n) ==
  LET stays == [d \in DOMAIN db.devices \ Dropped(db, n) |-> Orphaned(db, d, n)]
  IN  [db EXCEPT !.values = Without(@, DroppedValues(db, n)), !.devices = stays,
                 !.nodes = Without(@, {n})]

InsertDevice(db, n, address) ==
  [db EXCEPT !.devices = Insert(@, db.next.device,
                                [parent |-> n, address |-> address, deleted |-> FALSE]),
             !.next = [db.next EXCEPT !.device = db.next.device + 1]]

MovedDevice(row, n, address) ==
  [parent |-> Coalesce(n, row.parent), address |-> Coalesce(address, row.address),
   deleted |-> row.deleted]

UpdateDevice(db, d, n, address) ==
  IF d \in DOMAIN db.devices
  THEN [db EXCEPT !.devices[d] = MovedDevice(db.devices[d], n, address)] ELSE db

\* delete_value_with_transaction
DeleteValues(db, vs) == [db EXCEPT !.values = Without(@, vs), !.measures = @ \ vs]

\* delete_device, with the values that were listed before.
DeleteDevice(db, d, listed) == [DeleteValues(db, listed) EXCEPT !.devices = Without(@, {d})]

DeleteValue(db, v) == DeleteValues(db, {v})

InsertValue(db, d, logging) ==
  [db EXCEPT !.values = Insert(@, db.next.value, [device |-> d, logging |-> logging]),
             !.next = [db.next EXCEPT !.value = db.next.value + 1]]

MovedValue(row, d, logging) ==
  [device |-> Coalesce(d, row.device), logging |-> Coalesce(logging, row.logging)]

UpdateValue(db, v, d, logging) ==
  IF v \in DOMAIN db.values
  THEN [db EXCEPT !.values[v] = MovedValue(db.values[v], d, logging)] ELSE db

\* The foreign keys.
Keyed(db, c, listed) ==
  CASE c.op = "DeleteNode" -> NodeDeletable(db, c.id)
    [] c.op = "CreateDevice" -> c.to \in DOMAIN db.nodes
    [] c.op = "UpdateDevice" ->
         c.to # Null /\ c.id \in DOMAIN db.devices => c.to \in DOMAIN db.nodes
    [] c.op = "DeleteDevice" -> GetValues(db, c.id) \subseteq listed
    [] c.op = "CreateValue" -> c.to \in DOMAIN db.devices
    [] c.op = "UpdateValue" ->
         c.to # Null /\ c.id \in DOMAIN db.values => c.to \in DOMAIN db.devices
    [] OTHER -> TRUE

Write(db, c, listed) ==
  CASE c.op = "CreateNode" -> InsertNode(db, c.set)
    [] c.op = "UpdateNode" -> UpdateNode(db, c.id, c.set)
    [] c.op = "DeleteNode" -> DeleteNode(db, c.id)
    [] c.op = "CreateDevice" -> InsertDevice(db, c.to, c.set)
    [] c.op = "UpdateDevice" -> UpdateDevice(db, c.id, c.to, c.set)
    [] c.op = "DeleteDevice" -> DeleteDevice(db, c.id, listed)
    [] c.op = "CreateValue" -> InsertValue(db, c.to, c.set)
    [] c.op = "UpdateValue" -> UpdateValue(db, c.id, c.to, c.set)
    [] c.op = "DeleteValue" -> DeleteValue(db, c.id)

-----------------------------------------------------------------------------
(* What the tables always hold: rows of their types, which refer to rows that *)
(* are there.                                                                *)

DeviceRows == [parent : Nat, address : Nat, deleted : BOOLEAN]
ValueRows == [device : Nat, logging : {On, Off}]

\* Ids are given from 1 on.
IsTable(table, rows, next) ==
  /\ table \in [DOMAIN table -> rows]
  /\ \A id \in DOMAIN table : id \in Nat /\ 0 < id /\ id < next

Tables(db) ==
  /\ db = [nodes |-> db.nodes, devices |-> db.devices, values |-> db.values,
           measures |-> db.measures, next |-> db.next]
  /\ db.next \in [node : Nat \ {0}, device : Nat \ {0}, value : Nat \ {0}]
  /\ IsTable(db.nodes, Nat, db.next.node)
  /\ IsTable(db.devices, DeviceRows, db.next.device)
  /\ IsTable(db.values, ValueRows, db.next.value)

\* Only a deleted device has no node.
Related(db) ==
  /\ \A d \in DOMAIN db.devices : db.devices[d].parent \in DOMAIN db.nodes \cup {Null}
  /\ \A d \in Live(db) : db.devices[d].parent # Null
  /\ \A v \in DOMAIN db.values : db.values[v].device \in DOMAIN db.devices
  /\ db.measures \subseteq DOMAIN db.values

\* What the checks of the workers are for.
AddressesDiffer(db) ==
  /\ \A m, n \in DOMAIN db.nodes : db.nodes[m] = db.nodes[n] => m = n
  /\ \A d, e \in Live(db) :
       /\ db.devices[d].parent = db.devices[e].parent
       /\ db.devices[d].address = db.devices[e].address
       => d = e
=============================================================================
