------------------------- MODULE ConfigCommandsProofs -------------------------
(***************************************************************************)
(* Theorems about ConfigCommands for any tables to start with, any set of  *)
(* commands and any number of them at once.  Operators over tables take    *)
(* them as x before a write and as u after it.                             *)
(***************************************************************************)
EXTENDS ConfigFlow, WellFoundedInduction, FiniteSetTheorems, TLAPS

-----------------------------------------------------------------------------
(* The fields of the tables.                                                 *)

IsDb(x) == x = [nodes |-> x.nodes, devices |-> x.devices, values |-> x.values,
                measures |-> x.measures, next |-> x.next]

\* A write sets some fields and leaves the others.
LEMMA FieldsSet ==
  ASSUME NEW x, IsDb(x), NEW a
  PROVE  /\ IsDb([x EXCEPT !.nodes = a])
         /\ IsDb([x EXCEPT !.devices = a])
         /\ IsDb([x EXCEPT !.values = a])
         /\ IsDb([x EXCEPT !.measures = a])
         /\ IsDb([x EXCEPT !.next = a])
<1>1. IsDb([x EXCEPT !.nodes = a])
  BY DEF IsDb
<1>2. IsDb([x EXCEPT !.devices = a])
  BY DEF IsDb
<1>3. IsDb([x EXCEPT !.values = a])
  BY DEF IsDb
<1>4. IsDb([x EXCEPT !.measures = a])
  BY DEF IsDb
<1>5. IsDb([x EXCEPT !.next = a])
  BY DEF IsDb
<1> QED BY <1>1, <1>2, <1>3, <1>4, <1>5

LEMMA InsertNodeFields ==
  ASSUME NEW x, IsDb(x), NEW ip
  PROVE  LET u == InsertNode(x, ip) IN
         /\ IsDb(u)
         /\ u.nodes = Insert(x.nodes, x.next.node, ip)
         /\ u.devices = x.devices
         /\ u.values = x.values
         /\ u.measures = x.measures
         /\ u.next = [x.next EXCEPT !.node = x.next.node + 1]
<1> DEFINE A == Insert(x.nodes, x.next.node, ip)
           B == [x.next EXCEPT !.node = x.next.node + 1]
           u1 == [x EXCEPT !.nodes = A]
           u2 == [u1 EXCEPT !.next = B]
<1>1. InsertNode(x, ip) = u2
  BY DEF IsDb, InsertNode
<1> HIDE DEF A, B
<1>2. IsDb(u1)
  BY FieldsSet
<1>3. /\ u1.nodes = A /\ u1.devices = x.devices /\ u1.values = x.values
      /\ u1.measures = x.measures /\ u1.next = x.next
  BY DEF IsDb
<1> HIDE DEF u1
<1>4. IsDb(u2)
  BY <1>2, FieldsSet
<1>5. /\ u2.nodes = A /\ u2.devices = x.devices /\ u2.values = x.values
      /\ u2.measures = x.measures /\ u2.next = B
  BY <1>2, <1>3 DEF IsDb
<1> HIDE DEF u2
<1> QED BY <1>1, <1>4, <1>5 DEF A, B

LEMMA UpdateNodeFields ==
  ASSUME NEW x, IsDb(x), NEW n \in DOMAIN x.nodes, NEW ip
  PROVE  LET u == UpdateNode(x, n, ip) IN
         /\ IsDb(u)
         /\ u.nodes = [x.nodes EXCEPT ![n] = Coalesce(ip, x.nodes[n])]
         /\ u.devices = x.devices
         /\ u.values = x.values
         /\ u.measures = x.measures
         /\ u.next = x.next
<1> DEFINE A == [x.nodes EXCEPT ![n] = Coalesce(ip, x.nodes[n])]
           u1 == [x EXCEPT !.nodes = A]
<1>1. UpdateNode(x, n, ip) = u1
  BY DEF IsDb, UpdateNode
<1> HIDE DEF A
<1>2. IsDb(u1)
  BY FieldsSet
<1>3. /\ u1.nodes = A /\ u1.devices = x.devices /\ u1.values = x.values
      /\ u1.measures = x.measures /\ u1.next = x.next
  BY DEF IsDb
<1> HIDE DEF u1
<1> QED BY <1>1, <1>2, <1>3 DEF A

LEMMA DeleteNodeFields ==
  ASSUME NEW x, IsDb(x), NEW n
  PROVE  LET u == DeleteNode(x, n) IN
         /\ IsDb(u)
         /\ u.nodes = Without(x.nodes, {n})
         /\ u.devices = [d \in DOMAIN x.devices \ Dropped(x, n) |-> Orphaned(x, d, n)]
         /\ u.values = Without(x.values, DroppedValues(x, n))
         /\ u.measures = x.measures
         /\ u.next = x.next
<1> DEFINE A == Without(x.values, DroppedValues(x, n))
           B == [d \in DOMAIN x.devices \ Dropped(x, n) |-> Orphaned(x, d, n)]
           C == Without(x.nodes, {n})
           u1 == [x EXCEPT !.values = A]
           u2 == [u1 EXCEPT !.devices = B]
           u3 == [u2 EXCEPT !.nodes = C]
<1>1. DeleteNode(x, n) = u3
  BY DEF IsDb, DeleteNode
<1> HIDE DEF A, B, C
<1>2. IsDb(u1)
  BY FieldsSet
<1>3. /\ u1.nodes = x.nodes /\ u1.devices = x.devices /\ u1.values = A
      /\ u1.measures = x.measures /\ u1.next = x.next
  BY DEF IsDb
<1> HIDE DEF u1
<1>4. IsDb(u2)
  BY <1>2, FieldsSet
<1>5. /\ u2.nodes = x.nodes /\ u2.devices = B /\ u2.values = A
      /\ u2.measures = x.measures /\ u2.next = x.next
  BY <1>2, <1>3 DEF IsDb
<1> HIDE DEF u2
<1>6. IsDb(u3)
  BY <1>4, FieldsSet
<1>7. /\ u3.nodes = C /\ u3.devices = B /\ u3.values = A
      /\ u3.measures = x.measures /\ u3.next = x.next
  BY <1>4, <1>5 DEF IsDb
<1> HIDE DEF u3
<1> QED BY <1>1, <1>6, <1>7 DEF A, B, C

LEMMA InsertDeviceFields ==
  ASSUME NEW x, IsDb(x), NEW n, NEW address
  PROVE  LET u == InsertDevice(x, n, address) IN
         /\ IsDb(u)
         /\ u.nodes = x.nodes
         /\ u.devices = Insert(x.devices, x.next.device,
                       [parent |-> n, address |-> address, deleted |-> FALSE])
         /\ u.values = x.values
         /\ u.measures = x.measures
         /\ u.next = [x.next EXCEPT !.device = x.next.device + 1]
<1> DEFINE A == Insert(x.devices, x.next.device,
                       [parent |-> n, address |-> address, deleted |-> FALSE])
           B == [x.next EXCEPT !.device = x.next.device + 1]
           u1 == [x EXCEPT !.devices = A]
           u2 == [u1 EXCEPT !.next = B]
<1>1. InsertDevice(x, n, address) = u2
  BY DEF IsDb, InsertDevice
<1> HIDE DEF A, B
<1>2. IsDb(u1)
  BY FieldsSet
<1>3. /\ u1.nodes = x.nodes /\ u1.devices = A /\ u1.values = x.values
      /\ u1.measures = x.measures /\ u1.next = x.next
  BY DEF IsDb
<1> HIDE DEF u1
<1>4. IsDb(u2)
  BY <1>2, FieldsSet
<1>5. /\ u2.nodes = x.nodes /\ u2.devices = A /\ u2.values = x.values
      /\ u2.measures = x.measures /\ u2.next = B
  BY <1>2, <1>3 DEF IsDb
<1> HIDE DEF u2
<1> QED BY <1>1, <1>4, <1>5 DEF A, B

LEMMA UpdateDeviceFields ==
  ASSUME NEW x, IsDb(x), NEW d \in DOMAIN x.devices, NEW n, NEW address
  PROVE  LET u == UpdateDevice(x, d, n, address) IN
         /\ IsDb(u)
         /\ u.nodes = x.nodes
         /\ u.devices = [x.devices EXCEPT ![d] = MovedDevice(x.devices[d], n, address)]
         /\ u.values = x.values
         /\ u.measures = x.measures
         /\ u.next = x.next
<1> DEFINE A == [x.devices EXCEPT ![d] = MovedDevice(x.devices[d], n, address)]
           u1 == [x EXCEPT !.devices = A]
<1>1. UpdateDevice(x, d, n, address) = u1
  BY DEF IsDb, UpdateDevice
<1> HIDE DEF A
<1>2. IsDb(u1)
  BY FieldsSet
<1>3. /\ u1.nodes = x.nodes /\ u1.devices = A /\ u1.values = x.values
      /\ u1.measures = x.measures /\ u1.next = x.next
  BY DEF IsDb
<1> HIDE DEF u1
<1> QED BY <1>1, <1>2, <1>3 DEF A

LEMMA DeleteValuesFields ==
  ASSUME NEW x, IsDb(x), NEW vs
  PROVE  LET u == DeleteValues(x, vs) IN
         /\ IsDb(u)
         /\ u.nodes = x.nodes
         /\ u.devices = x.devices
         /\ u.values = Without(x.values, vs)
         /\ u.measures = x.measures \ vs
         /\ u.next = x.next
<1> DEFINE A == Without(x.values, vs)
           B == x.measures \ vs
           u1 == [x EXCEPT !.values = A]
           u2 == [u1 EXCEPT !.measures = B]
<1>1. DeleteValues(x, vs) = u2
  BY DEF IsDb, DeleteValues
<1> HIDE DEF A, B
<1>2. IsDb(u1)
  BY FieldsSet
<1>3. /\ u1.nodes = x.nodes /\ u1.devices = x.devices /\ u1.values = A
      /\ u1.measures = x.measures /\ u1.next = x.next
  BY DEF IsDb
<1> HIDE DEF u1
<1>4. IsDb(u2)
  BY <1>2, FieldsSet
<1>5. /\ u2.nodes = x.nodes /\ u2.devices = x.devices /\ u2.values = A
      /\ u2.measures = B /\ u2.next = x.next
  BY <1>2, <1>3 DEF IsDb
<1> HIDE DEF u2
<1> QED BY <1>1, <1>4, <1>5 DEF A, B

LEMMA InsertValueFields ==
  ASSUME NEW x, IsDb(x), NEW d, NEW logging
  PROVE  LET u == InsertValue(x, d, logging) IN
         /\ IsDb(u)
         /\ u.nodes = x.nodes
         /\ u.devices = x.devices
         /\ u.values = Insert(x.values, x.next.value, [device |-> d, logging |-> logging])
         /\ u.measures = x.measures
         /\ u.next = [x.next EXCEPT !.value = x.next.value + 1]
<1> DEFINE A == Insert(x.values, x.next.value, [device |-> d, logging |-> logging])
           B == [x.next EXCEPT !.value = x.next.value + 1]
           u1 == [x EXCEPT !.values = A]
           u2 == [u1 EXCEPT !.next = B]
<1>1. InsertValue(x, d, logging) = u2
  BY DEF IsDb, InsertValue
<1> HIDE DEF A, B
<1>2. IsDb(u1)
  BY FieldsSet
<1>3. /\ u1.nodes = x.nodes /\ u1.devices = x.devices /\ u1.values = A
      /\ u1.measures = x.measures /\ u1.next = x.next
  BY DEF IsDb
<1> HIDE DEF u1
<1>4. IsDb(u2)
  BY <1>2, FieldsSet
<1>5. /\ u2.nodes = x.nodes /\ u2.devices = x.devices /\ u2.values = A
      /\ u2.measures = x.measures /\ u2.next = B
  BY <1>2, <1>3 DEF IsDb
<1> HIDE DEF u2
<1> QED BY <1>1, <1>4, <1>5 DEF A, B

LEMMA UpdateValueFields ==
  ASSUME NEW x, IsDb(x), NEW v \in DOMAIN x.values, NEW d, NEW logging
  PROVE  LET u == UpdateValue(x, v, d, logging) IN
         /\ IsDb(u)
         /\ u.nodes = x.nodes
         /\ u.devices = x.devices
         /\ u.values = [x.values EXCEPT ![v] = MovedValue(x.values[v], d, logging)]
         /\ u.measures = x.measures
         /\ u.next = x.next
<1> DEFINE A == [x.values EXCEPT ![v] = MovedValue(x.values[v], d, logging)]
           u1 == [x EXCEPT !.values = A]
<1>1. UpdateValue(x, v, d, logging) = u1
  BY DEF IsDb, UpdateValue
<1> HIDE DEF A
<1>2. IsDb(u1)
  BY FieldsSet
<1>3. /\ u1.nodes = x.nodes /\ u1.devices = x.devices /\ u1.values = A
      /\ u1.measures = x.measures /\ u1.next = x.next
  BY DEF IsDb
<1> HIDE DEF u1
<1> QED BY <1>1, <1>2, <1>3 DEF A

LEMMA DeleteDeviceFields ==
  ASSUME NEW x, IsDb(x), NEW d, NEW listed
  PROVE  LET u == DeleteDevice(x, d, listed)
         IN  IsDb(u) /\ u.devices = Without(x.devices, {d})
<1> DEFINE A == Without(x.devices, {d})
           y == DeleteValues(x, listed)
           u1 == [y EXCEPT !.devices = A]
<1>1. IsDb(y) /\ y.devices = x.devices
  BY DeleteValuesFields
<1>2. DeleteDevice(x, d, listed) = u1
  BY <1>1 DEF IsDb, DeleteDevice
<1> HIDE DEF A, y
<1>3. IsDb(u1)
  BY <1>1, FieldsSet
<1>4. u1.devices = A
  BY <1>1 DEF IsDb
<1> HIDE DEF u1
<1> QED BY <1>2, <1>3, <1>4 DEF A

LEMMA DeleteDeviceRest ==
  ASSUME NEW x, IsDb(x), NEW d, NEW listed
  PROVE  LET y == DeleteValues(x, listed)
             u == DeleteDevice(x, d, listed)
         IN  /\ u.nodes = y.nodes /\ u.values = y.values
             /\ u.measures = y.measures /\ u.next = y.next
<1> DEFINE A == Without(x.devices, {d})
           y == DeleteValues(x, listed)
           u1 == [y EXCEPT !.devices = A]
<1>1. IsDb(y) /\ y.devices = x.devices
  BY DeleteValuesFields
<1>2. DeleteDevice(x, d, listed) = u1
  BY <1>1 DEF IsDb, DeleteDevice
<1> HIDE DEF A, y
<1>3. /\ u1.nodes = y.nodes /\ u1.values = y.values
      /\ u1.measures = y.measures /\ u1.next = y.next
  BY <1>1 DEF IsDb
<1> HIDE DEF u1
<1> QED BY <1>2, <1>3 DEF y
-----------------------------------------------------------------------------
(* Every write keeps the types and the references.                           *)

LEMMA TableInsert ==
  ASSUME NEW t, NEW R, NEW next \in Nat \ {0}, IsTable(t, R, next), NEW row \in R
  PROVE  IsTable(Insert(t, next, row), R, next + 1)
  BY DEF IsTable, Insert

LEMMA TableUpdate ==
  ASSUME NEW t, NEW R, NEW next, IsTable(t, R, next), NEW id \in DOMAIN t, NEW row \in R
  PROVE  IsTable([t EXCEPT ![id] = row], R, next)
  BY DEF IsTable

LEMMA TableWithout ==
  ASSUME NEW t, NEW R, NEW next, IsTable(t, R, next), NEW ids
  PROVE  IsTable(Without(t, ids), R, next)
  BY DEF IsTable, Without, Restrict

\* The ids and the fields of the rows have their types.
LEMMA RowTypes ==
  ASSUME NEW x, Tables(x)
  PROVE  /\ \A n \in DOMAIN x.nodes : x.nodes[n] \in Nat /\ n \in Nat /\ n # Null
         /\ \A d \in DOMAIN x.devices :
              /\ d \in Nat /\ d # Null /\ d < x.next.device
              /\ x.devices[d].parent \in Nat /\ x.devices[d].address \in Nat
              /\ x.devices[d].deleted \in BOOLEAN
         /\ \A v \in DOMAIN x.values :
              /\ v \in Nat /\ v # Null
              /\ x.values[v].device \in Nat /\ x.values[v].logging \in {On, Off}
         /\ x.next.device \in Nat \ {0} /\ x.next.device \notin DOMAIN x.devices
         /\ x.next.node \in Nat \ {0} /\ x.next.node \notin DOMAIN x.nodes
  BY DEF Tables, IsTable, DeviceRows, ValueRows, Null

LEMMA InsertNodeTables ==
  ASSUME NEW x, Tables(x), Related(x), NEW ip \in Nat
  PROVE  LET u == InsertNode(x, ip) IN Tables(u) /\ Related(u)
<1> DEFINE u == InsertNode(x, ip)
<1>1. /\ IsDb(u)
      /\ u.nodes = Insert(x.nodes, x.next.node, ip)
      /\ u.devices = x.devices /\ u.values = x.values /\ u.measures = x.measures
      /\ u.next = [x.next EXCEPT !.node = x.next.node + 1]
  BY InsertNodeFields DEF Tables, IsDb
<1> HIDE DEF u
<1>2. /\ u.next \in [node : Nat \ {0}, device : Nat \ {0}, value : Nat \ {0}]
      /\ u.next.node = x.next.node + 1 /\ u.next.device = x.next.device
      /\ u.next.value = x.next.value
  BY <1>1 DEF Tables
<1>3. IsTable(u.nodes, Nat, u.next.node)
  BY <1>1, <1>2, TableInsert DEF Tables
<1>4. Tables(u)
  BY <1>1, <1>2, <1>3 DEF Tables, IsDb
<1>5. Related(u)
  BY <1>1 DEF Related, Live, Insert
<1> QED BY <1>4, <1>5 DEF u

LEMMA UpdateNodeTables ==
  ASSUME NEW x, Tables(x), Related(x), NEW n, NEW ip \in Nat
  PROVE  LET u == UpdateNode(x, n, ip) IN Tables(u) /\ Related(u)
<1>1. CASE n \notin DOMAIN x.nodes
  BY <1>1 DEF UpdateNode
<1>2. CASE n \in DOMAIN x.nodes
  <2> DEFINE u == UpdateNode(x, n, ip)
  <2>1. /\ IsDb(u)
        /\ u.nodes = [x.nodes EXCEPT ![n] = Coalesce(ip, x.nodes[n])]
        /\ u.devices = x.devices /\ u.values = x.values /\ u.measures = x.measures
        /\ u.next = x.next
    BY <1>2, UpdateNodeFields DEF Tables, IsDb
  <2> HIDE DEF u
  <2>2. Coalesce(ip, x.nodes[n]) \in Nat
    BY <1>2, RowTypes DEF Coalesce
  <2>3. IsTable(u.nodes, Nat, u.next.node)
    BY <1>2, <2>1, <2>2, TableUpdate DEF Tables
  <2>4. Tables(u)
    BY <2>1, <2>3 DEF Tables, IsDb
  <2>5. DOMAIN u.nodes = DOMAIN x.nodes
    BY <2>1
  <2>6. Related(u)
    BY <2>1, <2>5 DEF Related, Live
  <2> QED BY <2>4, <2>6 DEF u
<1> QED BY <1>1, <1>2

\* What is left of a device when its node n is deleted: a device that is in use is
\* one of another node.
LEMMA OrphanedFacts ==
  ASSUME NEW x, Tables(x), NEW n \in Nat, NEW d \in DOMAIN x.devices, d \notin Dropped(x, n)
  PROVE  /\ Orphaned(x, d, n) \in DeviceRows
         /\ Orphaned(x, d, n).address = x.devices[d].address
         /\ Orphaned(x, d, n).parent = IF x.devices[d].parent = n THEN Null ELSE x.devices[d].parent
         /\ ~Orphaned(x, d, n).deleted =>
              /\ x.devices[d].parent # n /\ ~x.devices[d].deleted
              /\ Orphaned(x, d, n) = x.devices[d]
<1> DEFINE row == x.devices[d]
<1>1. row \in DeviceRows
  BY DEF Tables, IsTable
<1>2. CASE row.parent # n
  <2>1. Orphaned(x, d, n) = row
    BY <1>2 DEF Orphaned
  <2> QED BY <1>1, <1>2, <2>1 DEF DeviceRows
<1>3. CASE row.parent = n
  <2> DEFINE gone == row.deleted \/ d \in Marked(x, n)
  <2>1. Orphaned(x, d, n) = [parent |-> Null, address |-> row.address, deleted |-> gone]
    BY <1>3 DEF Orphaned
  <2>2. gone
    <3>1. d \in Live(x) => d \in Marked(x, n)
      BY <1>3 DEF Dropped, GetByNode, Live
    <3>2. row.deleted \in BOOLEAN /\ (~row.deleted => d \in Live(x))
      BY <1>1 DEF DeviceRows, Live
    <3> QED BY <3>1, <3>2
  <2> HIDE DEF gone
  <2>3. Orphaned(x, d, n) = [parent |-> Null, address |-> row.address, deleted |-> TRUE]
    BY <2>1, <2>2
  <2>4. row.address \in Nat
    BY <1>1 DEF DeviceRows
  <2> QED BY <1>3, <2>3, <2>4 DEF DeviceRows, Null
<1> QED BY <1>2, <1>3

LEMMA DeleteNodeTables ==
  ASSUME NEW x, Tables(x), Related(x), NEW n \in Nat, NodeDeletable(x, n)
  PROVE  LET u == DeleteNode(x, n) IN Tables(u) /\ Related(u)
<1> DEFINE u == DeleteNode(x, n)
           left == DOMAIN x.devices \ Dropped(x, n)
<1>0. IsDb(x)
  BY DEF Tables, IsDb
<1>1. /\ IsDb(u)
      /\ u.nodes = Without(x.nodes, {n})
      /\ u.devices = [d \in DOMAIN x.devices \ Dropped(x, n) |-> Orphaned(x, d, n)]
      /\ u.values = Without(x.values, DroppedValues(x, n))
      /\ u.measures = x.measures
      /\ u.next = x.next
  BY <1>0, DeleteNodeFields
<1> HIDE DEF u
<1>2. IsTable(u.nodes, Nat, u.next.node) /\ IsTable(u.values, ValueRows, u.next.value)
  BY <1>1, TableWithout DEF Tables
<1>3. DOMAIN u.devices = left /\ \A d \in left : u.devices[d] = Orphaned(x, d, n)
  BY <1>1
<1>4. IsTable(u.devices, DeviceRows, u.next.device)
  <2>1. u.devices \in [left -> DeviceRows]
    BY <1>1, OrphanedFacts
  <2> QED BY <1>1, <1>3, <2>1 DEF Tables, IsTable
<1>5. Tables(u)
  BY <1>1, <1>2, <1>4 DEF Tables, IsDb
<1>6. DOMAIN u.nodes = DOMAIN x.nodes \ {n} /\ DOMAIN u.values = DOMAIN x.values \ DroppedValues(x, n)
  BY <1>1 DEF Without, Restrict
<1>7. \A d \in DOMAIN u.devices : u.devices[d].parent \in DOMAIN u.nodes \cup {Null}
  <2> SUFFICES ASSUME NEW d \in left PROVE u.devices[d].parent \in DOMAIN u.nodes \cup {Null}
    BY <1>3
  <2>1. u.devices[d].parent = IF x.devices[d].parent = n THEN Null ELSE x.devices[d].parent
    BY <1>3, OrphanedFacts
  <2> QED BY <1>6, <2>1 DEF Related
<1>8. \A d \in Live(u) : u.devices[d].parent # Null
  <2> SUFFICES ASSUME NEW d \in left, ~Orphaned(x, d, n).deleted
               PROVE  Orphaned(x, d, n).parent # Null
    BY <1>3 DEF Live
  <2>1. ~x.devices[d].deleted /\ Orphaned(x, d, n) = x.devices[d]
    BY OrphanedFacts
  <2>2. d \in Live(x)
    BY <2>1 DEF Live
  <2> QED BY <2>1, <2>2 DEF Related
<1>9. \A v \in DOMAIN u.values : u.values[v].device \in DOMAIN u.devices
  <2> SUFFICES ASSUME NEW v \in DOMAIN x.values, v \notin DroppedValues(x, n)
               PROVE  u.values[v].device \in left
    BY <1>3, <1>6
  <2>1. u.values[v] = x.values[v]
    BY <1>1 DEF Without, Restrict
  <2>2. x.values[v].device \notin Dropped(x, n)
    BY DEF DroppedValues, GetValues
  <2> QED BY <2>1, <2>2 DEF Related
<1>10. u.measures \subseteq DOMAIN u.values
  BY <1>1, <1>6 DEF Related, NodeDeletable
<1>11. Related(u)
  BY <1>7, <1>8, <1>9, <1>10 DEF Related
<1> QED BY <1>5, <1>11 DEF u

LEMMA InsertDeviceTables ==
  ASSUME NEW x, Tables(x), Related(x), NEW n \in DOMAIN x.nodes, NEW address \in Nat
  PROVE  LET u == InsertDevice(x, n, address) IN Tables(u) /\ Related(u)
<1> DEFINE u == InsertDevice(x, n, address)
           row == [parent |-> n, address |-> address, deleted |-> FALSE]
<1>1. /\ IsDb(u)
      /\ u.devices = Insert(x.devices, x.next.device, row)
      /\ u.nodes = x.nodes /\ u.values = x.values /\ u.measures = x.measures
      /\ u.next = [x.next EXCEPT !.device = x.next.device + 1]
  BY InsertDeviceFields DEF Tables, IsDb
<1>2. row \in DeviceRows /\ row.parent = n /\ n # Null
  BY RowTypes DEF DeviceRows
<1> HIDE DEF u, row
<1>3. /\ u.next \in [node : Nat \ {0}, device : Nat \ {0}, value : Nat \ {0}]
      /\ u.next.device = x.next.device + 1 /\ u.next.node = x.next.node
      /\ u.next.value = x.next.value
  BY <1>1 DEF Tables
<1>4. x.next.device \in Nat \ {0} /\ IsTable(x.devices, DeviceRows, x.next.device)
  BY DEF Tables
<1>5. IsTable(u.devices, DeviceRows, u.next.device)
  BY <1>1, <1>2, <1>3, <1>4, TableInsert
<1>6. Tables(u)
  BY <1>1, <1>3, <1>5 DEF Tables, IsDb
<1>7. /\ DOMAIN u.devices = DOMAIN x.devices \cup {x.next.device}
      /\ u.devices[x.next.device] = row
      /\ \A d \in DOMAIN x.devices : d # x.next.device => u.devices[d] = x.devices[d]
  BY <1>1 DEF Insert
<1>8. \A d \in DOMAIN u.devices : u.devices[d].parent \in DOMAIN u.nodes \cup {Null}
  BY <1>1, <1>2, <1>7 DEF Related
<1>9. \A d \in Live(u) : u.devices[d].parent # Null
  <2> SUFFICES ASSUME NEW d \in DOMAIN u.devices, ~u.devices[d].deleted
               PROVE  u.devices[d].parent # Null
    BY DEF Live
  <2>1. CASE d = x.next.device
    BY <1>2, <1>7, <2>1
  <2>2. CASE d # x.next.device
    BY <1>7, <2>2 DEF Related, Live
  <2> QED BY <2>1, <2>2
<1>10. Related(u)
  BY <1>1, <1>7, <1>8, <1>9 DEF Related
<1> QED BY <1>6, <1>10 DEF u

LEMMA MovedDeviceFacts ==
  ASSUME NEW row \in DeviceRows, NEW n \in Nat, NEW address \in Nat
  PROVE  LET moved == MovedDevice(row, n, address) IN
         /\ moved \in DeviceRows
         /\ moved.parent = Coalesce(n, row.parent) /\ moved.address = Coalesce(address, row.address)
         /\ moved.deleted = row.deleted
         /\ n # Null => moved.parent = n
         /\ n = Null => moved.parent = row.parent
  BY DEF MovedDevice, DeviceRows, Coalesce

LEMMA UpdateDeviceTables ==
  ASSUME NEW x, Tables(x), Related(x), NEW d, NEW n \in Nat, NEW address \in Nat,
         n # Null /\ d \in DOMAIN x.devices => n \in DOMAIN x.nodes
  PROVE  LET u == UpdateDevice(x, d, n, address) IN Tables(u) /\ Related(u)
<1>1. CASE d \notin DOMAIN x.devices
  BY <1>1 DEF UpdateDevice
<1>2. CASE d \in DOMAIN x.devices
  <2> DEFINE u == UpdateDevice(x, d, n, address)
             row == MovedDevice(x.devices[d], n, address)
  <2>1. /\ IsDb(u)
        /\ u.devices = [x.devices EXCEPT ![d] = row]
        /\ u.nodes = x.nodes /\ u.values = x.values /\ u.measures = x.measures
        /\ u.next = x.next
    BY <1>2, UpdateDeviceFields DEF Tables, IsDb
  <2>2. x.devices[d] \in DeviceRows
    BY <1>2 DEF Tables, IsTable
  <2>3. /\ row \in DeviceRows /\ row.deleted = x.devices[d].deleted
        /\ n # Null => row.parent = n
        /\ n = Null => row.parent = x.devices[d].parent
    BY <2>2, MovedDeviceFacts
  <2> HIDE DEF u, row
  <2>4. IsTable(u.devices, DeviceRows, u.next.device)
    BY <1>2, <2>1, <2>3, TableUpdate DEF Tables
  <2>5. Tables(u)
    BY <2>1, <2>4 DEF Tables, IsDb
  <2>6. /\ DOMAIN u.devices = DOMAIN x.devices /\ u.devices[d] = row
        /\ \A e \in DOMAIN x.devices : e # d => u.devices[e] = x.devices[e]
    BY <1>2, <2>1
  <2>7. Live(u) = Live(x)
    BY <2>3, <2>6 DEF Live
  <2>8. row.parent \in DOMAIN x.nodes \cup {Null} /\ (d \in Live(x) => row.parent # Null)
    BY <1>2, <2>3 DEF Related
  <2>9. \A e \in DOMAIN u.devices : u.devices[e].parent \in DOMAIN u.nodes \cup {Null}
    BY <2>1, <2>6, <2>8 DEF Related
  <2>10. \A e \in Live(x) : u.devices[e].parent # Null
    BY <2>6, <2>8 DEF Related, Live
  <2>11. Related(u)
    BY <2>1, <2>6, <2>7, <2>9, <2>10 DEF Related
  <2> QED BY <2>5, <2>11 DEF u
<1> QED BY <1>1, <1>2

LEMMA DeleteValuesTables ==
  ASSUME NEW x, Tables(x), Related(x), NEW vs
  PROVE  LET u == DeleteValues(x, vs) IN Tables(u) /\ Related(u)
<1> DEFINE u == DeleteValues(x, vs)
<1>1. /\ IsDb(u) /\ u.values = Without(x.values, vs) /\ u.measures = x.measures \ vs
      /\ u.nodes = x.nodes /\ u.devices = x.devices /\ u.next = x.next
  BY DeleteValuesFields DEF Tables, IsDb
<1> HIDE DEF u
<1>2. Tables(u)
  BY <1>1, TableWithout DEF Tables, IsDb
<1>3. Related(u)
  BY <1>1 DEF Related, Live, Without, Restrict
<1> QED BY <1>2, <1>3 DEF u

LEMMA DeleteDeviceTables ==
  ASSUME NEW x, Tables(x), Related(x), NEW d, NEW listed, GetValues(x, d) \subseteq listed
  PROVE  LET u == DeleteDevice(x, d, listed) IN Tables(u) /\ Related(u)
<1> DEFINE y == DeleteValues(x, listed)
           u == DeleteDevice(x, d, listed)
<1>1. Tables(y) /\ Related(y)
  BY DeleteValuesTables
<1>2. y.devices = x.devices /\ y.values = Without(x.values, listed)
  BY DeleteValuesFields DEF Tables, IsDb
<1>3. /\ IsDb(u)
      /\ u.devices = Without(x.devices, {d})
      /\ u.nodes = y.nodes /\ u.values = y.values /\ u.measures = y.measures
      /\ u.next = y.next
  <2>1. IsDb(x)
    BY DEF Tables, IsDb
  <2>2. IsDb(u) /\ u.devices = Without(x.devices, {d})
    BY <2>1, DeleteDeviceFields
  <2> QED BY <2>1, <2>2, DeleteDeviceRest
<1> HIDE DEF u, y
<1>4. Tables(u)
  BY <1>1, <1>2, <1>3, TableWithout DEF Tables, IsDb
<1>5. /\ DOMAIN u.devices = DOMAIN y.devices \ {d}
      /\ \A e \in DOMAIN u.devices : u.devices[e] = y.devices[e]
  BY <1>2, <1>3 DEF Without, Restrict
<1>6. \A v \in DOMAIN y.values : y.values[v].device # d
  BY <1>2 DEF GetValues, Without, Restrict
<1>7. Related(u)
  BY <1>1, <1>3, <1>5, <1>6 DEF Related, Live
<1> QED BY <1>4, <1>7 DEF u

LEMMA InsertValueTables ==
  ASSUME NEW x, Tables(x), Related(x), NEW d \in DOMAIN x.devices, NEW logging \in {On, Off}
  PROVE  LET u == InsertValue(x, d, logging) IN Tables(u) /\ Related(u)
<1> DEFINE u == InsertValue(x, d, logging)
           row == [device |-> d, logging |-> logging]
<1>1. /\ IsDb(u)
      /\ u.values = Insert(x.values, x.next.value, row)
      /\ u.nodes = x.nodes /\ u.devices = x.devices /\ u.measures = x.measures
      /\ u.next = [x.next EXCEPT !.value = x.next.value + 1]
  BY InsertValueFields DEF Tables, IsDb
<1>2. row \in ValueRows /\ row.device = d
  BY RowTypes DEF ValueRows
<1> HIDE DEF u, row
<1>3. /\ u.next \in [node : Nat \ {0}, device : Nat \ {0}, value : Nat \ {0}]
      /\ u.next.value = x.next.value + 1 /\ u.next.node = x.next.node
      /\ u.next.device = x.next.device
  BY <1>1 DEF Tables
<1>4. x.next.value \in Nat \ {0} /\ IsTable(x.values, ValueRows, x.next.value)
  BY DEF Tables
<1>5. IsTable(u.values, ValueRows, u.next.value)
  BY <1>1, <1>2, <1>3, <1>4, TableInsert
<1>6. Tables(u)
  BY <1>1, <1>3, <1>5 DEF Tables, IsDb
<1>7. /\ DOMAIN u.values = DOMAIN x.values \cup {x.next.value}
      /\ u.values[x.next.value] = row
      /\ \A v \in DOMAIN x.values : v # x.next.value => u.values[v] = x.values[v]
  BY <1>1 DEF Insert
<1>8. \A v \in DOMAIN u.values : u.values[v].device \in DOMAIN u.devices
  BY <1>1, <1>2, <1>7 DEF Related
<1>9. Related(u)
  BY <1>1, <1>7, <1>8 DEF Related, Live
<1> QED BY <1>6, <1>9 DEF u

LEMMA UpdateValueTables ==
  ASSUME NEW x, Tables(x), Related(x), NEW v, NEW d \in Nat, NEW logging \in {Null, On, Off},
         d # Null /\ v \in DOMAIN x.values => d \in DOMAIN x.devices
  PROVE  LET u == UpdateValue(x, v, d, logging) IN Tables(u) /\ Related(u)
<1>1. CASE v \notin DOMAIN x.values
  BY <1>1 DEF UpdateValue
<1>2. CASE v \in DOMAIN x.values
  <2> DEFINE u == UpdateValue(x, v, d, logging)
             row == MovedValue(x.values[v], d, logging)
  <2>1. /\ IsDb(u)
        /\ u.values = [x.values EXCEPT ![v] = row]
        /\ u.nodes = x.nodes /\ u.devices = x.devices /\ u.measures = x.measures
        /\ u.next = x.next
    BY <1>2, UpdateValueFields DEF Tables, IsDb
  <2>2. /\ x.values[v].device \in DOMAIN x.devices \cap Nat
        /\ x.values[v].logging \in {On, Off}
    BY <1>2, RowTypes DEF Related
  <2>3. row \in ValueRows /\ row.device \in DOMAIN x.devices
    BY <1>2, <2>2 DEF MovedValue, Coalesce, ValueRows, On, Off, Null
  <2> HIDE DEF u, row
  <2>4. IsTable(u.values, ValueRows, u.next.value)
    BY <1>2, <2>1, <2>3, TableUpdate DEF Tables
  <2>5. Tables(u)
    BY <2>1, <2>4 DEF Tables, IsDb
  <2>6. /\ DOMAIN u.values = DOMAIN x.values /\ u.values[v] = row
        /\ \A w \in DOMAIN x.values : w # v => u.values[w] = x.values[w]
    BY <1>2, <2>1
  <2>7. \A w \in DOMAIN u.values : u.values[w].device \in DOMAIN u.devices
    BY <2>1, <2>3, <2>6 DEF Related
  <2>8. Related(u)
    BY <2>1, <2>6, <2>7 DEF Related, Live
  <2> QED BY <2>5, <2>8 DEF u
<1> QED BY <1>1, <1>2

LEMMA WriteTables ==
  ASSUME NEW x, Tables(x), Related(x), NEW c, IsCommand(c), NEW listed, Keyed(x, c, listed)
  PROVE  Tables(Write(x, c, listed)) /\ Related(Write(x, c, listed))
<1> USE DEF IsCommand
<1>1. CASE c.op = "CreateNode"
  BY <1>1, InsertNodeTables DEF Write
<1>2. CASE c.op = "UpdateNode"
  BY <1>2, UpdateNodeTables DEF Write
<1>3. CASE c.op = "DeleteNode"
  BY <1>3, DeleteNodeTables DEF Write, Keyed
<1>4. CASE c.op = "CreateDevice"
  BY <1>4, InsertDeviceTables DEF Write, Keyed
<1>5. CASE c.op = "UpdateDevice"
  BY <1>5, UpdateDeviceTables DEF Write, Keyed
<1>6. CASE c.op = "DeleteDevice"
  BY <1>6, DeleteDeviceTables DEF Write, Keyed
<1>7. CASE c.op = "CreateValue"
  BY <1>7, InsertValueTables DEF Write, Keyed
<1>8. CASE c.op = "UpdateValue"
  BY <1>8, UpdateValueTables DEF Write, Keyed
<1>9. CASE c.op = "DeleteValue"
  BY <1>9, DeleteValuesTables DEF Write, DeleteValue
<1> QED BY <1>1, <1>2, <1>3, <1>4, <1>5, <1>6, <1>7, <1>8, <1>9 DEF Operations

-----------------------------------------------------------------------------
(* Addresses.                                                                *)

LEMMA FirstFacts ==
  ASSUME NEW ids \in SUBSET (Nat \ {0})
  PROVE  IF ids = {} THEN First(ids) = Null ELSE First(ids) \in ids /\ First(ids) # Null
<1>1. CASE ids = {}
  BY <1>1 DEF First
<1>2. CASE ids # {}
  <2>1. \E i \in ids : \A j \in ids : i <= j
    <3>1. IsWellFoundedOn(OpToRel(<, Nat), Nat)
      BY NatLessThanWellFounded
    <3>2. PICK i \in ids : \A j \in ids : ~(<<j, i>> \in OpToRel(<, Nat))
      <4> HIDE DEF IsWellFoundedOn
      <4> QED BY <1>2, <3>1, WFMin
    <3>3. \A j \in ids : ~(j < i)
      BY <3>2 DEF OpToRel
    <3> QED BY <3>3
  <2>2. First(ids) \in ids
    BY <1>2, <2>1 DEF First
  <2> QED BY <1>2, <2>2 DEF Null
<1> QED BY <1>1, <1>2

\* What a write changes of the addresses is about the addresses and the nodes of a
\* command: all other nodes and devices in use are as they were.
Spares(x, u, about) ==
  /\ \A n \in DOMAIN u.nodes :
       \/ n \in DOMAIN x.nodes /\ u.nodes[n] = x.nodes[n]
       \/ u.nodes[n] \in about.ips
  /\ \A d \in Live(u) :
       \/ d \in Live(x) /\ u.devices[d] = x.devices[d]
       \/ /\ u.devices[d].parent \in about.nodes
          /\ d \in Live(x) => x.devices[d].parent \in about.nodes
          /\ d \in Live(x) \/ d = x.next.device
  /\ x.next.device <= u.next.device

LEMMA SameAddresses ==
  ASSUME NEW x, Tables(x), NEW u, NEW about, u.nodes = x.nodes, u.devices = x.devices,
         u.next.device = x.next.device
  PROVE  Spares(x, u, about)
<1>1. Live(u) = Live(x)
  BY DEF Live
<1>2. x.next.device \in Nat
  BY RowTypes
<1> QED BY <1>1, <1>2 DEF Spares

LEMMA InsertNodeSpares ==
  ASSUME NEW x, Tables(x), NEW ip, NEW about, ip \in about.ips
  PROVE  Spares(x, InsertNode(x, ip), about)
<1> DEFINE u == InsertNode(x, ip)
<1>1. /\ u.nodes = Insert(x.nodes, x.next.node, ip) /\ u.devices = x.devices
      /\ u.next = [x.next EXCEPT !.node = x.next.node + 1]
  BY InsertNodeFields DEF Tables, IsDb
<1> HIDE DEF u
<1>2. u.next.device = x.next.device /\ x.next.device \in Nat
  BY <1>1 DEF Tables
<1>3. Live(u) = Live(x)
  BY <1>1 DEF Live
<1>4. \A n \in DOMAIN u.nodes :
        \/ n \in DOMAIN x.nodes /\ u.nodes[n] = x.nodes[n]
        \/ u.nodes[n] = ip
  BY <1>1 DEF Insert
<1>5. Spares(x, u, about)
  BY <1>1, <1>2, <1>3, <1>4 DEF Spares
<1> QED BY <1>5 DEF u

LEMMA UpdateNodeSpares ==
  ASSUME NEW x, Tables(x), NEW n, NEW ip, NEW about, ip # Null => ip \in about.ips
  PROVE  Spares(x, UpdateNode(x, n, ip), about)
<1>1. CASE n \notin DOMAIN x.nodes
  BY <1>1, SameAddresses DEF UpdateNode
<1>2. CASE n \in DOMAIN x.nodes
  <2> DEFINE u == UpdateNode(x, n, ip)
  <2>1. /\ u.nodes = [x.nodes EXCEPT ![n] = Coalesce(ip, x.nodes[n])]
        /\ u.devices = x.devices /\ u.next = x.next
    BY <1>2, UpdateNodeFields DEF Tables, IsDb
  <2> HIDE DEF u
  <2>2. \A m \in DOMAIN u.nodes :
          \/ m \in DOMAIN x.nodes /\ u.nodes[m] = x.nodes[m]
          \/ u.nodes[m] \in about.ips
    BY <2>1 DEF Coalesce
  <2>3. Live(u) = Live(x) /\ x.next.device \in Nat
    BY <2>1, RowTypes DEF Live
  <2> QED BY <2>1, <2>2, <2>3 DEF Spares, u
<1> QED BY <1>1, <1>2

\* Deletions spare whatever they leave.
LEMMA DeleteNodeSpares ==
  ASSUME NEW x, Tables(x), NEW n \in Nat, NEW about
  PROVE  Spares(x, DeleteNode(x, n), about)
<1> DEFINE u == DeleteNode(x, n)
<1>0. IsDb(x)
  BY DEF Tables, IsDb
<1>1. /\ IsDb(u)
      /\ u.nodes = Without(x.nodes, {n})
      /\ u.devices = [d \in DOMAIN x.devices \ Dropped(x, n) |-> Orphaned(x, d, n)]
      /\ u.next = x.next
  BY <1>0, DeleteNodeFields
<1> HIDE DEF u
<1>2. \A m \in DOMAIN u.nodes : m \in DOMAIN x.nodes /\ u.nodes[m] = x.nodes[m]
  BY <1>1 DEF Without, Restrict
<1>3. \A d \in Live(u) : d \in Live(x) /\ u.devices[d] = x.devices[d]
  <2> DEFINE left == DOMAIN x.devices \ Dropped(x, n)
  <2>1. DOMAIN u.devices = left /\ \A d \in left : u.devices[d] = Orphaned(x, d, n)
    BY <1>1
  <2> SUFFICES ASSUME NEW d \in left, ~Orphaned(x, d, n).deleted
               PROVE  d \in Live(x) /\ Orphaned(x, d, n) = x.devices[d]
    BY <2>1 DEF Live
  <2>2. ~x.devices[d].deleted /\ Orphaned(x, d, n) = x.devices[d]
    BY OrphanedFacts
  <2> QED BY <2>2 DEF Live
<1>4. x.next.device \in Nat
  BY RowTypes
<1>5. u.next.device = x.next.device
  BY <1>1
<1>6. Spares(x, u, about)
  BY <1>2, <1>3, <1>4, <1>5 DEF Spares
<1> QED BY <1>6 DEF u

LEMMA DeleteDeviceSpares ==
  ASSUME NEW x, Tables(x), NEW d, NEW listed, NEW about
  PROVE  Spares(x, DeleteDevice(x, d, listed), about)
<1> DEFINE y == DeleteValues(x, listed)
           u == DeleteDevice(x, d, listed)
<1>1. IsDb(x)
  BY DEF Tables, IsDb
<1>2. y.nodes = x.nodes /\ y.next = x.next
  BY <1>1, DeleteValuesFields
<1>3. u.devices = Without(x.devices, {d})
  BY <1>1, DeleteDeviceFields
<1>4. u.nodes = y.nodes /\ u.next = y.next
  BY <1>1, DeleteDeviceRest
<1> HIDE DEF u, y
<1>5. \A e \in Live(u) : e \in Live(x) /\ u.devices[e] = x.devices[e]
  BY <1>3 DEF Live, Without, Restrict
<1>6. x.next.device \in Nat
  BY RowTypes
<1>7. Spares(x, u, about)
  BY <1>2, <1>4, <1>5, <1>6 DEF Spares
<1> QED BY <1>7 DEF u

LEMMA InsertDeviceSpares ==
  ASSUME NEW x, Tables(x), NEW n, NEW address, NEW about, n \in about.nodes
  PROVE  Spares(x, InsertDevice(x, n, address), about)
<1> DEFINE u == InsertDevice(x, n, address)
           row == [parent |-> n, address |-> address, deleted |-> FALSE]
<1>1. /\ u.devices = Insert(x.devices, x.next.device, row) /\ u.nodes = x.nodes
      /\ u.next = [x.next EXCEPT !.device = x.next.device + 1]
  BY InsertDeviceFields DEF Tables, IsDb
<1>2. row.parent = n
  OBVIOUS
<1> HIDE DEF u, row
<1>3. u.next.device = x.next.device + 1 /\ x.next.device \in Nat
  BY <1>1 DEF Tables
<1>4. /\ DOMAIN u.devices = DOMAIN x.devices \cup {x.next.device}
      /\ u.devices[x.next.device] = row
      /\ \A d \in DOMAIN x.devices : d # x.next.device => u.devices[d] = x.devices[d]
      /\ x.next.device \notin DOMAIN x.devices
  BY <1>1, RowTypes DEF Insert
<1>5. \A d \in Live(u) :
        \/ d \in Live(x) /\ u.devices[d] = x.devices[d]
        \/ d = x.next.device /\ d \notin Live(x) /\ u.devices[d].parent = n
  BY <1>2, <1>4 DEF Live
<1>6. Spares(x, u, about)
  BY <1>1, <1>3, <1>5 DEF Spares
<1> QED BY <1>6 DEF u

LEMMA UpdateDeviceSpares ==
  ASSUME NEW x, Tables(x), NEW d, NEW n \in Nat, NEW address \in Nat, NEW about,
         n # Null => n \in about.nodes, d \in Live(x) => x.devices[d].parent \in about.nodes
  PROVE  Spares(x, UpdateDevice(x, d, n, address), about)
<1>1. CASE d \notin DOMAIN x.devices
  BY <1>1, SameAddresses DEF UpdateDevice
<1>2. CASE d \in DOMAIN x.devices
  <2> DEFINE u == UpdateDevice(x, d, n, address)
             row == MovedDevice(x.devices[d], n, address)
  <2>1. /\ u.devices = [x.devices EXCEPT ![d] = row] /\ u.nodes = x.nodes /\ u.next = x.next
    BY <1>2, UpdateDeviceFields DEF Tables, IsDb
  <2>2. x.devices[d] \in DeviceRows
    BY <1>2 DEF Tables, IsTable
  <2>3. /\ row.deleted = x.devices[d].deleted
        /\ n # Null => row.parent = n
        /\ n = Null => row.parent = x.devices[d].parent
    BY <2>2, MovedDeviceFacts
  <2> HIDE DEF u, row
  <2>4. /\ DOMAIN u.devices = DOMAIN x.devices /\ u.devices[d] = row
        /\ \A e \in DOMAIN x.devices : e # d => u.devices[e] = x.devices[e]
    BY <1>2, <2>1
  <2>5. Live(u) = Live(x)
    BY <2>3, <2>4 DEF Live
  <2>6. d \in Live(x) => row.parent \in about.nodes
    BY <2>3
  <2>7. \A e \in Live(u) :
          \/ e \in Live(x) /\ u.devices[e] = x.devices[e]
          \/ e = d /\ d \in Live(x) /\ u.devices[e].parent \in about.nodes
    BY <2>4, <2>5, <2>6 DEF Live
  <2>8. x.next.device \in Nat
    BY RowTypes
  <2> QED BY <2>1, <2>7, <2>8 DEF Spares, u
<1> QED BY <1>1, <1>2

LEMMA InsertValueSpares ==
  ASSUME NEW x, Tables(x), NEW d, NEW logging, NEW about
  PROVE  Spares(x, InsertValue(x, d, logging), about)
<1> DEFINE u == InsertValue(x, d, logging)
<1>1. /\ u.nodes = x.nodes /\ u.devices = x.devices
      /\ u.values = Insert(x.values, x.next.value, [device |-> d, logging |-> logging])
      /\ u.next = [x.next EXCEPT !.value = x.next.value + 1]
  <2>1. IsDb(x)
    BY DEF Tables, IsDb
  <2> QED BY <2>1, InsertValueFields
<1> HIDE DEF u
<1>2. u.next.device = x.next.device
  BY <1>1 DEF Tables
<1> QED BY <1>1, <1>2, SameAddresses DEF u

LEMMA UpdateValueSpares ==
  ASSUME NEW x, Tables(x), NEW v, NEW d, NEW logging, NEW about
  PROVE  Spares(x, UpdateValue(x, v, d, logging), about)
<1>1. CASE v \notin DOMAIN x.values
  BY <1>1, SameAddresses DEF UpdateValue
<1>2. CASE v \in DOMAIN x.values
  <2> DEFINE u == UpdateValue(x, v, d, logging)
  <2>1. /\ u.nodes = x.nodes /\ u.devices = x.devices /\ u.next = x.next
        /\ u.values = [x.values EXCEPT ![v] = MovedValue(x.values[v], d, logging)]
    <3>1. IsDb(x)
      BY DEF Tables, IsDb
    <3> QED BY <1>2, <3>1, UpdateValueFields
  <2> HIDE DEF u
  <2> QED BY <2>1, SameAddresses DEF u
<1> QED BY <1>1, <1>2

LEMMA DeleteValueSpares ==
  ASSUME NEW x, Tables(x), NEW v, NEW about
  PROVE  Spares(x, DeleteValue(x, v), about)
<1> DEFINE u == DeleteValues(x, {v})
<1>1. u.nodes = x.nodes /\ u.devices = x.devices /\ u.next = x.next
  BY DeleteValuesFields DEF Tables, IsDb
<1> HIDE DEF u
<1>2. Spares(x, u, about)
  BY <1>1, SameAddresses
<1> QED BY <1>2 DEF u, DeleteValue

LEMMA WriteSpares ==
  ASSUME NEW x, Tables(x), NEW c, IsCommand(c), NEW listed, NEW about, Covers(about, c, x)
  PROVE  Spares(x, Write(x, c, listed), about)
<1> USE DEF IsCommand, Covers
<1>1. CASE c.op = "CreateNode"
  BY <1>1, InsertNodeSpares DEF Write
<1>2. CASE c.op = "UpdateNode"
  BY <1>2, UpdateNodeSpares DEF Write
<1>3. CASE c.op = "DeleteNode"
  BY <1>3, DeleteNodeSpares DEF Write
<1>4. CASE c.op = "CreateDevice"
  BY <1>4, InsertDeviceSpares DEF Write
<1>5. CASE c.op = "UpdateDevice"
  BY <1>5, UpdateDeviceSpares DEF Write
<1>6. CASE c.op = "DeleteDevice"
  BY <1>6, DeleteDeviceSpares DEF Write
<1>7. CASE c.op = "CreateValue"
  BY <1>7, InsertValueSpares DEF Write
<1>8. CASE c.op = "UpdateValue"
  BY <1>8, UpdateValueSpares DEF Write
<1>9. CASE c.op = "DeleteValue"
  BY <1>9, DeleteValueSpares DEF Write
<1> QED BY <1>1, <1>2, <1>3, <1>4, <1>5, <1>6, <1>7, <1>8, <1>9 DEF Operations

\* A write that is about other things takes nothing from a command.
LEMMA SparedCovers ==
  ASSUME NEW x, Tables(x), NEW u, Tables(u), NEW a, NEW b, NEW c, IsCommand(c),
         Spares(x, u, a), ~Meets(a, b), Covers(b, c, x)
  PROVE  Covers(b, c, u)
<1> SUFFICES ASSUME c.op = "UpdateDevice"
             PROVE  /\ c.id < u.next.device
                    /\ c.id \in Live(u) => u.devices[c.id].parent \in b.nodes
  BY DEF Covers
<1>1. /\ c.id < x.next.device
      /\ c.id \in Live(x) => x.devices[c.id].parent \in b.nodes
  BY DEF Covers
<1>2. c.id \in Nat /\ x.next.device \in Nat /\ u.next.device \in Nat /\ x.next.device <= u.next.device
  BY RowTypes DEF IsCommand, Spares
<1>3. ASSUME c.id \in Live(u) PROVE u.devices[c.id].parent \in b.nodes
  <2>1. CASE c.id \in Live(x) /\ u.devices[c.id] = x.devices[c.id]
    BY <1>1, <2>1
  <2>2. CASE /\ c.id \in Live(x) => x.devices[c.id].parent \in a.nodes
             /\ c.id \in Live(x) \/ c.id = x.next.device
    BY <1>1, <1>2, <2>2 DEF Meets
  <2> QED BY <1>3, <2>1, <2>2 DEF Spares
<1> QED BY <1>1, <1>2, <1>3

LEMMA SparedClear ==
  ASSUME NEW x, Tables(x), NEW u, Tables(u), NEW a, NEW b, NEW c, IsCommand(c),
         Spares(x, u, a), ~Meets(a, b), Covers(b, c, x), Clear(c, x)
  PROVE  Clear(c, u)
<1>1. ASSUME c.op = "CreateNode" PROVE NodesWithIp(u, c.set) = {}
  <2>1. c.set \notin a.ips
    BY <1>1 DEF Covers, Meets
  <2>2. NodesWithIp(x, c.set) = {}
    BY <1>1 DEF Clear
  <2> QED BY <2>1, <2>2 DEF Spares, NodesWithIp
<1>2. ASSUME c.op = "UpdateNode", c.set # Null PROVE NodesWithIp(u, c.set) \subseteq {c.id}
  <2>1. c.set \notin a.ips
    BY <1>2 DEF Covers, Meets
  <2>2. NodesWithIp(x, c.set) \subseteq {c.id}
    BY <1>2 DEF Clear
  <2> QED BY <2>1, <2>2 DEF Spares, NodesWithIp
<1>3. ASSUME c.op = "CreateDevice", NEW d \in Live(u)
      PROVE  ~(u.devices[d].parent = c.to /\ u.devices[d].address = c.set)
  <2>1. c.to \notin a.nodes
    BY <1>3 DEF Covers, Meets
  <2>2. d \in Live(x) => ~(x.devices[d].parent = c.to /\ x.devices[d].address = c.set)
    BY <1>3 DEF Clear
  <2> QED BY <1>3, <2>1, <2>2 DEF Spares
<1>4. ASSUME c.op = "UpdateDevice", c.id \in Live(u), NEW d \in Live(u) \ {c.id}
      PROVE  ~(/\ u.devices[d].parent = Coalesce(c.to, u.devices[c.id].parent)
               /\ u.devices[d].address = Coalesce(c.set, u.devices[c.id].address))
  <2>1. c.id \in Live(x) /\ u.devices[c.id] = x.devices[c.id]
    <3>1. c.id \in Live(x) => x.devices[c.id].parent \notin a.nodes
      BY <1>4 DEF Covers, Meets
    <3>2. c.id < x.next.device /\ c.id \in Nat /\ x.next.device \in Nat
      BY <1>4, RowTypes DEF Covers, IsCommand
    <3> QED BY <1>4, <3>1, <3>2 DEF Spares
  <2> DEFINE n == Coalesce(c.to, x.devices[c.id].parent)
             address == Coalesce(c.set, x.devices[c.id].address)
  <2>2. n \notin a.nodes
    BY <1>4, <2>1 DEF Covers, Meets, Coalesce
  <2>3. d \in Live(x) => ~(x.devices[d].parent = n /\ x.devices[d].address = address)
    BY <1>4, <2>1 DEF Clear
  <2> HIDE DEF n, address
  <2>4. ~(u.devices[d].parent = n /\ u.devices[d].address = address)
    BY <1>4, <2>2, <2>3 DEF Spares
  <2> QED BY <2>1, <2>4 DEF n, address
<1> QED BY <1>1, <1>2, <1>3, <1>4 DEF Clear

LEMMA LiveTypes ==
  ASSUME NEW x, Tables(x)
  PROVE  /\ Live(x) \in SUBSET (Nat \ {0})
         /\ \A ip : NodesWithIp(x, ip) \in SUBSET (Nat \ {0})
         /\ \A address, n : SameAddress(x, address, n) \in SUBSET (Nat \ {0})
         /\ \A d \in Live(x) : d \in DOMAIN x.devices /\ x.devices[d].parent \in Nat
  BY RowTypes DEF Live, NodesWithIp, SameAddress, Null

\* The checks of a worker find that nothing stands in its way.
LEMMA AcceptsClear ==
  ASSUME NEW x, Tables(x), Related(x), AddressesDiffer(x), NEW c, IsCommand(c), Accepts(x, c)
  PROVE  Clear(c, x)
<1>1. ASSUME c.op = "CreateNode" PROVE NodesWithIp(x, c.set) = {}
  <2>1. First(NodesWithIp(x, c.set)) = Null
    BY <1>1 DEF Accepts, NodeCanBeCreated, GetByIp
  <2> QED BY <2>1, LiveTypes, FirstFacts
<1>2. ASSUME c.op = "UpdateNode", c.set # Null PROVE NodesWithIp(x, c.set) \subseteq {c.id}
  <2>1. First(NodesWithIp(x, c.set)) \in {Null, c.id}
    BY <1>2 DEF Accepts, NodeCanBeUpdated, GetByIp
  <2>2. CASE NodesWithIp(x, c.set) = {}
    BY <2>2
  <2>3. CASE NodesWithIp(x, c.set) # {}
    <3>1. c.id \in NodesWithIp(x, c.set)
      BY <2>1, <2>3, LiveTypes, FirstFacts
    <3> QED BY <3>1 DEF NodesWithIp, AddressesDiffer
  <2> QED BY <2>2, <2>3
<1>3. ASSUME c.op = "CreateDevice", NEW d \in Live(x)
      PROVE  ~(x.devices[d].parent = c.to /\ x.devices[d].address = c.set)
  <2>1. c.to \in DOMAIN x.nodes /\ SameAddress(x, c.set, c.to) = {}
    BY <1>3 DEF Accepts, DeviceCanBeCreated
  <2>2. d \notin SameAddress(x, c.set, c.to)
    BY <2>1
  <2> QED BY <1>3, <2>1, <2>2 DEF SameAddress, Coalesce
<1>4. ASSUME c.op = "UpdateDevice", c.id \in Live(x), NEW d \in Live(x) \ {c.id}
      PROVE  ~(/\ x.devices[d].parent = Coalesce(c.to, x.devices[c.id].parent)
               /\ x.devices[d].address = Coalesce(c.set, x.devices[c.id].address))
  <2> DEFINE row == x.devices[c.id]
             same == SameAddress(x, c.set, c.to)
  <2> SUFFICES ASSUME x.devices[d].parent = Coalesce(c.to, row.parent),
                      x.devices[d].address = Coalesce(c.set, row.address)
               PROVE  FALSE
    OBVIOUS
  <2>1. ~(x.devices[d].parent = row.parent /\ x.devices[d].address = row.address)
    BY <1>4 DEF AddressesDiffer
  <2>2. c.to # Null \/ c.set # Null
    BY <2>1 DEF Coalesce
  <2>3. First(same) \in {Null, c.id}
    BY <1>4, <2>2 DEF Accepts, DeviceCanBeUpdated
  <2>4. d \in same
    BY <1>4 DEF SameAddress, Coalesce
  <2>5. c.id \in same
    <3> HIDE DEF same
    <3>1. same \in SUBSET (Nat \ {0})
      BY LiveTypes DEF same
    <3> QED BY <2>3, <2>4, <3>1, FirstFacts
  <2>6. /\ row.address = Coalesce(c.set, row.address)
        /\ row.parent = Coalesce(c.to, row.parent)
    BY <2>5 DEF SameAddress, Coalesce
  <2> QED BY <2>1, <2>6
<1> QED BY <1>1, <1>2, <1>3, <1>4 DEF Clear

\* Then it may write.
LEMMA InsertNodeDiffer ==
  ASSUME NEW x, Tables(x), AddressesDiffer(x), NEW ip, NodesWithIp(x, ip) = {}
  PROVE  AddressesDiffer(InsertNode(x, ip))
<1> DEFINE u == InsertNode(x, ip)
<1>1. u.nodes = Insert(x.nodes, x.next.node, ip) /\ u.devices = x.devices
  BY InsertNodeFields DEF Tables, IsDb
<1> HIDE DEF u
<1>2. Live(u) = Live(x)
  BY <1>1 DEF Live
<1>3. \A m, n \in DOMAIN u.nodes : u.nodes[m] = u.nodes[n] => m = n
  BY <1>1 DEF Insert, NodesWithIp, AddressesDiffer
<1> QED BY <1>1, <1>2, <1>3 DEF AddressesDiffer, u

LEMMA UpdateNodeDiffer ==
  ASSUME NEW x, Tables(x), AddressesDiffer(x), NEW n, NEW ip,
         ip # Null => NodesWithIp(x, ip) \subseteq {n}
  PROVE  AddressesDiffer(UpdateNode(x, n, ip))
<1>1. CASE n \notin DOMAIN x.nodes
  BY <1>1 DEF UpdateNode
<1>2. CASE n \in DOMAIN x.nodes
  <2> DEFINE u == UpdateNode(x, n, ip)
  <2>1. u.nodes = [x.nodes EXCEPT ![n] = Coalesce(ip, x.nodes[n])] /\ u.devices = x.devices
    BY <1>2, UpdateNodeFields DEF Tables, IsDb
  <2> HIDE DEF u
  <2>2. Live(u) = Live(x)
    BY <2>1 DEF Live
  <2>3. \A l, m \in DOMAIN u.nodes : u.nodes[l] = u.nodes[m] => l = m
    BY <2>1 DEF Coalesce, NodesWithIp, AddressesDiffer
  <2> QED BY <2>1, <2>2, <2>3 DEF AddressesDiffer, u
<1> QED BY <1>1, <1>2

\* Devices that are in use, each as it was or with an address that is free.
LEMMA DevicesDiffer ==
  ASSUME NEW x, AddressesDiffer(x), NEW u, NEW c,
         \A m \in DOMAIN u.nodes : m \in DOMAIN x.nodes /\ u.nodes[m] = x.nodes[m],
         \A d \in Live(u) : d = c \/ (d \in Live(x) /\ u.devices[d] = x.devices[d]),
         c \in Live(u) =>
           \A d \in Live(x) \ {c} : ~(/\ x.devices[d].parent = u.devices[c].parent
                                      /\ x.devices[d].address = u.devices[c].address)
  PROVE  AddressesDiffer(u)
  BY DEF AddressesDiffer

LEMMA InsertDeviceDiffer ==
  ASSUME NEW x, Tables(x), AddressesDiffer(x), NEW n, NEW address,
         \A d \in Live(x) : ~(x.devices[d].parent = n /\ x.devices[d].address = address)
  PROVE  AddressesDiffer(InsertDevice(x, n, address))
<1> DEFINE u == InsertDevice(x, n, address)
           row == [parent |-> n, address |-> address, deleted |-> FALSE]
<1>1. /\ u.devices = Insert(x.devices, x.next.device, row) /\ u.nodes = x.nodes
      /\ u.next = [x.next EXCEPT !.device = x.next.device + 1]
  BY InsertDeviceFields DEF Tables, IsDb
<1>2. row.parent = n /\ row.address = address
  OBVIOUS
<1> HIDE DEF u, row
<1>3. /\ DOMAIN u.devices = DOMAIN x.devices \cup {x.next.device}
      /\ u.devices[x.next.device] = row
      /\ \A d \in DOMAIN x.devices : d # x.next.device => u.devices[d] = x.devices[d]
  BY <1>1 DEF Insert
<1>4. \A d \in Live(u) : d = x.next.device \/ (d \in Live(x) /\ u.devices[d] = x.devices[d])
  BY <1>3 DEF Live
<1>5. AddressesDiffer(u)
  BY <1>1, <1>2, <1>3, <1>4, DevicesDiffer
<1> QED BY <1>5 DEF u

LEMMA UpdateDeviceDiffer ==
  ASSUME NEW x, Tables(x), AddressesDiffer(x), NEW d, NEW n \in Nat, NEW address \in Nat,
         d \in Live(x) =>
           \A e \in Live(x) \ {d} :
             ~(/\ x.devices[e].parent = Coalesce(n, x.devices[d].parent)
               /\ x.devices[e].address = Coalesce(address, x.devices[d].address))
  PROVE  AddressesDiffer(UpdateDevice(x, d, n, address))
<1>1. CASE d \notin DOMAIN x.devices
  BY <1>1 DEF UpdateDevice
<1>2. CASE d \in DOMAIN x.devices
  <2> DEFINE u == UpdateDevice(x, d, n, address)
             row == MovedDevice(x.devices[d], n, address)
  <2>1. u.devices = [x.devices EXCEPT ![d] = row] /\ u.nodes = x.nodes
    BY <1>2, UpdateDeviceFields DEF Tables, IsDb
  <2>2. x.devices[d] \in DeviceRows
    BY <1>2 DEF Tables, IsTable
  <2>3. /\ row.deleted = x.devices[d].deleted
        /\ row.parent = Coalesce(n, x.devices[d].parent)
        /\ row.address = Coalesce(address, x.devices[d].address)
    BY <2>2, MovedDeviceFacts
  <2> HIDE DEF u, row
  <2>4. /\ DOMAIN u.devices = DOMAIN x.devices /\ u.devices[d] = row
        /\ \A e \in DOMAIN x.devices : e # d => u.devices[e] = x.devices[e]
    BY <1>2, <2>1
  <2>5. Live(u) = Live(x)
    BY <2>3, <2>4 DEF Live
  <2>6. \A e \in Live(u) : e = d \/ (e \in Live(x) /\ u.devices[e] = x.devices[e])
    BY <2>4, <2>5 DEF Live
  <2>7. d \in Live(u) =>
          \A e \in Live(x) \ {d} : ~(/\ x.devices[e].parent = u.devices[d].parent
                                     /\ x.devices[e].address = u.devices[d].address)
    BY <2>3, <2>4, <2>5
  <2>8. \A m \in DOMAIN u.nodes : m \in DOMAIN x.nodes /\ u.nodes[m] = x.nodes[m]
    BY <2>1
  <2>9. AddressesDiffer(u)
    BY <2>6, <2>7, <2>8 DEF AddressesDiffer
  <2> QED BY <2>9 DEF u
<1> QED BY <1>1, <1>2

\* What spares everything keeps addresses different.
LEMMA SparedDiffer ==
  ASSUME NEW x, AddressesDiffer(x), NEW u, Spares(x, u, Untouched)
  PROVE  AddressesDiffer(u)
  BY DEF Spares, Untouched, AddressesDiffer

LEMMA WriteDiffers ==
  ASSUME NEW x, Tables(x), AddressesDiffer(x), NEW c, IsCommand(c), Clear(c, x), NEW listed
  PROVE  AddressesDiffer(Write(x, c, listed))
<1>1. CASE c.op = "CreateNode"
  BY <1>1, InsertNodeDiffer DEF Write, Clear
<1>2. CASE c.op = "UpdateNode"
  BY <1>2, UpdateNodeDiffer DEF Write, Clear
<1>3. CASE c.op \in {"DeleteNode", "DeleteDevice", "CreateValue", "UpdateValue", "DeleteValue"}
  <2>1. Spares(x, Write(x, c, listed), Untouched)
    <3>1. Covers(Untouched, c, x)
      BY <1>3 DEF Covers
    <3> QED BY <3>1, WriteSpares
  <2> QED BY <2>1, SparedDiffer
<1>4. CASE c.op = "CreateDevice"
  BY <1>4, InsertDeviceDiffer DEF Write, Clear
<1>5. CASE c.op = "UpdateDevice"
  <2>1. c.id \in Live(x) =>
          \A e \in Live(x) \ {c.id} :
            ~(/\ x.devices[e].parent = Coalesce(c.to, x.devices[c.id].parent)
              /\ x.devices[e].address = Coalesce(c.set, x.devices[c.id].address))
    BY <1>5 DEF Clear
  <2>2. AddressesDiffer(UpdateDevice(x, c.id, c.to, c.set))
    BY <2>1, UpdateDeviceDiffer DEF IsCommand
  <2> QED BY <1>5, <2>2 DEF Write
<1> QED BY <1>1, <1>2, <1>3, <1>4, <1>5 DEF IsCommand, Operations

-----------------------------------------------------------------------------
(* Commands and their slots.                                                 *)

LEMMA CommandsAre == \A c \in Commands : IsCommand(c)
  BY ConfigCommandsAssumption

LEMMA FreeSlotType == FreeSlot \in SlotType /\ FreeSlot.pc = "free"
  BY DEF FreeSlot, SlotType, NoEvent, Untouched, Null

LEMMA NewSlotType ==
  ASSUME NEW c \in Commands, NEW about \in [nodes : SUBSET Nat, ips : SUBSET Nat]
  PROVE  LET new == NewSlot(c, about)
         IN  /\ new \in SlotType /\ new.cmd = c /\ new.pc = "check" /\ new.touches = about
             /\ new.told = {}
<1> DEFINE n1 == [FreeSlot EXCEPT !.cmd = c]
           n2 == [n1 EXCEPT !.pc = "check"]
           n3 == [n2 EXCEPT !.touches = about]
<1>1. n1 \in SlotType /\ n1.cmd = c /\ n1.told = {}
  BY FreeSlotType DEF SlotType, FreeSlot
<1> HIDE DEF n1
<1>2. n2 \in SlotType /\ n2.cmd = c /\ n2.pc = "check" /\ n2.told = {}
  BY <1>1 DEF SlotType
<1> HIDE DEF n2
<1>3. n3 \in SlotType /\ n3.cmd = c /\ n3.pc = "check" /\ n3.touches = about /\ n3.told = {}
  BY <1>2 DEF SlotType
<1>4. n3 = NewSlot(c, about)
  BY DEF n1, n2, NewSlot
<1> HIDE DEF n3
<1> QED BY <1>3, <1>4

\* What TypeOK says of a slot that is not free.
Proper(x) ==
  /\ x \in SlotType
  /\ x.pc # "free" => x.cmd \in Commands
  /\ x.pc = "read" => x.cmd.op # "DeleteNode"

LEMMA SlotSet ==
  ASSUME TypeOK, NEW s \in Slots, NEW new, Proper(new), slots' = [slots EXCEPT ![s] = new],
         Tables(db'), raced' \in BOOLEAN
  PROVE  /\ TypeOK'
         /\ slots'[s] = new
         /\ \A r \in Slots : r # s => slots'[r] = slots[r]
  BY DEF TypeOK, Proper

\* What the queries for a node find.
LEMMA NodesFound ==
  ASSUME NEW x, Tables(x)
  PROVE  /\ \A ip : GetByIp(x, ip) \in DOMAIN x.nodes \cup {Null}
         /\ \A n : GetNode(x, n) \in DOMAIN x.nodes \cup {Null}
         /\ \A d : NodeOfDevice(x, d) \in DOMAIN x.nodes \cup {Null}
         /\ \A d : GetParent(x, d) \in Nat
<1>1. \A ip : GetByIp(x, ip) \in DOMAIN x.nodes \cup {Null}
  <2> SUFFICES ASSUME NEW ip PROVE First(NodesWithIp(x, ip)) \in DOMAIN x.nodes \cup {Null}
    BY DEF GetByIp
  <2>1. NodesWithIp(x, ip) \in SUBSET (Nat \ {0}) /\ NodesWithIp(x, ip) \subseteq DOMAIN x.nodes
    BY LiveTypes DEF NodesWithIp
  <2> QED BY <2>1, FirstFacts
<1>2. \A n : GetNode(x, n) \in DOMAIN x.nodes \cup {Null}
  BY DEF GetNode
<1>3. \A d : NodeOfDevice(x, d) \in DOMAIN x.nodes \cup {Null}
  BY <1>2 DEF NodeOfDevice
<1>4. \A d : GetParent(x, d) \in Nat
  BY LiveTypes DEF GetParent, Null
<1> QED BY <1>1, <1>2, <1>3, <1>4

LEMMA TouchesType ==
  ASSUME Tables(db), Related(db), NEW c, IsCommand(c)
  PROVE  Touches(c) \in [nodes : SUBSET Nat, ips : SUBSET Nat]
<1> DEFINE node(n) == IF n \in DOMAIN db.nodes THEN {n} ELSE {}
           ip(n) == {db.nodes[m] : m \in node(n)}
           parent(d) == node(NodeOfDevice(db, d))
           home == NodeOfDevice(db, db.values[c.id].device)
<1>1. \A n : node(n) \in SUBSET Nat /\ ip(n) \in SUBSET Nat
  BY RowTypes
<1>2. \A d : parent(d) \in SUBSET Nat
  BY <1>1
<1>3. {c.set} \in SUBSET Nat /\ {c.set} \ {Null} \in SUBSET Nat
  BY DEF IsCommand
<1>4. home \in Nat
  BY NodesFound, RowTypes DEF Null
<1> HIDE DEF node, ip, parent, home
<1>5. CASE c.op = "CreateNode"
  <2>1. Touches(c) = [nodes |-> {}, ips |-> {c.set}]
    BY <1>5 DEF Touches
  <2> QED BY <1>3, <2>1
<1>6. CASE c.op = "UpdateNode"
  <2>1. Touches(c) = [nodes |-> node(c.id), ips |-> ip(c.id) \cup ({c.set} \ {Null})]
    BY <1>6 DEF Touches, node, ip
  <2> QED BY <1>1, <1>3, <2>1
<1>7. CASE c.op = "DeleteNode"
  <2>1. Touches(c) = [nodes |-> node(c.id), ips |-> {}]
    BY <1>7 DEF Touches, node
  <2> QED BY <1>1, <2>1
<1>8. CASE c.op \in {"CreateDevice", "UpdateDevice", "DeleteDevice"}
  <2>1. Touches(c) = [nodes |-> parent(c.id) \cup node(c.to), ips |-> {}]
    BY <1>8 DEF Touches, node, parent
  <2> QED BY <1>1, <1>2, <2>1
<1>9. CASE c.op = "CreateValue"
  <2>1. Touches(c) = [nodes |-> parent(c.to), ips |-> {}]
    BY <1>9 DEF Touches, node, parent
  <2> QED BY <1>2, <2>1
<1>10. CASE c.op \in {"UpdateValue", "DeleteValue"}
  <2>1. Touches(c) = [nodes |-> {home} \cup parent(c.to), ips |-> {}]
    BY <1>10 DEF Touches, node, parent, home
  <2> QED BY <1>2, <1>4, <2>1
<1> QED BY <1>5, <1>6, <1>7, <1>8, <1>9, <1>10 DEF IsCommand, Operations

\* What a command is about when it is given covers what it will write.
LEMMA TouchesCover ==
  ASSUME Tables(db), Related(db), NEW c, IsCommand(c), Admitted(c)
  PROVE  Covers(Touches(c), c, db)
<1>1. CASE c.op = "CreateNode"
  BY <1>1 DEF Covers, Touches
<1>2. CASE c.op = "UpdateNode"
  BY <1>2 DEF Covers, Touches
<1>3. CASE c.op = "CreateDevice"
  <2>1. c.to \in DOMAIN db.nodes
    BY <1>3 DEF Admitted, NodeCreation, NodeUpdate, NodeDeletion, DeviceCreation, DeviceChange,
                ValueCommand
  <2> QED BY <1>3, <2>1 DEF Covers, Touches
<1>4. CASE c.op = "UpdateDevice"
  <2>1. c.id \in DOMAIN db.devices /\ c.to \in DOMAIN db.nodes \cup {Null}
    BY <1>4 DEF Admitted, NodeCreation, NodeUpdate, NodeDeletion, DeviceCreation, DeviceChange,
                ValueCommand
  <2>2. c.id < db.next.device
    BY <2>1, RowTypes
  <2>3. c.id \in Live(db) => db.devices[c.id].parent \in DOMAIN db.nodes
    BY DEF Related, Live
  <2>4. c.id \in Live(db) => NodeOfDevice(db, c.id) = db.devices[c.id].parent
    BY <2>1, <2>3 DEF NodeOfDevice, GetNode
  <2>5. /\ c.to # Null => c.to \in Touches(c).nodes
        /\ c.id \in Live(db) => db.devices[c.id].parent \in Touches(c).nodes
    BY <1>4, <2>1, <2>3, <2>4 DEF Touches
  <2> QED BY <1>4, <2>2, <2>5 DEF Covers
<1>5. CASE c.op \in {"DeleteNode", "DeleteDevice", "CreateValue", "UpdateValue", "DeleteValue"}
  BY <1>5 DEF Covers
<1> QED BY <1>1, <1>2, <1>3, <1>4, <1>5 DEF IsCommand, Operations

\* The nodes a command announces.
LEMMA NodesTold ==
  ASSUME Tables(db), NEW c, IsCommand(c), NEW old, NEW told
  PROVE  /\ c.op # "DeleteNode" => NodeToTell(c, old, told) \in DOMAIN db.nodes \cup {Null}
         /\ SecondToTell(c, old, told) \in DOMAIN db.nodes \cup {Null}
<1>1. c.op # "DeleteNode" => NodeToTell(c, old, told) \in DOMAIN db.nodes \cup {Null}
  BY NodesFound DEF NodeToTell, IsCommand, Operations
<1>2. NewNodeOfValue(c) \in DOMAIN db.nodes \cup {Null}
  BY NodesFound DEF NewNodeOfValue
<1>3. SecondToTell(c, old, told) \in DOMAIN db.nodes \cup {Null}
  BY <1>2, NodesFound DEF SecondToTell
<1> QED BY <1>1, <1>3

LEMMA EventType ==
  ASSUME Tables(db), NEW n \in DOMAIN db.nodes, NEW type \in {"Create", "Update", "Delete"}
  PROVE  ConfigEvent(type, n) \in
           [type : {"none", "Create", "Update", "Delete"}, id : Nat, ip : Nat]
  BY RowTypes DEF ConfigEvent

-----------------------------------------------------------------------------
(* The steps.                                                                *)

LEMMA InitIndInv == Init => IndInv
<1> SUFFICES ASSUME Init PROVE IndInv
  OBVIOUS
<1>1. Tables(db) /\ Related(db) /\ AddressesDiffer(db)
  BY ConfigCommandsAssumption DEF Init
<1>2. slots \in [Slots -> SlotType] /\ \A s \in Slots : slots[s].pc = "free"
  BY FreeSlotType DEF Init
<1>3. TypeOK
  BY <1>1, <1>2 DEF TypeOK, Init
<1>4. Unwritten = {}
  BY <1>2 DEF Unwritten
<1> QED BY <1>1, <1>3, <1>4 DEF IndInv, ClearUnlessRaced, UniqueUnlessRaced

\* Slots that are not about to write are of no account.
LEMMA OtherSlots ==
  ASSUME IndInv, TypeOK', raced' = raced, db'.nodes = db.nodes, db'.devices = db.devices,
         db'.next = db.next, Related(db'),
         \A s \in Unwritten' : s \in Unwritten /\ slots'[s] = slots[s]
  PROVE  IndInv'
<1>1. Live(db') = Live(db) /\ \A ip : NodesWithIp(db', ip) = NodesWithIp(db, ip)
  BY DEF Live, NodesWithIp
<1>2. UniqueUnlessRaced'
  BY <1>1 DEF IndInv, UniqueUnlessRaced, AddressesDiffer
<1>3. ASSUME ~raced, NEW s \in Unwritten'
      PROVE  /\ Covers(slots'[s].touches, slots'[s].cmd, db')
             /\ slots'[s].pc = "write" => Clear(slots'[s].cmd, db')
  <2>1. /\ Covers(slots[s].touches, slots[s].cmd, db)
        /\ slots[s].pc = "write" => Clear(slots[s].cmd, db)
    BY <1>3 DEF IndInv, ClearUnlessRaced
  <2>2. slots'[s] = slots[s]
    BY <1>3
  <2> QED BY <1>1, <2>1, <2>2 DEF Covers, Clear
<1>4. ClearUnlessRaced'
  BY <1>3 DEF IndInv, ClearUnlessRaced
<1> QED BY <1>2, <1>4 DEF IndInv

\* A step of a command that has written, or ends.
LEMMA SlotLeaves ==
  ASSUME IndInv, NEW s \in Slots, NEW new, Proper(new), new.pc \notin {"check", "write"},
         slots' = [slots EXCEPT ![s] = new], db' = db, raced' = raced
  PROVE  IndInv'
<1>1. TypeOK /\ Tables(db') /\ raced' \in BOOLEAN
  BY DEF IndInv, TypeOK
<1>2. TypeOK' /\ slots'[s] = new /\ \A r \in Slots : r # s => slots'[r] = slots[r]
  BY <1>1, SlotSet
<1>3. \A r \in Unwritten' : r \in Unwritten /\ slots'[r] = slots[r]
  BY <1>2 DEF Unwritten
<1>4. Related(db')
  BY DEF IndInv
<1> QED BY <1>2, <1>3, <1>4, OtherSlots

LEMMA FreesSlot ==
  ASSUME IndInv, NEW s \in Slots, Frees(s), db' = db, raced' = raced
  PROVE  IndInv'
<1>1. Proper(FreeSlot)
  BY FreeSlotType DEF Proper
<1> QED BY <1>1, FreeSlotType, SlotLeaves DEF Frees

LEMMA IssueStep ==
  ASSUME IndInv, NEW s \in Slots, NEW c \in Commands, Issue(s, c)
  PROVE  IndInv'
<1> DEFINE mine == Touches(c)
           met == {r \in Running : Meets(slots[r].touches, mine)}
<1>1. /\ slots[s].pc = "free"
      /\ Admitted(c)
      /\ slots' = [slots EXCEPT ![s] = NewSlot(c, mine)]
      /\ raced' = (raced \/ met # {})
      /\ db' = db
  BY DEF Issue
<1>2. TypeOK /\ Tables(db) /\ Related(db) /\ IsCommand(c)
  BY CommandsAre DEF IndInv, TypeOK
<1>3. mine \in [nodes : SUBSET Nat, ips : SUBSET Nat] /\ Covers(mine, c, db)
  BY <1>1, <1>2, TouchesType, TouchesCover
<1> DEFINE new == NewSlot(c, mine)
<1>4. new \in SlotType /\ new.cmd = c /\ new.pc = "check" /\ new.touches = mine
  BY <1>3, NewSlotType
<1>5. Proper(new)
  BY <1>4 DEF Proper
<1> HIDE DEF new
<1>6. slots'[s] = new
  BY <1>1, <1>2 DEF new, TypeOK
<1>7. ASSUME NEW r \in Slots, r # s
      PROVE  /\ slots'[r].cmd = slots[r].cmd /\ slots'[r].pc = slots[r].pc
             /\ slots'[r].touches = slots[r].touches
             /\ slots'[r] \in SlotType
  BY <1>1, <1>2, <1>7 DEF TypeOK
<1>8. TypeOK'
  <2>1. slots' \in [Slots -> SlotType]
    BY <1>1, <1>2, <1>4, <1>6, <1>7 DEF TypeOK
  <2>2. \A r \in Slots : /\ slots'[r].pc # "free" => slots'[r].cmd \in Commands
                         /\ slots'[r].pc = "read" => slots'[r].cmd.op # "DeleteNode"
    BY <1>2, <1>4, <1>6, <1>7 DEF TypeOK
  <2>3. raced' \in BOOLEAN
    BY <1>1, <1>2 DEF TypeOK
  <2> QED BY <1>1, <1>2, <2>1, <2>2, <2>3 DEF TypeOK
<1>9. UniqueUnlessRaced'
  BY <1>1 DEF IndInv, UniqueUnlessRaced
<1>10. \A r \in Unwritten' : r = s \/ (r # s /\ r \in Unwritten)
  BY <1>7 DEF Unwritten
<1>11. ASSUME ~raced' PROVE ~raced /\ \A r \in Unwritten : ~Meets(slots[r].touches, mine)
  BY <1>1, <1>11 DEF Unwritten, Running
<1> HIDE DEF met, mine
<1>12. ASSUME ~raced', NEW q \in Unwritten', NEW r \in Unwritten', q # r
       PROVE  ~Meets(slots'[q].touches, slots'[r].touches)
  <2>1. q \in Slots /\ r \in Slots
    BY DEF Unwritten
  <2>2. CASE q # s /\ r # s
    <3>1. q \in Unwritten /\ r \in Unwritten
      BY <1>10, <2>2
    <3>2. ~Meets(slots[q].touches, slots[r].touches)
      BY <1>11, <1>12, <3>1 DEF IndInv, ClearUnlessRaced
    <3> QED BY <1>7, <2>1, <2>2, <3>2
  <2>3. CASE q = s /\ r # s
    <3>1. ~Meets(slots[r].touches, mine)
      BY <1>10, <1>11, <1>12, <2>3
    <3> QED BY <1>4, <1>6, <1>7, <2>1, <2>3, <3>1 DEF Meets
  <2>4. CASE q # s /\ r = s
    <3>1. ~Meets(slots[q].touches, mine)
      BY <1>10, <1>11, <1>12, <2>4
    <3> QED BY <1>4, <1>6, <1>7, <2>1, <2>4, <3>1 DEF Meets
  <2> QED BY <1>12, <2>2, <2>3, <2>4
<1>13. ASSUME ~raced', NEW r \in Unwritten'
       PROVE  /\ Covers(slots'[r].touches, slots'[r].cmd, db')
              /\ slots'[r].pc = "write" => Clear(slots'[r].cmd, db')
  <2>1. CASE r = s
    BY <1>1, <1>3, <1>4, <1>6, <2>1
  <2>2. CASE r # s
    <3>1. r \in Unwritten /\ r \in Slots
      BY <1>10, <2>2 DEF Unwritten
    <3>2. /\ Covers(slots[r].touches, slots[r].cmd, db)
          /\ slots[r].pc = "write" => Clear(slots[r].cmd, db)
      BY <1>11, <1>13, <3>1 DEF IndInv, ClearUnlessRaced
    <3> QED BY <1>1, <1>7, <2>2, <3>1, <3>2
  <2> QED BY <2>1, <2>2
<1>14. ClearUnlessRaced'
  BY <1>12, <1>13 DEF ClearUnlessRaced
<1> QED BY <1>1, <1>2, <1>8, <1>9, <1>14 DEF IndInv

LEMMA CheckStep ==
  ASSUME IndInv, NEW s \in Slots, Check(s)
  PROVE  IndInv'
<1> DEFINE c == slots[s].cmd
<1>1. slots[s].pc = "check" /\ UNCHANGED <<db, raced>>
  BY DEF Check
<1>2. CASE ~Accepts(db, c)
  BY <1>1, <1>2, FreesSlot DEF Check
<1>3. CASE Accepts(db, c)
  <2> DEFINE old == CASE c.op \in {"UpdateDevice", "DeleteDevice"} -> GetParent(db, c.id)
                      [] c.op \in {"UpdateValue", "DeleteValue"} -> db.values[c.id].device
                      [] OTHER -> Null
             listed == IF c.op = "DeleteDevice" THEN GetValues(db, c.id) ELSE {}
             n1 == [slots[s] EXCEPT !.pc = "write"]
             n2 == [n1 EXCEPT !.old = old]
             new == [n2 EXCEPT !.listed = listed]
  <2>1. TypeOK /\ Tables(db) /\ Related(db) /\ c \in Commands /\ IsCommand(c)
    BY <1>1, CommandsAre DEF IndInv, TypeOK
  <2>2. slots' = [slots EXCEPT ![s] = new]
    <3>1. slots' = [slots EXCEPT ![s].pc = "write", ![s].old = old, ![s].listed = listed]
      BY <1>3 DEF Check
    <3> HIDE DEF old, listed, c
    <3>2. slots[s] \in SlotType /\ slots \in [Slots -> SlotType]
      BY <2>1 DEF TypeOK
    <3> QED BY <3>1, <3>2 DEF SlotType
  <2>3. old \in Nat
    <3>1. CASE c.op \in {"UpdateDevice", "DeleteDevice"}
      BY <2>1, <3>1, NodesFound
    <3>2. CASE c.op \in {"UpdateValue", "DeleteValue"}
      <4>1. c.id \in DOMAIN db.values
        BY <1>3, <3>2 DEF Accepts, ValueCanBeUpdated
      <4> QED BY <2>1, <3>2, <4>1, RowTypes
    <3>3. CASE c.op \notin {"UpdateDevice", "DeleteDevice", "UpdateValue", "DeleteValue"}
      BY <3>3 DEF Null
    <3> QED BY <3>1, <3>2, <3>3
  <2>4. listed \in SUBSET Nat
    BY <2>1, RowTypes DEF GetValues
  <2> HIDE DEF old, listed
  <2>5. n1 \in SlotType /\ n1.pc = "write" /\ n1.cmd = c /\ n1.touches = slots[s].touches
    BY <2>1 DEF TypeOK, SlotType
  <2> HIDE DEF n1
  <2>6. n2 \in SlotType /\ n2.pc = "write" /\ n2.cmd = c /\ n2.touches = slots[s].touches
    BY <2>3, <2>5 DEF SlotType
  <2> HIDE DEF n2
  <2>7. new \in SlotType /\ new.pc = "write" /\ new.cmd = c /\ new.touches = slots[s].touches
    BY <2>4, <2>6 DEF SlotType
  <2> HIDE DEF new
  <2>8. Proper(new)
    BY <2>1, <2>7 DEF Proper
  <2>9. TypeOK' /\ slots'[s] = new /\ \A r \in Slots : r # s => slots'[r] = slots[r]
    <3>1. Tables(db') /\ raced' \in BOOLEAN
      BY <1>1, <2>1 DEF TypeOK
    <3> QED BY <2>1, <2>2, <2>8, <3>1, SlotSet
  <2>10. /\ Unwritten' = Unwritten
         /\ \A r \in Slots : slots'[r].cmd = slots[r].cmd /\ slots'[r].touches = slots[r].touches
    BY <1>1, <2>7, <2>9 DEF Unwritten
  <2>11. ASSUME ~raced PROVE Clear(c, db)
    BY <1>3, <2>1, <2>11, AcceptsClear DEF IndInv, UniqueUnlessRaced
  <2>12. ASSUME ~raced, NEW r \in Unwritten', slots'[r].pc = "write"
         PROVE  Clear(slots'[r].cmd, db')
    <3>1. CASE r = s
      BY <1>1, <2>7, <2>9, <2>11, <2>12, <3>1
    <3>2. CASE r # s
      <4>1. r \in Slots /\ slots'[r] = slots[r]
        BY <2>9, <2>10, <3>2 DEF Unwritten
      <4> QED BY <1>1, <2>10, <2>12, <4>1 DEF IndInv, ClearUnlessRaced
    <3> QED BY <3>1, <3>2
  <2>13. ClearUnlessRaced'
    <3> SUFFICES ASSUME ~raced
                 PROVE  /\ \A q, r \in Unwritten' :
                             q # r => ~Meets(slots'[q].touches, slots'[r].touches)
                        /\ \A r \in Unwritten' : Covers(slots'[r].touches, slots'[r].cmd, db')
      BY <1>1, <2>12 DEF ClearUnlessRaced
    <3>1. Unwritten \subseteq Slots
      BY DEF Unwritten
    <3> QED BY <1>1, <2>10, <3>1 DEF IndInv, ClearUnlessRaced
  <2>14. UniqueUnlessRaced'
    BY <1>1 DEF IndInv, UniqueUnlessRaced
  <2>15. Related(db')
    BY <1>1, <2>1
  <2> QED BY <2>9, <2>13, <2>14, <2>15 DEF IndInv
<1> QED BY <1>2, <1>3

\* What is left of the slot of a command that has written.
LEMMA WrittenSlot ==
  ASSUME IndInv, NEW s \in Slots, WriteRows(s), Keyed(db, slots[s].cmd, slots[s].listed)
  PROVE  \E new : /\ Proper(new) /\ new.pc \in {"free", "read", "send"}
                  /\ slots' = [slots EXCEPT ![s] = new]
<1> DEFINE c == slots[s].cmd
           about == slots[s].touches
           gone == c.op = "DeleteNode" /\ c.id \notin DOMAIN db.nodes
           created == IF c.op = "CreateNode" THEN {db.next.node} ELSE {}
<1>1. slots[s].pc = "write" /\ slots[s] \in SlotType /\ c \in Commands /\ IsCommand(c)
      /\ TypeOK /\ Tables(db)
  BY CommandsAre DEF IndInv, TypeOK, WriteRows
<1>2. CASE gone
  <2>1. slots' = [slots EXCEPT ![s] = FreeSlot]
    BY <1>2 DEF WriteRows
  <2>2. Proper(FreeSlot) /\ FreeSlot.pc = "free"
    BY FreeSlotType DEF Proper
  <2> QED BY <2>1, <2>2
<1>3. CASE c.op = "DeleteNode" /\ ~gone
  <2> DEFINE event == ConfigEvent("Delete", c.id)
             n1 == [slots[s] EXCEPT !.pc = "send"]
             new == [n1 EXCEPT !.event = event]
  <2>1. slots' = [slots EXCEPT ![s] = new]
    <3>1. slots' = [slots EXCEPT ![s] = [@ EXCEPT !.pc = "send", !.event = event]]
      BY <1>3 DEF WriteRows
    <3> QED BY <3>1
  <2>2. event \in [type : {"none", "Create", "Update", "Delete"}, id : Nat, ip : Nat]
    BY <1>1, <1>3, EventType
  <2> HIDE DEF event
  <2>3. n1 \in SlotType /\ n1.pc = "send" /\ n1.cmd = c
    BY <1>1 DEF SlotType
  <2> HIDE DEF n1
  <2>4. new \in SlotType /\ new.pc = "send" /\ new.cmd = c
    BY <2>2, <2>3 DEF SlotType
  <2> HIDE DEF new
  <2>5. Proper(new)
    BY <1>1, <2>4 DEF Proper
  <2> QED BY <2>1, <2>4, <2>5
<1>4. CASE c.op # "DeleteNode"
  <2> DEFINE more == [about EXCEPT !.nodes = about.nodes \cup created]
             n1 == [slots[s] EXCEPT !.pc = "read"]
             new == [n1 EXCEPT !.touches = more]
  <2>1. slots' = [slots EXCEPT ![s] = new]
    <3>1. slots' = [slots EXCEPT ![s] = [@ EXCEPT !.pc = "read", !.touches = more]]
      BY <1>4 DEF WriteRows
    <3> QED BY <3>1
  <2>2. more \in [nodes : SUBSET Nat, ips : SUBSET Nat]
    <3>1. about \in [nodes : SUBSET Nat, ips : SUBSET Nat]
      BY <1>1 DEF SlotType
    <3>2. created \in SUBSET Nat
      BY <1>1, RowTypes
    <3> HIDE DEF about, created
    <3> QED BY <3>1, <3>2
  <2> HIDE DEF more
  <2>3. n1 \in SlotType /\ n1.pc = "read" /\ n1.cmd = c
    BY <1>1 DEF SlotType
  <2> HIDE DEF n1
  <2>4. new \in SlotType /\ new.pc = "read" /\ new.cmd = c
    BY <2>2, <2>3 DEF SlotType
  <2> HIDE DEF new
  <2>5. Proper(new)
    BY <1>1, <1>4, <2>4 DEF Proper
  <2> QED BY <2>1, <2>4, <2>5
<1> QED BY <1>2, <1>3, <1>4

LEMMA WriteStep ==
  ASSUME IndInv, NEW s \in Slots, WriteRows(s)
  PROVE  IndInv'
<1> DEFINE c == slots[s].cmd
           listed == slots[s].listed
<1>1. CASE ~Keyed(db, c, listed)
  BY <1>1, FreesSlot DEF WriteRows
<1>2. CASE Keyed(db, c, listed)
  <2>1. /\ slots[s].pc = "write" /\ c \in Commands /\ IsCommand(c) /\ s \in Unwritten
        /\ TypeOK /\ Tables(db) /\ Related(db)
    BY CommandsAre DEF IndInv, TypeOK, WriteRows, Unwritten
  <2>2. db' = Write(db, c, listed) /\ raced' = raced
    BY <1>2 DEF WriteRows
  <2>3. Tables(db') /\ Related(db')
    BY <1>2, <2>1, <2>2, WriteTables
  <2>4. PICK new : /\ Proper(new) /\ new.pc \in {"free", "read", "send"}
                   /\ slots' = [slots EXCEPT ![s] = new]
    BY <1>2, WrittenSlot
  <2>5. TypeOK' /\ slots'[s] = new /\ \A r \in Slots : r # s => slots'[r] = slots[r]
    <3>1. raced' \in BOOLEAN
      BY <2>1, <2>2 DEF TypeOK
    <3> QED BY <2>1, <2>3, <2>4, <3>1, SlotSet
  <2>6. \A r \in Unwritten' : r # s /\ r \in Unwritten /\ slots'[r] = slots[r]
    BY <2>4, <2>5 DEF Unwritten
  <2> DEFINE about == slots[s].touches
  <2>7. ASSUME ~raced
        PROVE  /\ Clear(c, db) /\ AddressesDiffer(db) /\ Spares(db, db', about)
               /\ \A r \in Unwritten : r # s => ~Meets(about, slots[r].touches)
    <3>1. Clear(c, db) /\ AddressesDiffer(db) /\ Covers(about, c, db)
      BY <2>1, <2>7 DEF IndInv, ClearUnlessRaced, UniqueUnlessRaced
    <3>2. Spares(db, db', about)
      BY <2>1, <2>2, <3>1, WriteSpares
    <3>3. \A r \in Unwritten : r # s => ~Meets(about, slots[r].touches)
      BY <2>1, <2>7 DEF IndInv, ClearUnlessRaced
    <3> QED BY <3>1, <3>2, <3>3
  <2>8. UniqueUnlessRaced'
    <3> SUFFICES ASSUME ~raced PROVE AddressesDiffer(db')
      BY <2>2 DEF UniqueUnlessRaced
    <3> QED BY <2>1, <2>2, <2>7, WriteDiffers
  <2>9. ASSUME ~raced, NEW r \in Unwritten'
        PROVE  /\ Covers(slots'[r].touches, slots'[r].cmd, db')
               /\ slots'[r].pc = "write" => Clear(slots'[r].cmd, db')
    <3> DEFINE rc == slots[r].cmd
               rabout == slots[r].touches
    <3>1. r # s /\ r \in Unwritten /\ slots'[r] = slots[r]
      BY <2>6
    <3>2. IsCommand(rc)
      BY <3>1, CommandsAre DEF IndInv, TypeOK, Unwritten
    <3>3. Covers(rabout, rc, db) /\ (slots[r].pc = "write" => Clear(rc, db))
      BY <2>9, <3>1 DEF IndInv, ClearUnlessRaced
    <3>4. ~Meets(about, rabout) /\ Spares(db, db', about)
      BY <2>7, <2>9, <3>1
    <3> HIDE DEF rc, rabout, about
    <3>5. Covers(rabout, rc, db')
      BY <2>1, <2>3, <3>2, <3>3, <3>4, SparedCovers
    <3>6. slots[r].pc = "write" => Clear(rc, db')
      BY <2>1, <2>3, <3>2, <3>3, <3>4, SparedClear
    <3> QED BY <3>1, <3>5, <3>6 DEF rc, rabout
  <2>10. ASSUME ~raced, NEW q \in Unwritten', NEW r \in Unwritten', q # r
         PROVE  ~Meets(slots'[q].touches, slots'[r].touches)
    BY <2>6, <2>10 DEF IndInv, ClearUnlessRaced
  <2>11. ClearUnlessRaced'
    BY <2>2, <2>9, <2>10 DEF ClearUnlessRaced
  <2> QED BY <2>3, <2>5, <2>8, <2>11 DEF IndInv
<1> QED BY <1>1, <1>2

LEMMA ReadStep ==
  ASSUME IndInv, NEW s \in Slots, ReadNode(s)
  PROVE  IndInv'
<1> DEFINE slot == slots[s]
           n == IF slot.pc = "read" THEN NodeToTell(slot.cmd, slot.old, slot.told)
                ELSE SecondToTell(slot.cmd, slot.old, slot.told)
           type == IF slot.cmd.op = "CreateNode" THEN "Create" ELSE "Update"
           event == ConfigEvent(type, n)
<1>1. /\ slot.pc \in {"read", "read2"} /\ slot \in SlotType
      /\ slot.cmd \in Commands /\ IsCommand(slot.cmd) /\ Tables(db)
      /\ slot.pc = "read" => slot.cmd.op # "DeleteNode"
  BY CommandsAre DEF IndInv, TypeOK, ReadNode
<1>2. db' = db /\ raced' = raced
  BY DEF ReadNode
<1>3. n \in DOMAIN db.nodes \cup {Null}
  BY <1>1, NodesTold
<1>4. CASE n # Null
  <2> DEFINE pc == IF slot.pc = "read" THEN "send" ELSE "send2"
             told == slot.told \cup {n}
             n1 == [slot EXCEPT !.event = event]
             n2 == [n1 EXCEPT !.told = told]
             new == [n2 EXCEPT !.pc = pc]
  <2>1. slots' = [slots EXCEPT ![s] = new]
    <3>1. slots' = [slots EXCEPT ![s] = [@ EXCEPT !.event = event, !.told = told, !.pc = pc]]
      BY <1>4 DEF ReadNode
    <3> QED BY <3>1
  <2>2. event \in [type : {"none", "Create", "Update", "Delete"}, id : Nat, ip : Nat]
    BY <1>1, <1>3, <1>4, EventType
  <2>3. told \in SUBSET Nat
    BY <1>1, <1>3, <1>4, RowTypes DEF SlotType
  <2>4. pc \in {"send", "send2"}
    OBVIOUS
  <2> HIDE DEF event, told, pc
  <2>5. n1 \in SlotType /\ n1.cmd = slot.cmd
    BY <1>1, <2>2 DEF SlotType
  <2> HIDE DEF n1
  <2>6. n2 \in SlotType /\ n2.cmd = slot.cmd
    BY <2>3, <2>5 DEF SlotType
  <2> HIDE DEF n2
  <2>7. new \in SlotType /\ new.cmd = slot.cmd /\ new.pc = pc
    BY <2>4, <2>6 DEF SlotType
  <2> HIDE DEF new
  <2>8. Proper(new) /\ new.pc \notin {"check", "write"}
    BY <1>1, <2>4, <2>7 DEF Proper
  <2> QED BY <1>2, <2>1, <2>8, SlotLeaves
<1>5. CASE n = Null
  <2> DEFINE pc == IF slot.pc = "read" THEN "read2" ELSE "end"
             new == [slot EXCEPT !.pc = pc]
  <2>1. slots' = [slots EXCEPT ![s] = new]
    BY <1>5 DEF ReadNode
  <2>2. pc \in {"read2", "end"}
    OBVIOUS
  <2> HIDE DEF pc
  <2>3. new \in SlotType /\ new.cmd = slot.cmd /\ new.pc = pc
    BY <1>1, <2>2 DEF SlotType
  <2> HIDE DEF new
  <2>4. Proper(new) /\ new.pc \notin {"check", "write"}
    BY <1>1, <2>2, <2>3 DEF Proper
  <2> QED BY <1>2, <2>1, <2>4, SlotLeaves
<1> QED BY <1>4, <1>5

LEMMA SendStep ==
  ASSUME IndInv, NEW s \in Slots, SendEvent(s)
  PROVE  IndInv'
<1> DEFINE pc == IF slots[s].pc = "send" THEN "read2" ELSE "end"
           new == [slots[s] EXCEPT !.pc = pc]
<1>1. slots' = [slots EXCEPT ![s] = new] /\ db' = db /\ raced' = raced
  BY DEF SendEvent
<1>2. slots[s] \in SlotType /\ slots[s].cmd \in Commands
  BY DEF IndInv, TypeOK, SendEvent
<1>3. pc \in {"read2", "end"}
  OBVIOUS
<1> HIDE DEF pc
<1>4. new \in SlotType /\ new.cmd = slots[s].cmd /\ new.pc = pc
  BY <1>2, <1>3 DEF SlotType
<1> HIDE DEF new
<1>5. Proper(new) /\ new.pc \notin {"check", "write"}
  BY <1>2, <1>3, <1>4 DEF Proper
<1> QED BY <1>1, <1>5, SlotLeaves

\* node_master and the tasks of the nodes change neither commands nor tables.
LEMMA ReadersChangeNothing ==
  ASSUME \/ NodesRead \/ MasterTakes \/ MasterLooksUp \/ LookupFails
         \/ \E t \in TaskSlots : TaskHears(t) \/ TaskLoads(t) \/ LoadsPart(t)
  PROVE  UNCHANGED <<db, slots, raced>>
<1>1. NodesRead => UNCHANGED <<db, slots, raced>>
  BY Zenon DEF NodesRead
<1>2. MasterTakes => UNCHANGED <<db, slots, raced>>
  BY DEF MasterTakes
<1>3. MasterLooksUp \/ LookupFails => UNCHANGED <<db, slots, raced>>
  BY DEF MasterLooksUp, LookupFails
<1>4. ASSUME NEW t \in TaskSlots
      PROVE  TaskHears(t) \/ TaskLoads(t) \/ LoadsPart(t) => UNCHANGED <<db, slots, raced>>
  BY DEF TaskHears, TaskLoads, LoadsPart
<1> QED BY <1>1, <1>2, <1>3, <1>4

LEMMA UnchangedStep == IndInv /\ UNCHANGED <<db, slots, raced>> => IndInv'
  BY DEF IndInv, TypeOK, ClearUnlessRaced, UniqueUnlessRaced, Unwritten

LEMMA MeasuredStep ==
  ASSUME IndInv, NEW t \in TaskSlots, NEW v \in DOMAIN db.values, Measured(t, v)
  PROVE  IndInv'
<1>1. /\ db' = [db EXCEPT !.measures = db.measures \cup {v}]
      /\ slots' = slots /\ raced' = raced
  BY DEF Measured
<1>2. IsDb(db) /\ TypeOK /\ Tables(db) /\ Related(db)
  BY DEF IndInv, TypeOK, Tables, IsDb
<1>3. IsDb(db') /\ db'.measures = db.measures \cup {v} /\ db'.values = db.values
      /\ db'.nodes = db.nodes /\ db'.devices = db.devices /\ db'.next = db.next
  <2>1. IsDb(db')
    BY <1>1, <1>2, FieldsSet
  <2> QED BY <1>1, <1>2, <2>1 DEF IsDb
<1>4. Tables(db')
  BY <1>2, <1>3 DEF Tables, IsDb
<1>5. Related(db')
  BY <1>2, <1>3 DEF Related, Live
<1>6. TypeOK'
  BY <1>1, <1>2, <1>4 DEF TypeOK
<1>7. \A s \in Unwritten' : s \in Unwritten /\ slots'[s] = slots[s]
  BY <1>1 DEF Unwritten
<1> QED BY <1>1, <1>3, <1>5, <1>6, <1>7, OtherSlots

LEMMA StepIndInv == IndInv /\ [Next]_vars => IndInv'
<1> SUFFICES ASSUME IndInv, [Next]_vars PROVE IndInv'
  OBVIOUS
<1>1. ASSUME NEW s \in Slots, NEW c \in Commands, Issue(s, c) PROVE IndInv'
  BY <1>1, IssueStep
<1>2. ASSUME NEW s \in Slots, CommandStep(s) PROVE IndInv'
  <2>1. CASE Check(s)
    BY <2>1, CheckStep
  <2>2. CASE WriteRows(s)
    BY <2>2, WriteStep
  <2>3. CASE ReadNode(s)
    BY <2>3, ReadStep
  <2>4. CASE SendEvent(s)
    BY <2>4, SendStep
  <2>5. CASE Finish(s)
    BY <2>5, FreesSlot DEF Finish
  <2>6. CASE Cut(s)
    BY <2>6, FreesSlot DEF Cut
  <2> QED BY <1>2, <2>1, <2>2, <2>3, <2>4, <2>5, <2>6 DEF CommandStep
<1>3. CASE \/ NodesRead \/ MasterTakes \/ MasterLooksUp \/ LookupFails
           \/ \E t \in TaskSlots : TaskHears(t) \/ TaskLoads(t) \/ LoadsPart(t)
  BY <1>3, ReadersChangeNothing, UnchangedStep
<1>4. ASSUME NEW t \in TaskSlots, NEW v \in DOMAIN db.values, Measured(t, v) PROVE IndInv'
  BY <1>4, MeasuredStep
<1>5. CASE UNCHANGED vars
  BY <1>5, UnchangedStep DEF vars
<1>6. CASE Next
  BY <1>1, <1>2, <1>3, <1>4, <1>6 DEF Next
<1> QED BY <1>5, <1>6

(***************************************************************************)
(* For any tables at the start, any commands and any number of them at     *)
(* once: every row has its type and refers to rows that are there; and as  *)
(* long as no two commands about the same ran at once, a worker that is    *)
(* about to write has its nodes and addresses for itself and still finds   *)
(* them as its checks did, though other workers wrote between its checks   *)
(* and its write (node_worker.rs:256-272, device_worker.rs:326-367).       *)
(***************************************************************************)
THEOREM Invariance == Spec => []IndInv
  BY InitIndInv, StepIndInv, PTL DEF Spec

(***************************************************************************)
(* The ids of new rows are new; every value has its device, every device   *)
(* in use its node and every measure its value, whatever commands run at   *)
(* once and are cut: what a write refers to was checked some awaits before,*)
(* and it is the keys of the schema (init_database.rs:203-242) that refuse *)
(* a write whose row has gone meanwhile.                                   *)
(***************************************************************************)
THEOREM ForeignKeysHold == Spec => [](Tables(db) /\ Related(db))
<1>1. IndInv => Tables(db) /\ Related(db)
  BY DEF IndInv, TypeOK
<1> QED BY <1>1, Invariance, PTL

(***************************************************************************)
(* No two nodes have one address and no two devices in use of one node     *)
(* have one, as long as no two commands about the same nodes or addresses  *)
(* ran at once: the queries of the workers (node_worker.rs:266, 336,       *)
(* device_worker.rs:363, 462) are all that keeps them apart, and they are  *)
(* answered before the write.                                              *)
(***************************************************************************)
THEOREM UniqueUnlessRacedHolds == Spec => []UniqueUnlessRaced
<1>1. IndInv => UniqueUnlessRaced
  BY DEF IndInv
<1> QED BY <1>1, Invariance, PTL

-----------------------------------------------------------------------------
(* What deletion keeps.                                                      *)

\* Values that a write may take away.
Drops(x, c, listed, v) ==
  \/ c.op = "DeleteValue" /\ c.id = v
  \/ c.op = "DeleteDevice" /\ v \in listed
  \/ x.values[v].logging = Off /\ v \notin x.measures

\* The devices of a node that stay are those that log.
LEMMA DeleteNodeDrops ==
  ASSUME NEW x, Tables(x), NEW n, NodeDeletable(x, n), NEW v \in DOMAIN x.values,
         v \notin DOMAIN DeleteNode(x, n).values
  PROVE  x.values[v].logging = Off /\ v \notin x.measures
<1>1. DeleteNode(x, n).values = Without(x.values, DroppedValues(x, n))
  BY DeleteNodeFields DEF Tables, IsDb
<1>2. v \in DroppedValues(x, n)
  BY <1>1 DEF Without, Restrict
<1>3. PICK d \in Dropped(x, n) : v \in GetValues(x, d)
  BY <1>2 DEF DroppedValues
<1>4. ~Logs(x, d)
  BY <1>3 DEF Dropped, Marked, GetByNode, Live
<1>5. x.values[v].logging \in {On, Off}
  BY DEF Tables, IsTable, ValueRows
<1> QED BY <1>2, <1>3, <1>4, <1>5 DEF Logs, NodeDeletable

LEMMA WriteDrops ==
  ASSUME NEW x, Tables(x), NEW c, IsCommand(c), NEW listed, Keyed(x, c, listed),
         NEW v \in DOMAIN x.values, v \notin DOMAIN Write(x, c, listed).values
  PROVE  Drops(x, c, listed, v)
<1>0. IsDb(x)
  BY DEF Tables, IsDb
<1>1. CASE c.op = "CreateNode"
  <2>1. InsertNode(x, c.set).values = x.values
    BY <1>0 DEF InsertNode, IsDb
  <2> QED BY <1>1, <2>1 DEF Write
<1>2. CASE c.op = "UpdateNode"
  <2>1. UpdateNode(x, c.id, c.set).values = x.values
    <3>1. CASE c.id \in DOMAIN x.nodes
      BY <1>0, <3>1 DEF UpdateNode, IsDb
    <3>2. CASE c.id \notin DOMAIN x.nodes
      BY <3>2 DEF UpdateNode
    <3> QED BY <3>1, <3>2
  <2> QED BY <1>2, <2>1 DEF Write
<1>3. CASE c.op = "DeleteNode"
  <2>1. NodeDeletable(x, c.id) /\ v \notin DOMAIN DeleteNode(x, c.id).values
    BY <1>3 DEF Keyed, Write
  <2> QED BY <2>1, DeleteNodeDrops DEF Drops
<1>4. CASE c.op = "CreateDevice"
  <2>1. InsertDevice(x, c.to, c.set).values = x.values
    BY <1>0 DEF InsertDevice, IsDb
  <2> QED BY <1>4, <2>1 DEF Write
<1>5. CASE c.op = "UpdateDevice"
  <2>1. UpdateDevice(x, c.id, c.to, c.set).values = x.values
    <3>1. CASE c.id \in DOMAIN x.devices
      BY <1>0, <3>1 DEF UpdateDevice, IsDb
    <3>2. CASE c.id \notin DOMAIN x.devices
      BY <3>2 DEF UpdateDevice
    <3> QED BY <3>1, <3>2
  <2> QED BY <1>5, <2>1 DEF Write
<1>6. CASE c.op = "DeleteDevice"
  <2>1. DeleteDevice(x, c.id, listed).values = DeleteValues(x, listed).values
    BY <1>0, DeleteDeviceRest
  <2>2. DeleteValues(x, listed).values = Without(x.values, listed)
    BY <1>0, DeleteValuesFields
  <2>3. Write(x, c, listed) = DeleteDevice(x, c.id, listed)
    BY <1>6 DEF Write
  <2>4. v \in listed
    BY <2>1, <2>2, <2>3 DEF Without, Restrict
  <2> QED BY <1>6, <2>4 DEF Drops
<1>7. CASE c.op = "CreateValue"
  <2>1. DOMAIN x.values \subseteq DOMAIN InsertValue(x, c.to, c.set).values
    <3>1. InsertValue(x, c.to, c.set).values
            = Insert(x.values, x.next.value, [device |-> c.to, logging |-> c.set])
      BY <1>0 DEF InsertValue, IsDb
    <3> QED BY <3>1 DEF Insert
  <2> QED BY <1>7, <2>1 DEF Write
<1>8. CASE c.op = "UpdateValue"
  <2>1. DOMAIN UpdateValue(x, c.id, c.to, c.set).values = DOMAIN x.values
    <3>1. CASE c.id \in DOMAIN x.values
      <4>1. UpdateValue(x, c.id, c.to, c.set).values
              = [x.values EXCEPT ![c.id] = MovedValue(x.values[c.id], c.to, c.set)]
        BY <1>0, <3>1, UpdateValueFields
      <4> QED BY <4>1
    <3>2. CASE c.id \notin DOMAIN x.values
      BY <3>2 DEF UpdateValue
    <3> QED BY <3>1, <3>2
  <2> QED BY <1>8, <2>1 DEF Write
<1>9. CASE c.op = "DeleteValue"
  <2>1. DeleteValue(x, c.id).values = Without(x.values, {c.id})
    BY <1>0, DeleteValuesFields DEF DeleteValue
  <2>2. v = c.id
    BY <1>9, <2>1 DEF Write, Without, Restrict
  <2> QED BY <1>9, <2>2 DEF Drops
<1> QED BY <1>1, <1>2, <1>3, <1>4, <1>5, <1>6, <1>7, <1>8, <1>9 DEF IsCommand, Operations

\* Only the write of a command takes values away, and its slot shows it.
LEMMA CommandKeeps ==
  ASSUME IndInv, NEW s \in Slots, WriteRows(s),
         NEW v \in DOMAIN db.values, v \notin DOMAIN db'.values
  PROVE  slots'[s] # slots[s] /\ Drops(db, slots[s].cmd, slots[s].listed, v)
<1>1. slots[s].pc = "write" /\ IsCommand(slots[s].cmd) /\ slots \in [Slots -> SlotType]
      /\ Tables(db)
  BY CommandsAre DEF IndInv, TypeOK, WriteRows
<1>2. Keyed(db, slots[s].cmd, slots[s].listed)
      /\ db' = Write(db, slots[s].cmd, slots[s].listed)
  BY DEF WriteRows
<1>3. slots'[s] # slots[s]
  <2>1. PICK new : /\ new.pc \in {"free", "read", "send"}
                   /\ slots' = [slots EXCEPT ![s] = new]
    BY <1>2, WrittenSlot
  <2> QED BY <1>1, <2>1
<1>4. Drops(db, slots[s].cmd, slots[s].listed, v)
  BY <1>1, <1>2, WriteDrops
<1> QED BY <1>3, <1>4

(***************************************************************************)
(* A value goes only with a command about it or about its device, or, with *)
(* its node, when it does not log and has no measures: delete_node marks   *)
(* the devices that log before it deletes the others and their values      *)
(* (node_worker.rs:174-211), and what no longer logs but has measures is   *)
(* kept by the key of measures, which refuses the whole transaction.       *)
(***************************************************************************)
THEOREM HistoryKeptHolds == Spec => HistoryKept
<1> DEFINE Keeps(v) ==
      \/ v \in DOMAIN db'.values
      \/ \E s \in Slots : /\ slots'[s] # slots[s]
                         /\ \/ slots[s].cmd.op = "DeleteValue" /\ slots[s].cmd.id = v
                            \/ slots[s].cmd.op = "DeleteDevice" /\ v \in slots[s].listed
      \/ db.values[v].logging = Off /\ v \notin db.measures
<1>1. ASSUME IndInv, [Next]_vars, NEW v \in DOMAIN db.values PROVE Keeps(v)
  <2>1. ASSUME db'.values = db.values PROVE Keeps(v)
    BY <2>1
  <2>2. ASSUME NEW s \in Slots, NEW c \in Commands, Issue(s, c) PROVE Keeps(v)
    BY <2>1, <2>2 DEF Issue
  <2>3. ASSUME NEW s \in Slots, CommandStep(s) PROVE Keeps(v)
    <3>1. CASE WriteRows(s)
      BY <1>1, <3>1, CommandKeeps DEF Drops
    <3>2. CASE Check(s) \/ ReadNode(s) \/ SendEvent(s) \/ Finish(s) \/ Cut(s)
      BY <2>1, <3>2 DEF Check, ReadNode, SendEvent, Finish, Cut
    <3> QED BY <2>3, <3>1, <3>2 DEF CommandStep
  <2>4. CASE \/ NodesRead \/ MasterTakes \/ MasterLooksUp \/ LookupFails
             \/ \E t \in TaskSlots : TaskHears(t) \/ TaskLoads(t) \/ LoadsPart(t)
    BY <2>1, <2>4, ReadersChangeNothing
  <2>5. ASSUME NEW t \in TaskSlots, NEW u \in DOMAIN db.values, Measured(t, u) PROVE Keeps(v)
    <3>1. db'.values = db.values
      BY <1>1, <2>5 DEF Measured, IndInv, TypeOK, Tables
    <3> QED BY <2>1, <3>1
  <2>6. CASE UNCHANGED vars
    BY <2>1, <2>6 DEF vars
  <2>7. CASE Next
    BY <2>2, <2>3, <2>4, <2>5, <2>7 DEF Next
  <2> QED BY <1>1, <2>6, <2>7
<1>2. IndInv /\ [Next]_vars => [\A v \in DOMAIN db.values : Keeps(v)]_vars
  BY <1>1
<1> QED BY <1>2, Invariance, PTL DEF Spec, HistoryKept

-----------------------------------------------------------------------------
(* What a write leaves as it is for the tasks of other nodes.                *)

\* The node whose task reads a value.
Home(x, v) == NodeOfDevice(x, x.values[v].device)

\* A write changes the rows of the nodes A and of what belongs to them only.
Within(x, u, A) ==
  /\ \A n \in (DOMAIN x.nodes \cup DOMAIN u.nodes) \ A :
       n \in DOMAIN x.nodes /\ n \in DOMAIN u.nodes /\ u.nodes[n] = x.nodes[n]
  /\ \A d \in DOMAIN x.devices :
       x.devices[d].parent \notin A \ {Null} => d \in DOMAIN u.devices /\ u.devices[d] = x.devices[d]
  /\ \A d \in DOMAIN u.devices :
       \/ d \in DOMAIN x.devices /\ u.devices[d] = x.devices[d]
       \/ /\ u.devices[d].parent \in A \cup {Null}
          /\ d \in DOMAIN x.devices \/ x.next.device <= d
  /\ \A v \in DOMAIN x.values :
       Home(x, v) \notin A => v \in DOMAIN u.values /\ u.values[v] = x.values[v]
  /\ \A v \in DOMAIN u.values :
       \/ v \in DOMAIN x.values /\ u.values[v] = x.values[v]
       \/ Home(u, v) \in A \cup {Null}
  /\ x.next.node <= u.next.node /\ x.next.device <= u.next.device

LEMMA InsertNodeWithin ==
  ASSUME NEW x, Tables(x), NEW ip, NEW A, x.next.node \in A
  PROVE  Within(x, InsertNode(x, ip), A)
<1> DEFINE u == InsertNode(x, ip)
<1>1. /\ u.nodes = Insert(x.nodes, x.next.node, ip) /\ u.devices = x.devices /\ u.values = x.values
      /\ u.next = [x.next EXCEPT !.node = x.next.node + 1]
  BY InsertNodeFields DEF Tables, IsDb
<1> HIDE DEF u
<1>2. /\ u.next.device = x.next.device /\ x.next.device \in Nat
      /\ u.next.node = x.next.node + 1 /\ x.next.node \in Nat
  BY <1>1 DEF Tables
<1>3. \A n \in (DOMAIN x.nodes \cup DOMAIN u.nodes) \ A :
        n \in DOMAIN x.nodes /\ n \in DOMAIN u.nodes /\ u.nodes[n] = x.nodes[n]
  BY <1>1 DEF Insert
<1>4. Within(x, u, A)
  BY <1>1, <1>2, <1>3 DEF Within
<1> QED BY <1>4 DEF u

LEMMA UpdateNodeWithin ==
  ASSUME NEW x, Tables(x), NEW n, NEW ip, NEW A, n \in A
  PROVE  Within(x, UpdateNode(x, n, ip), A)
<1> DEFINE u == UpdateNode(x, n, ip)
<1>1. x.next.device \in Nat /\ x.next.node \in Nat
  BY DEF Tables
<1>2. CASE n \notin DOMAIN x.nodes
  BY <1>1, <1>2 DEF Within, UpdateNode
<1>3. CASE n \in DOMAIN x.nodes
  <2>1. /\ u.nodes = [x.nodes EXCEPT ![n] = Coalesce(ip, x.nodes[n])]
        /\ u.devices = x.devices /\ u.values = x.values /\ u.next = x.next
    BY <1>3, UpdateNodeFields DEF Tables, IsDb
  <2> HIDE DEF u
  <2>2. Within(x, u, A)
    BY <1>1, <1>3, <2>1 DEF Within
  <2> QED BY <2>2 DEF u
<1> QED BY <1>2, <1>3

LEMMA DeleteNodeWithin ==
  ASSUME NEW x, Tables(x), NEW n \in DOMAIN x.nodes, NEW A, n \in A
  PROVE  Within(x, DeleteNode(x, n), A)
<1> DEFINE u == DeleteNode(x, n)
<1>0. IsDb(x)
  BY DEF Tables, IsDb
<1>1. /\ u.nodes = Without(x.nodes, {n})
      /\ u.devices = [d \in DOMAIN x.devices \ Dropped(x, n) |-> Orphaned(x, d, n)]
      /\ u.values = Without(x.values, DroppedValues(x, n))
      /\ u.next = x.next
  BY <1>0, DeleteNodeFields
<1>2. x.next.device \in Nat /\ x.next.node \in Nat /\ n # Null /\ n \in Nat
  BY RowTypes DEF Tables
<1> HIDE DEF u
<1>3. \A m \in (DOMAIN x.nodes \cup DOMAIN u.nodes) \ A :
        m \in DOMAIN x.nodes /\ m \in DOMAIN u.nodes /\ u.nodes[m] = x.nodes[m]
  BY <1>1 DEF Without, Restrict
<1>4. \A d \in DOMAIN x.devices :
        x.devices[d].parent # n => d \in DOMAIN u.devices /\ u.devices[d] = x.devices[d]
  BY <1>1 DEF Dropped, GetByNode, Orphaned
<1>5. \A d \in DOMAIN u.devices :
        d \in DOMAIN x.devices /\ (u.devices[d] = x.devices[d] \/ u.devices[d].parent = Null)
  BY <1>1 DEF Orphaned
<1>6. \A v \in DOMAIN u.values : v \in DOMAIN x.values /\ u.values[v] = x.values[v]
  BY <1>1 DEF Without, Restrict
<1>7. ASSUME NEW v \in DOMAIN x.values, Home(x, v) # n
      PROVE  v \in DOMAIN u.values
  <2>1. ASSUME v \in DroppedValues(x, n) PROVE FALSE
    <3>1. PICK d \in Dropped(x, n) : v \in GetValues(x, d)
      BY <2>1 DEF DroppedValues
    <3>2. d \in DOMAIN x.devices /\ x.devices[d].parent = n /\ x.values[v].device = d
      BY <3>1 DEF Dropped, GetByNode, Live, GetValues
    <3> QED BY <1>7, <3>2 DEF Home, NodeOfDevice, GetNode
  <2> QED BY <1>1, <2>1 DEF Without, Restrict
<1>8. n \in A \ {Null} /\ u.next = x.next
  BY <1>1, <1>2
<1>9. \A d \in DOMAIN x.devices :
        x.devices[d].parent \notin A \ {Null} => d \in DOMAIN u.devices /\ u.devices[d] = x.devices[d]
  BY <1>4, <1>8
<1>10. \A v \in DOMAIN x.values :
         Home(x, v) \notin A => v \in DOMAIN u.values /\ u.values[v] = x.values[v]
  BY <1>6, <1>7
<1>11. Within(x, u, A)
  BY <1>2, <1>3, <1>5, <1>6, <1>8, <1>9, <1>10 DEF Within
<1> QED BY <1>11 DEF u

LEMMA InsertDeviceWithin ==
  ASSUME NEW x, Tables(x), NEW n, NEW address, NEW A, n \in A
  PROVE  Within(x, InsertDevice(x, n, address), A)
<1> DEFINE u == InsertDevice(x, n, address)
           row == [parent |-> n, address |-> address, deleted |-> FALSE]
<1>1. /\ u.devices = Insert(x.devices, x.next.device, row) /\ u.nodes = x.nodes
      /\ u.values = x.values /\ u.next = [x.next EXCEPT !.device = x.next.device + 1]
  BY InsertDeviceFields DEF Tables, IsDb
<1>2. row.parent = n
  OBVIOUS
<1> HIDE DEF u, row
<1>3. /\ u.next.device = x.next.device + 1 /\ x.next.device \in Nat
      /\ u.next.node = x.next.node /\ x.next.node \in Nat
  BY <1>1 DEF Tables
<1>4. /\ DOMAIN u.devices = DOMAIN x.devices \cup {x.next.device}
      /\ u.devices[x.next.device] = row
      /\ \A d \in DOMAIN x.devices : d # x.next.device /\ u.devices[d] = x.devices[d]
  BY <1>1, RowTypes DEF Insert
<1>5. Within(x, u, A)
  BY <1>1, <1>2, <1>3, <1>4 DEF Within
<1> QED BY <1>5 DEF u

LEMMA UpdateDeviceWithin ==
  ASSUME NEW x, Tables(x), NEW d \in DOMAIN x.devices, NEW n, NEW address, NEW A,
         x.devices[d].parent \in A \ {Null}, n # Null => n \in A
  PROVE  Within(x, UpdateDevice(x, d, n, address), A)
<1> DEFINE u == UpdateDevice(x, d, n, address)
           row == MovedDevice(x.devices[d], n, address)
<1>1. /\ u.devices = [x.devices EXCEPT ![d] = row] /\ u.nodes = x.nodes /\ u.next = x.next
      /\ u.values = x.values
  BY UpdateDeviceFields DEF Tables, IsDb
<1>2. row.parent \in A
  BY DEF MovedDevice, Coalesce
<1> HIDE DEF u, row
<1>3. /\ DOMAIN u.devices = DOMAIN x.devices /\ u.devices[d] = row
      /\ \A e \in DOMAIN x.devices : e # d => u.devices[e] = x.devices[e]
  BY <1>1
<1>4. x.next.device \in Nat /\ x.next.node \in Nat
  BY DEF Tables
<1>5. Within(x, u, A)
  BY <1>1, <1>2, <1>3, <1>4 DEF Within
<1> QED BY <1>5 DEF u

LEMMA DeleteValuesWithin ==
  ASSUME NEW x, Tables(x), NEW vs, NEW A, \A v \in vs \cap DOMAIN x.values : Home(x, v) \in A
  PROVE  Within(x, DeleteValues(x, vs), A)
<1> DEFINE u == DeleteValues(x, vs)
<1>1. u.nodes = x.nodes /\ u.devices = x.devices /\ u.next = x.next /\ u.values = Without(x.values, vs)
  BY DeleteValuesFields DEF Tables, IsDb
<1>2. x.next.device \in Nat /\ x.next.node \in Nat
  BY DEF Tables
<1> HIDE DEF u
<1>3. \A v \in DOMAIN u.values : v \in DOMAIN x.values /\ u.values[v] = x.values[v]
  BY <1>1 DEF Without, Restrict
<1>4. \A v \in DOMAIN x.values : v \notin vs => v \in DOMAIN u.values
  BY <1>1 DEF Without, Restrict
<1>5. Within(x, u, A)
  BY <1>1, <1>2, <1>3, <1>4 DEF Within
<1> QED BY <1>5 DEF u

LEMMA DeleteDeviceWithin ==
  ASSUME NEW x, Tables(x), NEW d \in DOMAIN x.devices, NEW A,
         x.devices[d].parent \in A \ {Null}, x.devices[d].parent \in DOMAIN x.nodes
  PROVE  Within(x, DeleteDevice(x, d, GetValues(x, d)), A)
<1> DEFINE vs == GetValues(x, d)
           y == DeleteValues(x, vs)
           u == DeleteDevice(x, d, vs)
<1>1. IsDb(x)
  BY DEF Tables, IsDb
<1>2. y.nodes = x.nodes /\ y.next = x.next /\ y.values = Without(x.values, vs)
  BY <1>1, DeleteValuesFields
<1>3. u.devices = Without(x.devices, {d})
  BY <1>1, DeleteDeviceFields
<1>4. u.nodes = y.nodes /\ u.next = y.next /\ u.values = y.values
  BY <1>1, DeleteDeviceRest
<1> HIDE DEF u, y
<1>5. \A e \in DOMAIN u.devices : e \in DOMAIN x.devices /\ u.devices[e] = x.devices[e]
  BY <1>3 DEF Without, Restrict
<1>6. \A e \in DOMAIN x.devices : e # d => e \in DOMAIN u.devices
  BY <1>3 DEF Without, Restrict
<1>7. \A v \in DOMAIN u.values : v \in DOMAIN x.values /\ u.values[v] = x.values[v]
  BY <1>2, <1>4 DEF Without, Restrict
<1>8. \A v \in DOMAIN x.values : Home(x, v) \notin A => v \in DOMAIN u.values
  BY <1>2, <1>4 DEF Without, Restrict, Home, NodeOfDevice, GetNode, GetValues
<1>9. x.next.device \in Nat /\ x.next.node \in Nat
  BY DEF Tables
<1>10. Within(x, u, A)
  BY <1>2, <1>4, <1>5, <1>6, <1>7, <1>8, <1>9 DEF Within
<1> QED BY <1>10 DEF u, vs

LEMMA InsertValueWithin ==
  ASSUME NEW x, Tables(x), NEW d, NEW logging, NEW A, NodeOfDevice(x, d) \in A \cup {Null}
  PROVE  Within(x, InsertValue(x, d, logging), A)
<1> DEFINE u == InsertValue(x, d, logging)
           row == [device |-> d, logging |-> logging]
<1>1. IsDb(x)
  BY DEF Tables, IsDb
<1>2. /\ u.nodes = x.nodes /\ u.devices = x.devices
      /\ u.values = Insert(x.values, x.next.value, row)
      /\ u.next = [x.next EXCEPT !.value = x.next.value + 1]
  BY <1>1, InsertValueFields
<1>3. row.device = d
  OBVIOUS
<1> HIDE DEF u, row
<1>4. /\ u.next.device = x.next.device /\ x.next.device \in Nat
      /\ u.next.node = x.next.node /\ x.next.node \in Nat
      /\ x.next.value \notin DOMAIN x.values
  BY <1>2 DEF Tables, IsTable
<1>5. /\ DOMAIN u.values = DOMAIN x.values \cup {x.next.value}
      /\ u.values[x.next.value] = row
      /\ \A v \in DOMAIN x.values : v # x.next.value /\ u.values[v] = x.values[v]
  BY <1>2, <1>4 DEF Insert
<1>6. NodeOfDevice(u, d) = NodeOfDevice(x, d)
  BY <1>2 DEF NodeOfDevice, GetNode
<1>7. \A v \in DOMAIN u.values :
        \/ v \in DOMAIN x.values /\ u.values[v] = x.values[v]
        \/ Home(u, v) \in A \cup {Null}
  BY <1>3, <1>5, <1>6 DEF Home
<1>8. Within(x, u, A)
  BY <1>2, <1>4, <1>5, <1>7 DEF Within
<1> QED BY <1>8 DEF u

LEMMA UpdateValueWithin ==
  ASSUME NEW x, Tables(x), NEW v \in DOMAIN x.values, NEW d, NEW logging, NEW A,
         Home(x, v) \in A, d # Null => NodeOfDevice(x, d) \in A \cup {Null}
  PROVE  Within(x, UpdateValue(x, v, d, logging), A)
<1> DEFINE u == UpdateValue(x, v, d, logging)
           row == MovedValue(x.values[v], d, logging)
<1>1. IsDb(x)
  BY DEF Tables, IsDb
<1>2. /\ u.nodes = x.nodes /\ u.devices = x.devices /\ u.next = x.next
      /\ u.values = [x.values EXCEPT ![v] = row]
  BY <1>1, UpdateValueFields
<1>3. NodeOfDevice(x, row.device) \in A \cup {Null}
  BY DEF MovedValue, Coalesce, Home
<1> HIDE DEF u, row
<1>4. x.next.device \in Nat /\ x.next.node \in Nat
  BY DEF Tables
<1>5. /\ DOMAIN u.values = DOMAIN x.values /\ u.values[v] = row
      /\ \A w \in DOMAIN x.values : w # v => u.values[w] = x.values[w]
  BY <1>2
<1>6. Home(u, v) = NodeOfDevice(x, row.device)
  BY <1>2, <1>5 DEF Home, NodeOfDevice, GetNode
<1>7. Within(x, u, A)
  BY <1>2, <1>3, <1>4, <1>5, <1>6 DEF Within
<1> QED BY <1>7 DEF u

\* The configuration of other nodes and the node of other devices stay.
LEMMA WithinConfig ==
  ASSUME NEW x, Related(x), NEW u, Related(u), NEW A, Within(x, u, A), NEW n, n \notin A, n # Null
  PROVE  Config(u, n) = Config(x, n)
<1>1. ASSUME NEW d PROVE d \in GetByNode(x, n) <=> d \in GetByNode(u, n)
  <2>1. ASSUME d \in GetByNode(x, n) PROVE d \in GetByNode(u, n)
    <3>1. d \in DOMAIN x.devices /\ ~x.devices[d].deleted /\ x.devices[d].parent = n
      BY <2>1 DEF GetByNode, Live
    <3>2. d \in DOMAIN u.devices /\ u.devices[d] = x.devices[d]
      BY <3>1 DEF Within
    <3> QED BY <3>1, <3>2 DEF GetByNode, Live
  <2>2. ASSUME d \in GetByNode(u, n) PROVE d \in GetByNode(x, n)
    <3>1. d \in DOMAIN u.devices /\ ~u.devices[d].deleted /\ u.devices[d].parent = n
      BY <2>2 DEF GetByNode, Live
    <3>2. d \in DOMAIN x.devices /\ u.devices[d] = x.devices[d]
      BY <3>1 DEF Within
    <3> QED BY <3>1, <3>2 DEF GetByNode, Live
  <2> QED BY <2>1, <2>2
<1>2. \A d \in GetByNode(x, n) : d \in DOMAIN x.devices /\ d \in DOMAIN u.devices
         /\ u.devices[d] = x.devices[d] /\ x.devices[d].parent = n
  BY DEF GetByNode, Live, Within
<1>3. ASSUME NEW d \in GetByNode(x, n)
      PROVE  NodeOfDevice(x, d) = n /\ NodeOfDevice(u, d) = n
  BY <1>2 DEF Related, NodeOfDevice, GetNode
<1>4. ASSUME NEW d \in GetByNode(x, n), NEW v
      PROVE  /\ v \in GetValues(x, d) <=> v \in GetValues(u, d)
             /\ v \in GetValues(x, d) => x.values[v] = u.values[v]
  <2>1. ASSUME v \in GetValues(x, d) PROVE v \in GetValues(u, d) /\ x.values[v] = u.values[v]
    BY <1>3, <2>1 DEF GetValues, Within, Home
  <2>2. ASSUME v \in GetValues(u, d) PROVE v \in GetValues(x, d)
    BY <1>3, <2>2 DEF GetValues, Within, Home
  <2> QED BY <2>1, <2>2
<1> DEFINE row(y, d) == [id |-> d, address |-> y.devices[d].address,
                         values |-> {<<v, y.values[v].logging>> : v \in GetValues(y, d)}]
<1>5. ASSUME NEW d \in GetByNode(x, n) PROVE row(x, d) = row(u, d)
  <2>1. {<<v, x.values[v].logging>> : v \in GetValues(x, d)}
          = {<<v, u.values[v].logging>> : v \in GetValues(u, d)}
    BY <1>4
  <2> QED BY <1>2, <2>1
<1>6. Config(x, n) = {row(x, d) : d \in GetByNode(x, n)} /\ Config(u, n) = {row(u, d) : d \in GetByNode(u, n)}
  BY DEF Config
<1> HIDE DEF row
<1> QED BY <1>1, <1>5, <1>6

LEMMA WithinNode ==
  ASSUME NEW x, Tables(x), Related(x), NEW u, Tables(u), NEW A, Within(x, u, A),
         NEW d \in Nat, d < x.next.device, NodeOfDevice(x, d) \notin A \ {Null}
  PROVE  NodeOfDevice(u, d) = NodeOfDevice(x, d)
<1>1. Null \notin DOMAIN x.nodes /\ Null \notin DOMAIN u.nodes
  BY RowTypes
<1>2. CASE d \in DOMAIN x.devices
  <2>1. x.devices[d].parent \in DOMAIN x.nodes \cup {Null}
    BY <1>2 DEF Related
  <2>2. NodeOfDevice(x, d) = x.devices[d].parent
    BY <1>2, <2>1 DEF NodeOfDevice, GetNode
  <2>3. d \in DOMAIN u.devices /\ u.devices[d] = x.devices[d]
    BY <1>2, <2>2 DEF Within
  <2>4. x.devices[d].parent # Null => x.devices[d].parent \in DOMAIN u.nodes
    BY <2>1, <2>2 DEF Within
  <2> QED BY <1>1, <2>2, <2>3, <2>4 DEF NodeOfDevice, GetNode
<1>3. CASE d \notin DOMAIN x.devices
  <2>1. d \notin DOMAIN u.devices
    <3>1. x.next.device \in Nat
      BY RowTypes
    <3> QED BY <1>3, <3>1 DEF Within
  <2> QED BY <1>3, <2>1 DEF NodeOfDevice
<1> QED BY <1>2, <1>3

-----------------------------------------------------------------------------
(* Commands that met no other one: what they are about.                      *)

NodeOps == {"CreateNode", "UpdateNode", "DeleteNode"}
DeviceOps == {"CreateDevice", "UpdateDevice", "DeleteDevice"}
ValueOps == {"CreateValue", "UpdateValue", "DeleteValue"}

LEMMA GroundedCases ==
  ASSUME NEW slot, NEW x
  PROVE  /\ slot.cmd.op \in NodeOps => (Grounded(slot, x) <=> GroundedNode(slot, x))
         /\ slot.cmd.op \in DeviceOps => (Grounded(slot, x) <=> GroundedDevice(slot, x))
         /\ slot.cmd.op \in ValueOps => (Grounded(slot, x) <=> GroundedValue(slot, x))
  BY DEF Grounded, NodeOps, DeviceOps, ValueOps

\* The write of a command that met no other one stays within what it is about.
LEMMA GroundedWrite ==
  ASSUME NEW x, Tables(x), Related(x), NEW slot, slot.pc = "write", IsCommand(slot.cmd),
         Grounded(slot, x), NEW A,
         A = slot.touches.nodes \cup (IF slot.cmd.op = "CreateNode" THEN {x.next.node} ELSE {})
  PROVE  Within(x, Write(x, slot.cmd, slot.listed), A)
<1> DEFINE c == slot.cmd
           B == slot.touches.nodes
<1>0. ~Written(slot) /\ slot.pc # "check" /\ B \subseteq A
  BY DEF Written
<1>1. CASE c.op \in NodeOps
  <2>1. GroundedNode(slot, x)
    BY <1>1, GroundedCases
  <2>2. CASE c.op = "CreateNode"
    BY <2>2, InsertNodeWithin DEF Write
  <2>3. CASE c.op = "UpdateNode"
    <3>1. c.id \in A
      BY <1>0, <2>1, <2>3 DEF GroundedNode
    <3> QED BY <2>3, <3>1, UpdateNodeWithin DEF Write
  <2>4. CASE c.op = "DeleteNode"
    <3>1. c.id \in A /\ c.id \in DOMAIN x.nodes
      BY <1>0, <2>1, <2>4 DEF GroundedNode
    <3> QED BY <2>4, <3>1, DeleteNodeWithin DEF Write
  <2> QED BY <1>1, <2>2, <2>3, <2>4 DEF NodeOps
<1>2. CASE c.op \in DeviceOps
  <2>1. GroundedDevice(slot, x)
    BY <1>2, GroundedCases
  <2>2. CASE c.op = "CreateDevice"
    <3>1. c.to \in A
      BY <1>0, <2>1, <2>2 DEF GroundedDevice
    <3> QED BY <2>2, <3>1, InsertDeviceWithin DEF Write
  <2>3. ASSUME c.op # "CreateDevice"
        PROVE  /\ c.id \in DOMAIN x.devices /\ x.devices[c.id].parent \in A \ {Null}
               /\ x.devices[c.id].parent \in DOMAIN x.nodes
               /\ c.to # Null => c.to \in A
               /\ c.op = "DeleteDevice" => slot.listed = GetValues(x, c.id)
    <3>1. /\ B = {slot.old} \cup Some(c.to) /\ slot.old \in DOMAIN x.nodes
          /\ c.id \in Live(x) /\ x.devices[c.id].parent = slot.old
          /\ c.op = "DeleteDevice" => slot.listed = GetValues(x, c.id)
      BY <1>0, <2>1, <2>3 DEF GroundedDevice
    <3>2. slot.old # Null
      BY <3>1, RowTypes
    <3> QED BY <1>0, <3>1, <3>2 DEF Some, Live
  <2>4. CASE c.op = "UpdateDevice"
    BY <2>3, <2>4, UpdateDeviceWithin DEF Write
  <2>5. CASE c.op = "DeleteDevice"
    <3>1. Write(x, c, slot.listed) = DeleteDevice(x, c.id, GetValues(x, c.id))
      BY <2>3, <2>5 DEF Write
    <3> QED BY <2>3, <2>5, <3>1, DeleteDeviceWithin
  <2> QED BY <1>2, <2>2, <2>4, <2>5 DEF DeviceOps
<1>3. CASE c.op \in ValueOps
  <2>1. GroundedValue(slot, x)
    BY <1>3, GroundedCases
  <2>2. NodeOfDevice(x, c.to) \in A \cup {Null}
    <3>1. Some(NodeOfDevice(x, c.to)) \subseteq B
      BY <2>1 DEF GroundedValue
    <3> QED BY <1>0, <3>1 DEF Some
  <2>3. CASE c.op = "CreateValue"
    BY <2>2, <2>3, InsertValueWithin DEF Write
  <2>4. ASSUME c.op # "CreateValue"
        PROVE  c.id \in DOMAIN x.values /\ Home(x, c.id) \in A
    <3>1. /\ B = {NodeOfDevice(x, slot.old)} \cup Some(NodeOfDevice(x, c.to))
          /\ c.id \in DOMAIN x.values /\ x.values[c.id].device = slot.old
      BY <1>0, <2>1, <2>4 DEF GroundedValue
    <3> QED BY <1>0, <3>1 DEF Home
  <2>5. CASE c.op = "UpdateValue"
    BY <2>2, <2>4, <2>5, UpdateValueWithin DEF Write
  <2>6. CASE c.op = "DeleteValue"
    <3>1. Write(x, c, slot.listed) = DeleteValues(x, {c.id})
      BY <2>6 DEF Write, DeleteValue
    <3> QED BY <2>4, <2>6, <3>1, DeleteValuesWithin
  <2> QED BY <1>3, <2>3, <2>5, <2>6 DEF ValueOps
<1> QED BY <1>1, <1>2, <1>3 DEF IsCommand, Operations, NodeOps, DeviceOps, ValueOps

\* And leaves it as grounded as it was.
LEMMA GroundedCovers ==
  ASSUME NEW x, Tables(x), NEW slot, slot.pc = "write", IsCommand(slot.cmd), Grounded(slot, x),
         slot.cmd.op = "CreateNode" \/ (slot.cmd.op = "UpdateNode" /\ slot.cmd.set # Null)
           => slot.cmd.set \in slot.touches.ips
  PROVE  Covers(slot.touches, slot.cmd, x)
<1> DEFINE c == slot.cmd
<1>1. CASE c.op = "CreateDevice"
  <2>1. GroundedDevice(slot, x)
    BY <1>1, GroundedCases DEF DeviceOps
  <2>2. c.to \in slot.touches.nodes
    BY <1>1, <2>1 DEF GroundedDevice
  <2> QED BY <1>1, <2>2 DEF Covers
<1>2. CASE c.op = "UpdateDevice"
  <2>1. GroundedDevice(slot, x)
    BY <1>2, GroundedCases DEF DeviceOps
  <2>2. /\ slot.touches.nodes = {slot.old} \cup Some(c.to)
        /\ c.id \in Live(x) /\ x.devices[c.id].parent = slot.old
    BY <1>2, <2>1 DEF GroundedDevice, Written
  <2>3. c.id < x.next.device
    BY <2>2, RowTypes DEF Live
  <2> QED BY <1>2, <2>2, <2>3 DEF Covers, Some
<1>3. CASE c.op \notin {"CreateDevice", "UpdateDevice"}
  BY <1>3 DEF Covers
<1> QED BY <1>1, <1>2, <1>3

\* A command keeps its ground while another one writes about other things.
LEMMA GroundedKept ==
  ASSUME NEW x, Tables(x), Related(x), NEW u, Tables(u), Related(u), NEW a,
         Within(x, u, a.nodes), Spares(x, u, a),
         NEW slot, slot.old \in Nat, IsCommand(slot.cmd), Grounded(slot, x),
         ~Meets(a, slot.touches)
  PROVE  Grounded(slot, u) /\ Left(slot, u) = Left(slot, x)
<1> DEFINE c == slot.cmd
           B == slot.touches.nodes
<1>0. /\ \A n \in B : n \notin a.nodes
      /\ \A ip \in slot.touches.ips : ip \notin a.ips
  BY DEF Meets
<1>a. \A n \in B : /\ n \in DOMAIN x.nodes <=> n \in DOMAIN u.nodes
                   /\ n \in DOMAIN x.nodes => u.nodes[n] = x.nodes[n]
  BY <1>0 DEF Within
<1>b. /\ x.next.device \in Nat /\ u.next.device \in Nat /\ x.next.device <= u.next.device
      /\ c.id \in Nat /\ c.to \in Nat
  BY RowTypes DEF Within, IsCommand
<1>c. Null \notin DOMAIN x.nodes /\ Null \notin DOMAIN u.nodes
  BY RowTypes
<1>1. ASSUME c.op \in NodeOps PROVE Grounded(slot, u)
  <2>1. GroundedNode(slot, x)
    BY <1>1, GroundedCases
  <2>2. CASE c.op = "CreateNode"
    <3>1. c.set \in slot.touches.ips
      BY <2>1, <2>2 DEF GroundedNode
    <3>2. \A n \in NodesWithIp(u, c.set) : n \in NodesWithIp(x, c.set)
      BY <1>0, <3>1 DEF NodesWithIp, Spares
    <3>3. CASE Written(slot)
      <4>1. PICK m \in DOMAIN x.nodes : B = {m} /\ NodesWithIp(x, c.set) = {m}
        BY <2>1, <2>2, <3>3 DEF GroundedNode
      <4>2. m \in DOMAIN u.nodes /\ NodesWithIp(u, c.set) = {m}
        BY <1>a, <3>2, <4>1 DEF NodesWithIp
      <4>3. GroundedNode(slot, u)
        BY <2>2, <3>1, <3>3, <4>1, <4>2 DEF GroundedNode
      <4> QED BY <1>1, <4>3, GroundedCases
    <3>4. CASE ~Written(slot)
      <4>1. B = {} /\ (slot.pc = "write" => NodesWithIp(x, c.set) = {})
        BY <2>1, <2>2, <3>4 DEF GroundedNode
      <4>2. GroundedNode(slot, u)
        BY <2>2, <3>1, <3>2, <3>4, <4>1 DEF GroundedNode
      <4> QED BY <1>1, <4>2, GroundedCases
    <3> QED BY <3>3, <3>4
  <2>3. CASE c.op = "UpdateNode"
    <3>1. GroundedNode(slot, u)
      BY <1>a, <2>1, <2>3 DEF GroundedNode
    <3> QED BY <1>1, <3>1, GroundedCases
  <2>4. CASE c.op = "DeleteNode"
    <3>1. GroundedNode(slot, u)
      BY <1>a, <2>1, <2>4 DEF GroundedNode
    <3> QED BY <1>1, <3>1, GroundedCases
  <2> QED BY <1>1, <2>2, <2>3, <2>4 DEF NodeOps
<1>2. ASSUME c.op \in DeviceOps PROVE Grounded(slot, u)
  <2>1. GroundedDevice(slot, x)
    BY <1>2, GroundedCases
  <2>2. CASE c.op = "CreateDevice"
    <3>1. GroundedDevice(slot, u)
      BY <1>a, <2>1, <2>2 DEF GroundedDevice
    <3> QED BY <1>2, <3>1, GroundedCases
  <2>3. CASE c.op # "CreateDevice" /\ slot.pc = "check"
    <3>1. /\ c.to = Null \/ c.to \in DOMAIN x.nodes
          /\ c.id < x.next.device /\ B = Some(NodeOfDevice(x, c.id)) \cup Some(c.to)
      BY <2>1, <2>3 DEF GroundedDevice
    <3>2. NodeOfDevice(x, c.id) \notin a.nodes \ {Null}
      BY <1>0, <3>1 DEF Some
    <3>3. NodeOfDevice(u, c.id) = NodeOfDevice(x, c.id) /\ c.id < u.next.device
      BY <1>b, <3>1, <3>2, WithinNode
    <3>4. c.to = Null \/ c.to \in DOMAIN u.nodes
      BY <1>a, <3>1 DEF Some
    <3>5. GroundedDevice(slot, u)
      BY <2>3, <3>1, <3>3, <3>4 DEF GroundedDevice
    <3> QED BY <1>2, <3>5, GroundedCases
  <2>4. CASE c.op # "CreateDevice" /\ slot.pc # "check"
    <3>1. /\ c.to = Null \/ c.to \in DOMAIN x.nodes
          /\ B = {slot.old} \cup Some(c.to) /\ slot.old \in DOMAIN x.nodes
          /\ slot.pc = "write" => /\ c.id \in Live(x) /\ x.devices[c.id].parent = slot.old
                                  /\ c.op = "DeleteDevice" => slot.listed = GetValues(x, c.id)
          /\ Written(slot) /\ c.op = "UpdateDevice" =>
                    c.id \in Live(x) /\ x.devices[c.id].parent = Coalesce(c.to, slot.old)
      BY <2>1, <2>4 DEF GroundedDevice
    <3>2. (c.to = Null \/ c.to \in DOMAIN u.nodes) /\ slot.old \in DOMAIN u.nodes
      BY <1>a, <3>1 DEF Some
    <3>3. ASSUME c.id \in Live(x), x.devices[c.id].parent \in B
          PROVE  /\ c.id \in Live(u) /\ u.devices[c.id].parent = x.devices[c.id].parent
                 /\ NodeOfDevice(x, c.id) \in B
      <4>1. c.id \in DOMAIN u.devices /\ u.devices[c.id] = x.devices[c.id]
        BY <1>0, <3>3 DEF Within, Live
      <4>2. NodeOfDevice(x, c.id) = x.devices[c.id].parent
        BY <3>3 DEF Related, Live, NodeOfDevice, GetNode
      <4> QED BY <3>3, <4>1, <4>2 DEF Live
    <3>4. Coalesce(c.to, slot.old) \in B /\ slot.old \in B
      BY <3>1 DEF Coalesce, Some
    <3>5. ASSUME c.id \in Live(x), x.devices[c.id].parent = slot.old
          PROVE  GetValues(u, c.id) = GetValues(x, c.id)
      <4>1. c.id \in Live(u) /\ u.devices[c.id].parent = slot.old /\ NodeOfDevice(x, c.id) \in B
        BY <3>3, <3>4, <3>5
      <4>2. NodeOfDevice(x, c.id) = slot.old /\ NodeOfDevice(u, c.id) = slot.old
        BY <3>1, <3>2, <3>5, <4>1 DEF NodeOfDevice, GetNode, Live
      <4>3. slot.old \notin a.nodes \cup {Null}
        BY <1>0, <1>c, <3>1, <3>4
      <4>4. ASSUME NEW v \in GetValues(x, c.id) PROVE v \in GetValues(u, c.id)
        BY <4>2, <4>3 DEF GetValues, Within, Home
      <4>5. ASSUME NEW v \in GetValues(u, c.id) PROVE v \in GetValues(x, c.id)
        BY <4>2, <4>3 DEF GetValues, Within, Home
      <4> QED BY <4>4, <4>5
    <3>6. GroundedDevice(slot, u)
      BY <2>4, <3>1, <3>2, <3>3, <3>4, <3>5 DEF GroundedDevice
    <3> QED BY <1>2, <3>6, GroundedCases
  <2> QED BY <1>2, <2>2, <2>3, <2>4
<1>3. ASSUME c.op \in ValueOps
      PROVE  Grounded(slot, u) /\ NodeOfDevice(u, c.to) = NodeOfDevice(x, c.to)
  <2>1. GroundedValue(slot, x)
    BY <1>3, GroundedCases
  <2>2. c.to < x.next.device /\ Some(NodeOfDevice(x, c.to)) \subseteq B
    BY <2>1 DEF GroundedValue
  <2>3. NodeOfDevice(u, c.to) = NodeOfDevice(x, c.to) /\ c.to < u.next.device
    <3>1. NodeOfDevice(x, c.to) \notin a.nodes \ {Null}
      BY <1>0, <2>2 DEF Some
    <3> QED BY <1>b, <2>2, <3>1, WithinNode
  <2>4. CASE c.op = "CreateValue"
    <3>1. GroundedValue(slot, u)
      BY <2>1, <2>3, <2>4 DEF GroundedValue
    <3> QED BY <1>3, <2>3, <3>1, GroundedCases
  <2>5. CASE c.op # "CreateValue"
    <3> DEFINE device == IF slot.pc = "check" THEN x.values[c.id].device ELSE slot.old
    <3>1. /\ B = {NodeOfDevice(x, device)} \cup Some(NodeOfDevice(x, c.to))
          /\ device < x.next.device
          /\ ~Written(slot) => c.id \in DOMAIN x.values /\ x.values[c.id].device = device
      BY <2>1, <2>5 DEF GroundedValue
    <3>2. device \in Nat
      <4>1. slot.pc = "check" => ~Written(slot)
        BY DEF Written
      <4> QED BY <3>1, <4>1, RowTypes
    <3> HIDE DEF device
    <3>3. NodeOfDevice(x, device) \notin a.nodes
      BY <1>0, <3>1
    <3>4. NodeOfDevice(u, device) = NodeOfDevice(x, device) /\ device < u.next.device
      BY <1>b, <3>1, <3>2, <3>3, WithinNode
    <3>5. ~Written(slot) => c.id \in DOMAIN u.values /\ u.values[c.id] = x.values[c.id]
      BY <3>1, <3>3 DEF Within, Home
    <3>6. device = IF slot.pc = "check" THEN u.values[c.id].device ELSE slot.old
      <4>1. slot.pc = "check" => ~Written(slot)
        BY DEF Written
      <4> QED BY <3>5, <4>1 DEF device
    <3>7. GroundedValue(slot, u)
      BY <2>3, <2>5, <3>1, <3>4, <3>5, <3>6 DEF GroundedValue
    <3> QED BY <1>3, <2>3, <3>7, GroundedCases
  <2> QED BY <2>4, <2>5
<1>4. c.op \in NodeOps \cup DeviceOps \cup ValueOps
  BY DEF IsCommand, Operations, NodeOps, DeviceOps, ValueOps
<1>5. Left(slot, u) = Left(slot, x)
  BY <1>3 DEF Left, ValueOps
<1> QED BY <1>1, <1>2, <1>3, <1>4, <1>5

\* A command that meets no other one is grounded when it is given,
LEMMA AdmittedGrounded ==
  ASSUME Tables(db), Related(db), NEW slot, IsCommand(slot.cmd), Admitted(slot.cmd),
         slot.pc = "check", slot.touches = Touches(slot.cmd)
  PROVE  Grounded(slot, db)
<1> DEFINE c == slot.cmd
           B == slot.touches.nodes
           node(n) == IF n \in DOMAIN db.nodes THEN {n} ELSE {}
<1>1. ~Written(slot)
  BY DEF Written
<1>2. Null \notin DOMAIN db.nodes /\ Null \notin DOMAIN db.devices /\ db.next.device \in Nat \ {0}
  BY RowTypes
<1>3. \A d : NodeOfDevice(db, d) \in DOMAIN db.nodes \cup {Null}
             /\ node(NodeOfDevice(db, d)) = Some(NodeOfDevice(db, d))
  BY <1>2, NodesFound DEF Some
<1>4. \A n \in DOMAIN db.nodes \cup {Null} : node(n) = Some(n)
  BY <1>2 DEF Some
<1> USE DEF Admitted, NodeCreation, NodeUpdate, NodeDeletion, DeviceCreation, DeviceChange,
            ValueCommand
<1>5. CASE c.op \in NodeOps
  <2>1. CASE c.op = "CreateNode"
    <3>1. GroundedNode(slot, db)
      BY <1>1, <2>1 DEF GroundedNode, Touches
    <3> QED BY <1>5, <3>1, GroundedCases
  <2>2. CASE c.op \in {"UpdateNode", "DeleteNode"}
    <3>1. c.id \in DOMAIN db.nodes
      BY <2>2 DEF NodeCanBeUpdated
    <3>2. B = {c.id}
      BY <2>2, <3>1 DEF Touches
    <3>3. GroundedNode(slot, db)
      BY <1>1, <2>2, <3>1, <3>2 DEF GroundedNode
    <3> QED BY <1>5, <3>3, GroundedCases
  <2> QED BY <1>5, <2>1, <2>2 DEF NodeOps
<1>6. CASE c.op \in DeviceOps
  <2>1. B = node(NodeOfDevice(db, c.id)) \cup node(c.to)
    BY <1>6 DEF Touches, DeviceOps
  <2>2. CASE c.op = "CreateDevice"
    <3>1. c.id = Null /\ c.to \in DOMAIN db.nodes
      BY <2>2 DEF IsCommand
    <3>2. NodeOfDevice(db, c.id) = Null
      BY <1>2, <3>1 DEF NodeOfDevice
    <3>3. B = {c.to}
      BY <1>2, <2>1, <3>1, <3>2
    <3>4. GroundedDevice(slot, db)
      BY <2>2, <3>1, <3>3 DEF GroundedDevice
    <3> QED BY <1>6, <3>4, GroundedCases
  <2>3. CASE c.op # "CreateDevice"
    <3>1. c.id \in DOMAIN db.devices /\ c.to \in DOMAIN db.nodes \cup {Null}
      BY <1>6, <2>3 DEF DeviceOps
    <3>2. B = Some(NodeOfDevice(db, c.id)) \cup Some(c.to) /\ c.id < db.next.device
      BY <1>3, <1>4, <2>1, <3>1, RowTypes
    <3>3. GroundedDevice(slot, db)
      BY <2>3, <3>1, <3>2 DEF GroundedDevice
    <3> QED BY <1>6, <3>3, GroundedCases
  <2> QED BY <2>2, <2>3
<1>7. CASE c.op \in ValueOps
  <2>1. c.to \in DOMAIN db.devices \cup {Null}
    BY <1>7 DEF ValueOps
  <2>2. c.to < db.next.device
    BY <1>2, <2>1, RowTypes DEF Null
  <2>3. CASE c.op = "CreateValue"
    <3>1. B = node(NodeOfDevice(db, c.to))
      BY <2>3 DEF Touches
    <3>2. GroundedValue(slot, db)
      BY <1>3, <2>2, <2>3, <3>1 DEF GroundedValue
    <3> QED BY <1>7, <3>2, GroundedCases
  <2>4. CASE c.op # "CreateValue"
    <3>1. c.id \in DOMAIN db.values
      BY <1>7, <2>4 DEF ValueOps
    <3>2. B = {NodeOfDevice(db, db.values[c.id].device)} \cup node(NodeOfDevice(db, c.to))
      BY <1>7, <2>4 DEF Touches, ValueOps
    <3>3. db.values[c.id].device < db.next.device
      BY <3>1, RowTypes DEF Related
    <3>4. GroundedValue(slot, db)
      BY <1>3, <2>2, <2>4, <3>1, <3>2, <3>3 DEF GroundedValue
    <3> QED BY <1>7, <3>4, GroundedCases
  <2> QED BY <2>3, <2>4
<1> QED BY <1>5, <1>6, <1>7 DEF IsCommand, Operations, NodeOps, DeviceOps, ValueOps

\* when its checks have passed,
LEMMA CheckedGrounded ==
  ASSUME NEW x, Tables(x), Related(x), NEW slot, IsCommand(slot.cmd), slot.pc = "check",
         Grounded(slot, x), Accepts(x, slot.cmd),
         NEW y, y.cmd = slot.cmd, y.touches = slot.touches, y.pc = "write",
         slot.cmd.op \in {"UpdateDevice", "DeleteDevice"} => y.old = GetParent(x, slot.cmd.id),
         slot.cmd.op \in {"UpdateValue", "DeleteValue"} => y.old = x.values[slot.cmd.id].device,
         slot.cmd.op = "DeleteDevice" => y.listed = GetValues(x, slot.cmd.id)
  PROVE  Grounded(y, x)
<1> DEFINE c == slot.cmd
           B == slot.touches.nodes
<1>1. ~Written(slot) /\ ~Written(y)
  BY DEF Written
<1>2. CASE c.op \in NodeOps
  <2>1. GroundedNode(slot, x)
    BY <1>2, GroundedCases
  <2>2. CASE c.op = "CreateNode"
    <3>1. NodesWithIp(x, c.set) = {}
      <4>1. First(NodesWithIp(x, c.set)) = Null
        BY <1>2, <2>2 DEF Accepts, NodeCanBeCreated, GetByIp
      <4>2. NodesWithIp(x, c.set) \in SUBSET (Nat \ {0})
        BY RowTypes DEF NodesWithIp, Null
      <4> QED BY <4>1, <4>2, FirstFacts DEF Null
    <3>2. GroundedNode(y, x)
      BY <1>1, <2>1, <2>2, <3>1 DEF GroundedNode
    <3> QED BY <1>2, <3>2, GroundedCases
  <2>3. CASE c.op \in {"UpdateNode", "DeleteNode"}
    <3>1. GroundedNode(y, x)
      BY <1>1, <2>1, <2>3 DEF GroundedNode
    <3> QED BY <1>2, <3>1, GroundedCases
  <2> QED BY <1>2, <2>2, <2>3 DEF NodeOps
<1>3. CASE c.op \in DeviceOps
  <2>1. GroundedDevice(slot, x)
    BY <1>3, GroundedCases
  <2>2. CASE c.op = "CreateDevice"
    <3>1. GroundedDevice(y, x)
      BY <1>1, <2>1, <2>2 DEF GroundedDevice
    <3> QED BY <1>3, <3>1, GroundedCases
  <2>3. CASE c.op # "CreateDevice"
    <3>1. B = Some(NodeOfDevice(x, c.id)) \cup Some(c.to)
      BY <2>1, <2>3 DEF GroundedDevice
    <3>2. c.op = "UpdateDevice" \/ c.op = "DeleteDevice"
      BY <1>3, <2>3 DEF DeviceOps
    <3>3. c.id \in Live(x)
      BY <3>2 DEF Accepts, DeviceCanBeUpdated
    <3>4. /\ x.devices[c.id].parent \in DOMAIN x.nodes /\ x.devices[c.id].parent # Null
          /\ y.old = x.devices[c.id].parent
      BY <3>2, <3>3 DEF Related, Live, GetParent
    <3>5. NodeOfDevice(x, c.id) = y.old
      BY <3>3, <3>4 DEF NodeOfDevice, GetNode, Live
    <3>6. B = {y.old} \cup Some(c.to)
      BY <3>1, <3>4, <3>5 DEF Some
    <3>7. GroundedDevice(y, x)
      BY <1>1, <2>1, <2>3, <3>3, <3>4, <3>6 DEF GroundedDevice
    <3> QED BY <1>3, <3>7, GroundedCases
  <2> QED BY <2>2, <2>3
<1>4. CASE c.op \in ValueOps
  <2>1. GroundedValue(slot, x)
    BY <1>4, GroundedCases
  <2>2. CASE c.op = "CreateValue"
    <3>1. GroundedValue(y, x)
      BY <2>1, <2>2 DEF GroundedValue
    <3> QED BY <1>4, <3>1, GroundedCases
  <2>3. CASE c.op # "CreateValue"
    <3>1. y.old = x.values[c.id].device
      BY <1>4, <2>3 DEF ValueOps
    <3>2. GroundedValue(y, x)
      BY <1>1, <2>1, <2>3, <3>1 DEF GroundedValue
    <3> QED BY <1>4, <3>2, GroundedCases
  <2> QED BY <2>2, <2>3
<1> QED BY <1>2, <1>3, <1>4 DEF IsCommand, Operations, NodeOps, DeviceOps, ValueOps

\* What a command writes into the tables nodes and devices.
LEMMA NodesWritten ==
  ASSUME NEW x, IsDb(x), NEW c, IsCommand(c), NEW listed
  PROVE  LET u == Write(x, c, listed)
         IN  /\ c.op = "CreateNode" => u.nodes = Insert(x.nodes, x.next.node, c.set)
             /\ c.op = "UpdateNode" /\ c.id \in DOMAIN x.nodes =>
                  u.nodes = [x.nodes EXCEPT ![c.id] = Coalesce(c.set, x.nodes[c.id])]
             /\ c.op = "DeleteNode" => u.nodes = Without(x.nodes, {c.id})
             /\ c.op \notin NodeOps => u.nodes = x.nodes
             /\ c.op \in ValueOps => u.devices = x.devices
<1> DEFINE u == Write(x, c, listed)
<1>1. ASSUME c.op = "CreateNode" PROVE u.nodes = Insert(x.nodes, x.next.node, c.set)
  <2>1. u = InsertNode(x, c.set)
    BY <1>1 DEF Write
  <2>2. InsertNode(x, c.set).nodes = Insert(x.nodes, x.next.node, c.set)
    BY InsertNodeFields
  <2> QED BY <2>1, <2>2
<1>2. ASSUME c.op = "UpdateNode", c.id \in DOMAIN x.nodes
      PROVE  u.nodes = [x.nodes EXCEPT ![c.id] = Coalesce(c.set, x.nodes[c.id])]
  <2>1. u = UpdateNode(x, c.id, c.set)
    BY <1>2 DEF Write
  <2> QED BY <1>2, <2>1, UpdateNodeFields
<1>3. ASSUME c.op = "DeleteNode" PROVE u.nodes = Without(x.nodes, {c.id})
  <2>1. u = DeleteNode(x, c.id)
    BY <1>3 DEF Write
  <2>2. DeleteNode(x, c.id).nodes = Without(x.nodes, {c.id})
    BY DeleteNodeFields, ZenonT(40)
  <2> QED BY <2>1, <2>2
<1>4. ASSUME c.op = "CreateDevice" PROVE u.nodes = x.nodes
  <2>1. InsertDevice(x, c.to, c.set).nodes = x.nodes
    BY DEF InsertDevice, IsDb
  <2> QED BY <1>4, <2>1 DEF Write
<1>5. ASSUME c.op = "UpdateDevice" PROVE u.nodes = x.nodes
  <2>1. UpdateDevice(x, c.id, c.to, c.set).nodes = x.nodes
    BY DEF UpdateDevice, IsDb
  <2> QED BY <1>5, <2>1 DEF Write
<1>6. ASSUME c.op = "DeleteDevice" PROVE u.nodes = x.nodes
  <2>1. DeleteDevice(x, c.id, listed).nodes = DeleteValues(x, listed).nodes
    BY DeleteDeviceRest
  <2>2. DeleteValues(x, listed).nodes = x.nodes
    BY DEF DeleteValues, IsDb
  <2> QED BY <1>6, <2>1, <2>2 DEF Write
<1>7. ASSUME c.op = "CreateValue" PROVE u.nodes = x.nodes /\ u.devices = x.devices
  <2>1. InsertValue(x, c.to, c.set).nodes = x.nodes /\ InsertValue(x, c.to, c.set).devices = x.devices
    BY DEF InsertValue, IsDb
  <2> QED BY <1>7, <2>1 DEF Write
<1>8. ASSUME c.op = "UpdateValue" PROVE u.nodes = x.nodes /\ u.devices = x.devices
  <2>1. /\ UpdateValue(x, c.id, c.to, c.set).nodes = x.nodes
        /\ UpdateValue(x, c.id, c.to, c.set).devices = x.devices
    BY DEF UpdateValue, IsDb
  <2> QED BY <1>8, <2>1 DEF Write
<1>9. ASSUME c.op = "DeleteValue" PROVE u.nodes = x.nodes /\ u.devices = x.devices
  <2>1. DeleteValues(x, {c.id}).nodes = x.nodes /\ DeleteValues(x, {c.id}).devices = x.devices
    BY DEF DeleteValues, IsDb
  <2> QED BY <1>9, <2>1 DEF Write, DeleteValue
<1> HIDE DEF u
<1>10. /\ c.op \notin NodeOps => u.nodes = x.nodes
       /\ c.op \in ValueOps => u.devices = x.devices
  BY <1>4, <1>5, <1>6, <1>7, <1>8, <1>9 DEF IsCommand, Operations, NodeOps, ValueOps
<1> QED BY <1>1, <1>2, <1>3, <1>10 DEF u

\* and when it has written.
LEMMA WrittenGrounded ==
  ASSUME NEW x, Tables(x), Related(x), NEW slot, slot.pc = "write", IsCommand(slot.cmd),
         slot.old \in Nat,
         Grounded(slot, x), slot.cmd.op = "CreateNode" => slot.cmd.set \in slot.touches.ips,
         NEW u, u = Write(x, slot.cmd, slot.listed), Tables(u),
         x.next.device <= u.next.device,
         NEW y, y.cmd = slot.cmd, y.old = slot.old, y.touches.ips = slot.touches.ips,
         y.touches.nodes = slot.touches.nodes
                             \cup (IF slot.cmd.op = "CreateNode" THEN {x.next.node} ELSE {}),
         y.pc = IF slot.cmd.op = "DeleteNode" THEN "send" ELSE "read"
  PROVE  /\ Grounded(y, u)
         /\ y.touches.nodes \cap DOMAIN u.nodes \subseteq Left(y, u)
<1> DEFINE c == slot.cmd
           B == slot.touches.nodes
<1>1. ~Written(slot) /\ Written(y) /\ y.pc # "check" /\ y.pc # "write" /\ slot.pc # "check"
  BY DEF Written
<1>2. /\ c.op = "CreateNode" => u.nodes = Insert(x.nodes, x.next.node, c.set)
      /\ c.op = "UpdateNode" /\ c.id \in DOMAIN x.nodes =>
           u.nodes = [x.nodes EXCEPT ![c.id] = Coalesce(c.set, x.nodes[c.id])]
      /\ c.op = "DeleteNode" => u.nodes = Without(x.nodes, {c.id})
      /\ c.op \notin NodeOps => u.nodes = x.nodes
      /\ c.op \in ValueOps => u.devices = x.devices
  <2>1. IsDb(x)
    BY DEF Tables, IsDb
  <2> QED BY <2>1, NodesWritten
<1>3. CASE c.op \in NodeOps
  <2>1. GroundedNode(slot, x)
    BY <1>3, GroundedCases
  <2>2. CASE c.op = "CreateNode"
    <3>1. B = {} /\ NodesWithIp(x, c.set) = {} /\ c.set \in y.touches.ips
      BY <1>1, <2>1, <2>2 DEF GroundedNode
    <3>2. u.nodes = Insert(x.nodes, x.next.node, c.set)
      BY <1>2, <2>2
    <3>3. x.next.node \in DOMAIN u.nodes /\ NodesWithIp(u, c.set) = {x.next.node}
      BY <3>1, <3>2 DEF Insert, NodesWithIp
    <3>4. y.touches.nodes = {x.next.node}
      BY <2>2, <3>1
    <3>5. GroundedNode(y, u)
      BY <1>1, <2>2, <3>1, <3>3, <3>4 DEF GroundedNode
    <3>6. Left(y, u) = y.touches.nodes
      BY <2>2 DEF Left
    <3> QED BY <1>3, <3>5, <3>6, GroundedCases
  <2>3. CASE c.op = "UpdateNode"
    <3>1. y.touches.nodes = {c.id} /\ c.id \in DOMAIN x.nodes
      BY <2>1, <2>3 DEF GroundedNode
    <3>2. u.nodes = [x.nodes EXCEPT ![c.id] = Coalesce(c.set, x.nodes[c.id])]
      BY <1>2, <2>3, <3>1
    <3>3. GroundedNode(y, u)
      BY <1>1, <2>3, <3>1, <3>2 DEF GroundedNode
    <3>4. Left(y, u) = y.touches.nodes
      BY <2>3 DEF Left
    <3> QED BY <1>3, <3>3, <3>4, GroundedCases
  <2>4. CASE c.op = "DeleteNode"
    <3>1. y.touches.nodes = {c.id}
      BY <2>1, <2>4 DEF GroundedNode
    <3>2. u.nodes = Without(x.nodes, {c.id})
      BY <1>2, <2>4
    <3>3. y.touches.nodes \cap DOMAIN u.nodes = {}
      BY <3>1, <3>2 DEF Without, Restrict
    <3>4. GroundedNode(y, u)
      BY <1>1, <2>4, <3>1 DEF GroundedNode
    <3> QED BY <1>3, <3>3, <3>4, GroundedCases
  <2> QED BY <1>3, <2>2, <2>3, <2>4 DEF NodeOps
<1>4. CASE c.op \in DeviceOps \cup ValueOps
  <2>1. Left(y, u) = y.touches.nodes /\ y.touches.nodes = B
    BY <1>4 DEF Left, DeviceOps, ValueOps
  <2>2. CASE c.op = "CreateDevice"
    <3>1. GroundedDevice(slot, x)
      BY <2>2, GroundedCases DEF DeviceOps
    <3>2. u.nodes = x.nodes
      BY <1>2, <2>2 DEF NodeOps
    <3>3. GroundedDevice(y, u)
      BY <2>1, <2>2, <3>1, <3>2 DEF GroundedDevice
    <3> QED BY <2>1, <2>2, <3>3, GroundedCases DEF DeviceOps
  <2>3. CASE c.op = "UpdateDevice"
    <3>1. GroundedDevice(slot, x)
      BY <2>3, GroundedCases DEF DeviceOps
    <3>2. c.id \in Live(x) /\ x.devices[c.id].parent = slot.old
      BY <1>1, <2>3, <3>1 DEF GroundedDevice
    <3>3. /\ u.nodes = x.nodes
          /\ u.devices = [x.devices EXCEPT ![c.id] = MovedDevice(x.devices[c.id], c.to, c.set)]
      <4>1. u = UpdateDevice(x, c.id, c.to, c.set) /\ IsDb(x) /\ c.id \in DOMAIN x.devices
        BY <2>3, <3>2 DEF Write, Live, Tables, IsDb
      <4> QED BY <4>1, UpdateDeviceFields
    <3>4. c.id \in Live(u) /\ u.devices[c.id].parent = Coalesce(c.to, slot.old)
      BY <3>2, <3>3 DEF Live, MovedDevice
    <3>5. GroundedDevice(y, u)
      BY <1>1, <2>1, <2>3, <3>1, <3>3, <3>4 DEF GroundedDevice
    <3> QED BY <2>1, <2>3, <3>5, GroundedCases DEF DeviceOps
  <2>4. CASE c.op = "DeleteDevice"
    <3>1. GroundedDevice(slot, x)
      BY <2>4, GroundedCases DEF DeviceOps
    <3>2. u.nodes = x.nodes
      BY <1>2, <2>4 DEF NodeOps
    <3>3. GroundedDevice(y, u)
      BY <1>1, <2>1, <2>4, <3>1, <3>2 DEF GroundedDevice
    <3> QED BY <2>1, <2>4, <3>3, GroundedCases DEF DeviceOps
  <2>5. CASE c.op \in ValueOps
    <3>1. GroundedValue(slot, x)
      BY <2>5, GroundedCases
    <3>2. u.nodes = x.nodes /\ u.devices = x.devices
      BY <1>2, <2>5 DEF NodeOps, ValueOps
    <3>3. \A d : NodeOfDevice(u, d) = NodeOfDevice(x, d)
      BY <3>2 DEF NodeOfDevice, GetNode
    <3>4. c.to < u.next.device /\ (c.op # "CreateValue" => slot.old < u.next.device)
      <4>1. c.to < x.next.device /\ (c.op # "CreateValue" => slot.old < x.next.device)
        BY <1>1, <3>1 DEF GroundedValue
      <4>2. /\ x.next.device \in Nat /\ u.next.device \in Nat /\ x.next.device <= u.next.device
            /\ slot.old \in Nat /\ c.to \in Nat
        BY RowTypes DEF IsCommand
      <4> QED BY <4>1, <4>2
    <3>5. GroundedValue(y, u)
      BY <1>1, <2>1, <3>1, <3>3, <3>4 DEF GroundedValue
    <3> QED BY <2>1, <2>5, <3>5, GroundedCases
  <2> QED BY <1>4, <2>2, <2>3, <2>4, <2>5 DEF DeviceOps
<1> QED BY <1>3, <1>4 DEF IsCommand, Operations, NodeOps, DeviceOps, ValueOps

LEMMA GroundedLater ==
  ASSUME NEW x, NEW slot, NEW y, IsCommand(slot.cmd), Written(slot), Written(y),
         y.cmd = slot.cmd, y.old = slot.old, y.touches = slot.touches, Grounded(slot, x)
  PROVE  Grounded(y, x)
<1> DEFINE c == slot.cmd
<1>1. slot.pc # "check" /\ slot.pc # "write" /\ y.pc # "check" /\ y.pc # "write"
  BY DEF Written
<1>2. CASE c.op \in NodeOps
  <2>1. GroundedNode(y, x)
    BY <1>1, <1>2, GroundedCases DEF GroundedNode
  <2> QED BY <1>2, <2>1, GroundedCases
<1>3. CASE c.op \in DeviceOps
  <2>1. GroundedDevice(y, x)
    BY <1>1, <1>3, GroundedCases DEF GroundedDevice
  <2> QED BY <1>3, <2>1, GroundedCases
<1>4. CASE c.op \in ValueOps
  <2>1. GroundedValue(y, x)
    BY <1>1, <1>4, GroundedCases DEF GroundedValue
  <2> QED BY <1>4, <2>1, GroundedCases
<1> QED BY <1>2, <1>3, <1>4 DEF IsCommand, Operations, NodeOps, DeviceOps, ValueOps

-----------------------------------------------------------------------------
(* What they read to announce it.                                            *)

\* The node a command that met no other one reads.
FirstTold(slot) == NodeToTell(slot.cmd, slot.old, slot.told)
SecondTold(slot) == SecondToTell(slot.cmd, slot.old, slot.told)

LEMMA GroundedFirst ==
  ASSUME Tables(db), Related(db), NEW slot, IsCommand(slot.cmd), slot.pc = "read",
         slot.cmd.op # "DeleteNode", Grounded(slot, db),
         NEW y, y.cmd = slot.cmd, y.old = slot.old, y.pc \in {"send", "read2"}
  PROVE  LET n == FirstTold(slot)
         IN  /\ n # Null => n \in slot.touches.nodes
             /\ slot.touches.nodes \cap DOMAIN db.nodes \subseteq {n} \cup Left(y, db)
             /\ slot.cmd.op = "CreateNode" => slot.touches.nodes = {n}
<1> DEFINE c == slot.cmd
           B == slot.touches.nodes
           n == FirstTold(slot)
<1>1. Written(slot) /\ slot.pc # "check" /\ slot.pc # "write"
  BY DEF Written
<1>2. Null \notin DOMAIN db.nodes /\ Null \notin DOMAIN db.devices
  BY RowTypes
<1>3. CASE c.op \in NodeOps
  <2>1. GroundedNode(slot, db)
    BY <1>3, GroundedCases
  <2>2. CASE c.op = "CreateNode"
    <3>1. PICK m \in DOMAIN db.nodes : B = {m} /\ NodesWithIp(db, c.set) = {m}
      BY <1>1, <2>1, <2>2 DEF GroundedNode
    <3>2. n = First({m})
      BY <2>2, <3>1 DEF FirstTold, NodeToTell, GetByIp
    <3>3. First({m}) = m
      <4>1. m \in Nat \ {0}
        BY RowTypes DEF Null
      <4> QED BY <4>1, FirstFacts
    <3> QED BY <2>2, <3>1, <3>2, <3>3
  <2>3. CASE c.op = "UpdateNode"
    <3>1. B = {c.id} /\ c.id \in DOMAIN db.nodes
      BY <2>1, <2>3 DEF GroundedNode
    <3>2. n = c.id
      BY <2>3, <3>1 DEF FirstTold, NodeToTell, GetNode
    <3> QED BY <2>3, <3>1, <3>2
  <2> QED BY <1>3, <2>2, <2>3 DEF NodeOps
<1>4. CASE c.op \in DeviceOps
  <2>1. GroundedDevice(slot, db)
    BY <1>4, GroundedCases
  <2>2. CASE c.op = "CreateDevice"
    <3>1. B = {c.to} /\ n = GetNode(db, c.to)
      BY <2>1, <2>2 DEF GroundedDevice, FirstTold, NodeToTell
    <3> QED BY <1>4, <2>2, <3>1 DEF GetNode
  <2>3. ASSUME c.op # "CreateDevice"
        PROVE  /\ B = {slot.old} \cup Some(c.to) /\ slot.old \in DOMAIN db.nodes
               /\ c.op = "UpdateDevice" =>
                    c.id \in Live(db) /\ db.devices[c.id].parent = Coalesce(c.to, slot.old)
               /\ c.to = Null \/ c.to \in DOMAIN db.nodes
    BY <1>1, <2>1, <2>3 DEF GroundedDevice
  <2>4. CASE c.op = "UpdateDevice"
    <3>1. GetParent(db, c.id) = Coalesce(c.to, slot.old)
      BY <2>3, <2>4 DEF GetParent
    <3>2. n = Coalesce(c.to, slot.old)
      BY <2>3, <2>4, <3>1 DEF FirstTold, NodeToTell, GetNode, Coalesce
    <3>3. Left(y, db) = {slot.old}
      BY <2>4 DEF Left
    <3> QED BY <2>3, <2>4, <3>2, <3>3 DEF Coalesce, Some
  <2>5. CASE c.op = "DeleteDevice"
    <3>1. n = slot.old /\ c.to = Null
      BY <2>3, <2>5 DEF FirstTold, NodeToTell, GetNode, IsCommand
    <3> QED BY <2>3, <2>5, <3>1 DEF Some
  <2> QED BY <1>4, <2>2, <2>4, <2>5 DEF DeviceOps
<1>5. CASE c.op \in ValueOps
  <2>1. GroundedValue(slot, db)
    BY <1>5, GroundedCases
  <2>2. CASE c.op = "CreateValue"
    <3>1. B = Some(NodeOfDevice(db, c.to)) /\ n = NodeOfDevice(db, c.to)
      BY <2>1, <2>2 DEF GroundedValue, FirstTold, NodeToTell
    <3> QED BY <2>2, <3>1 DEF Some
  <2>3. ASSUME c.op # "CreateValue"
        PROVE  B = {NodeOfDevice(db, slot.old)} \cup Some(NodeOfDevice(db, c.to))
    BY <1>1, <2>1, <2>3 DEF GroundedValue
  <2>4. CASE c.op = "UpdateValue"
    <3>1. n = NodeOfDevice(db, slot.old) /\ Left(y, db) = {NodeOfDevice(db, c.to)}
      BY <2>4 DEF FirstTold, NodeToTell, Left
    <3> QED BY <2>3, <2>4, <3>1 DEF Some
  <2>5. CASE c.op = "DeleteValue"
    <3>1. n = NodeOfDevice(db, slot.old) /\ c.to = Null
      BY <2>5 DEF FirstTold, NodeToTell, IsCommand
    <3>2. NodeOfDevice(db, c.to) = Null
      BY <1>2, <3>1 DEF NodeOfDevice
    <3> QED BY <2>3, <2>5, <3>1, <3>2 DEF Some
  <2> QED BY <1>5, <2>2, <2>4, <2>5 DEF ValueOps
<1> QED BY <1>3, <1>4, <1>5 DEF IsCommand, Operations, NodeOps, DeviceOps, ValueOps

LEMMA GroundedSecond ==
  ASSUME Tables(db), Related(db), NEW slot, IsCommand(slot.cmd), slot.pc = "read2",
         Grounded(slot, db),
         slot.touches.nodes \cap DOMAIN db.nodes \subseteq slot.told \cup Left(slot, db)
  PROVE  LET n == SecondTold(slot)
         IN  /\ n # Null => n \in slot.touches.nodes
             /\ slot.touches.nodes \cap DOMAIN db.nodes \subseteq slot.told \cup {n}
<1> DEFINE c == slot.cmd
           B == slot.touches.nodes
           n == SecondTold(slot)
<1>1. Written(slot) /\ slot.pc # "check" /\ slot.pc # "write"
  BY DEF Written
<1>2. Null \notin DOMAIN db.nodes /\ Null \notin DOMAIN db.devices
  BY RowTypes
<1>3. CASE c.op = "UpdateDevice"
  <2>1. GroundedDevice(slot, db)
    BY <1>3, GroundedCases DEF DeviceOps
  <2>2. B = {slot.old} \cup Some(c.to) /\ slot.old \in DOMAIN db.nodes
    BY <1>1, <1>3, <2>1 DEF GroundedDevice
  <2>3. n = IF slot.old \in slot.told THEN Null ELSE slot.old
    BY <1>3, <2>2 DEF SecondTold, SecondToTell, GetNode
  <2>4. Left(slot, db) = {slot.old}
    BY <1>3 DEF Left
  <2> QED BY <2>2, <2>3, <2>4
<1>4. CASE c.op = "UpdateValue"
  <2>1. GroundedValue(slot, db)
    BY <1>4, GroundedCases DEF ValueOps
  <2>2. Some(NodeOfDevice(db, c.to)) \subseteq B
    BY <2>1 DEF GroundedValue
  <2>3. NewNodeOfValue(c) = NodeOfDevice(db, c.to)
    BY <1>2 DEF NewNodeOfValue, NodeOfDevice
  <2>4. n = IF NodeOfDevice(db, c.to) \in slot.told THEN Null ELSE NodeOfDevice(db, c.to)
    BY <1>4, <2>3 DEF SecondTold, SecondToTell
  <2>5. Left(slot, db) = {NodeOfDevice(db, c.to)}
    BY <1>4 DEF Left
  <2> QED BY <2>2, <2>4, <2>5 DEF Some
<1>5. CASE c.op \notin {"UpdateDevice", "UpdateValue"}
  <2>1. n = Null
    BY <1>5 DEF SecondTold, SecondToTell
  <2>2. Left(slot, db) = {}
    BY <1>5 DEF Left
  <2> QED BY <2>1, <2>2
<1> QED BY <1>3, <1>4, <1>5

-----------------------------------------------------------------------------
(* Sequences of events.                                                      *)

LEMMA AppendFacts ==
  ASSUME NEW R, NEW seq \in Seq(R), NEW e \in R
  PROVE  /\ Append(seq, e) \in Seq(R)
         /\ Len(Append(seq, e)) = Len(seq) + 1
         /\ DOMAIN Append(seq, e) = 1 .. Len(seq) + 1 /\ DOMAIN seq = 1 .. Len(seq)
         /\ \A i \in DOMAIN seq : Append(seq, e)[i] = seq[i]
         /\ Append(seq, e)[Len(seq) + 1] = e
         /\ Len(seq) \in Nat
  OBVIOUS

LEMMA TailFacts ==
  ASSUME NEW R, NEW seq \in Seq(R), seq # <<>>
  PROVE  /\ Tail(seq) \in Seq(R) /\ Head(seq) \in R /\ Head(seq) = seq[1]
         /\ Len(seq) \in Nat \ {0} /\ DOMAIN seq = 1 .. Len(seq)
         /\ DOMAIN Tail(seq) = 1 .. Len(seq) - 1
         /\ \A i \in DOMAIN Tail(seq) : Tail(seq)[i] = seq[i + 1]
<1>1. Len(seq) \in Nat \ {0} /\ DOMAIN seq = 1 .. Len(seq)
  OBVIOUS
<1>2. Tail(seq) \in Seq(R) /\ Head(seq) \in R /\ Head(seq) = seq[1]
  OBVIOUS
<1>3. Len(Tail(seq)) = Len(seq) - 1
  OBVIOUS
<1>4. \A i \in 1 .. Len(Tail(seq)) : Tail(seq)[i] = seq[i + 1]
  OBVIOUS
<1> QED BY <1>1, <1>2, <1>3, <1>4

LEMMA RangeAppend ==
  ASSUME NEW R, NEW seq \in Seq(R), NEW e \in R
  PROVE  \A x : x \in Range(Append(seq, e)) <=> x \in Range(seq) \/ x = e
<1>1. DOMAIN Append(seq, e) = DOMAIN seq \cup {Len(seq) + 1}
  BY AppendFacts
<1>2. Len(seq) + 1 \notin DOMAIN seq
  BY AppendFacts
<1> QED BY <1>1, <1>2, AppendFacts DEF Range

LEMMA RangeTail ==
  ASSUME NEW R, NEW seq \in Seq(R), seq # <<>>
  PROVE  /\ \A x \in Range(Tail(seq)) : x \in Range(seq)
         /\ Head(seq) \in Range(seq)
<1>1. \A i \in DOMAIN Tail(seq) : i + 1 \in DOMAIN seq
  BY TailFacts
<1>2. 1 \in DOMAIN seq
  BY TailFacts
<1> QED BY <1>1, <1>2, TailFacts DEF Range

LEMMA HasAppend ==
  ASSUME NEW R, NEW seq \in Seq(R), NEW e \in R, NEW type, NEW n
  PROVE  Has(Append(seq, e), type, n)
           = Has(seq, type, n) \cup (IF IsEvent(e, type, n) THEN {Len(seq) + 1} ELSE {})
<1> DEFINE new == Append(seq, e)
<1>1. /\ DOMAIN new = 1 .. Len(seq) + 1 /\ DOMAIN seq = 1 .. Len(seq) /\ Len(seq) \in Nat
      /\ \A i \in DOMAIN seq : new[i] = seq[i]
      /\ new[Len(seq) + 1] = e
  BY AppendFacts
<1> HIDE DEF new
<1>2. \A i : i \in Has(new, type, n) <=>
               \/ i \in Has(seq, type, n)
               \/ i = Len(seq) + 1 /\ IsEvent(e, type, n)
  BY <1>1 DEF Has
<1> QED BY <1>2 DEF new

LEMMA HasTail ==
  ASSUME NEW R, NEW seq \in Seq(R), seq # <<>>, NEW type, NEW n
  PROVE  /\ \A i \in Has(Tail(seq), type, n) : i \in Nat /\ i + 1 \in Has(seq, type, n)
         /\ \A i \in Has(seq, type, n) : i = 1 \/ (i \in Nat /\ i - 1 \in Has(Tail(seq), type, n))
         /\ 1 \in Has(seq, type, n) <=> IsEvent(Head(seq), type, n)
         /\ ~IsEvent(Head(seq), type, n) => (Has(Tail(seq), type, n) = {} <=> Has(seq, type, n) = {})
<1> DEFINE rest == Tail(seq)
<1>1. /\ Head(seq) = seq[1] /\ Len(seq) \in Nat \ {0} /\ DOMAIN seq = 1 .. Len(seq)
      /\ DOMAIN rest = 1 .. Len(seq) - 1
      /\ \A i \in DOMAIN rest : rest[i] = seq[i + 1]
  BY TailFacts
<1> HIDE DEF rest
<1>2. \A i \in Has(rest, type, n) : i \in Nat /\ i + 1 \in Has(seq, type, n)
  BY <1>1 DEF Has
<1>3. ASSUME NEW i \in Has(seq, type, n), i # 1 PROVE i \in Nat /\ i - 1 \in Has(rest, type, n)
  <2>1. i \in DOMAIN seq /\ IsEvent(seq[i], type, n)
    BY DEF Has
  <2>2. i - 1 \in DOMAIN rest /\ (i - 1) + 1 = i /\ i \in Nat
    BY <1>1, <1>3, <2>1
  <2>3. rest[i - 1] = seq[i]
    BY <1>1, <2>2
  <2> QED BY <2>1, <2>2, <2>3 DEF Has
<1>4. 1 \in Has(seq, type, n) <=> IsEvent(Head(seq), type, n)
  BY <1>1 DEF Has
<1> QED BY <1>2, <1>3, <1>4 DEF rest

LEMMA LastAppend ==
  ASSUME NEW R, NEW seq \in Seq(R), NEW e \in R, NEW n, NEW ip
  PROVE  /\ IsEvent(e, "Update", n) /\ e.ip = ip => LastHas(Append(seq, e), n, ip)
         /\ ~IsEvent(e, "Update", n) /\ LastHas(seq, n, ip) => LastHas(Append(seq, e), n, ip)
<1> DEFINE new == Append(seq, e)
<1>1. /\ DOMAIN seq = 1 .. Len(seq) /\ Len(seq) \in Nat
      /\ \A i \in DOMAIN seq : new[i] = seq[i]
      /\ new[Len(seq) + 1] = e
  BY AppendFacts
<1>2. Has(new, "Update", n)
        = Has(seq, "Update", n) \cup (IF IsEvent(e, "Update", n) THEN {Len(seq) + 1} ELSE {})
  BY HasAppend
<1> HIDE DEF new
<1>3. ASSUME IsEvent(e, "Update", n), e.ip = ip PROVE LastHas(new, n, ip)
  <2> SUFFICES ASSUME NEW i \in Has(new, "Update", n), \A j \in Has(new, "Update", n) : j <= i
               PROVE  new[i].ip = ip
    BY DEF LastHas
  <2>1. Len(seq) + 1 <= i
    BY <1>2, <1>3
  <2>2. i \notin Has(seq, "Update", n)
    BY <1>1, <2>1 DEF Has
  <2>3. i = Len(seq) + 1
    BY <1>2, <1>3, <2>2
  <2> QED BY <1>1, <1>3, <2>3
<1>4. ASSUME ~IsEvent(e, "Update", n), LastHas(seq, n, ip) PROVE LastHas(new, n, ip)
  <2>1. Has(new, "Update", n) = Has(seq, "Update", n)
    BY <1>2, <1>4
  <2>2. \A i \in Has(seq, "Update", n) : new[i] = seq[i]
    BY <1>1 DEF Has
  <2> QED BY <1>4, <2>1, <2>2 DEF LastHas
<1> QED BY <1>3, <1>4 DEF new

LEMMA LastTail ==
  ASSUME NEW R, NEW seq \in Seq(R), seq # <<>>, NEW n, NEW ip, LastHas(seq, n, ip)
  PROVE  /\ LastHas(Tail(seq), n, ip)
         /\ IsEvent(Head(seq), "Update", n) /\ Has(Tail(seq), "Update", n) = {} => Head(seq).ip = ip
<1> DEFINE rest == Tail(seq)
           H == Has(seq, "Update", n)
           K == Has(rest, "Update", n)
<1>1. /\ Head(seq) = seq[1] /\ \A i \in DOMAIN rest : rest[i] = seq[i + 1]
      /\ DOMAIN seq = 1 .. Len(seq) /\ DOMAIN rest = 1 .. Len(seq) - 1 /\ Len(seq) \in Nat
  BY TailFacts
<1>2. /\ \A i \in K : i \in Nat /\ i + 1 \in H
      /\ \A i \in H : i = 1 \/ (i \in Nat /\ i - 1 \in K)
      /\ 1 \in H <=> IsEvent(Head(seq), "Update", n)
  BY HasTail
<1>3. \A i \in K : i \in DOMAIN rest
  BY DEF Has
<1> HIDE DEF H, K, rest
<1>4. ASSUME NEW i \in K, \A j \in K : j <= i PROVE rest[i].ip = ip
  <2>1. i + 1 \in H /\ i \in Nat
    BY <1>2
  <2>2. ASSUME NEW j \in H PROVE j <= i + 1
    <3>1. CASE j = 1
      BY <2>1, <3>1
    <3>2. CASE j \in Nat /\ j - 1 \in K
      <4>1. j - 1 <= i
        BY <1>4, <3>2
      <4> QED BY <2>1, <3>2, <4>1
    <3> QED BY <1>2, <3>1, <3>2
  <2>3. seq[i + 1].ip = ip
    BY <2>1, <2>2 DEF LastHas, H
  <2> QED BY <1>1, <1>3, <2>3
<1>5. ASSUME IsEvent(Head(seq), "Update", n), K = {} PROVE Head(seq).ip = ip
  <2>1. 1 \in H /\ \A j \in H : j <= 1
    BY <1>2, <1>5
  <2>2. seq[1].ip = ip
    BY <2>1 DEF LastHas, H
  <2> QED BY <1>1, <2>2
<1>6. LastHas(rest, n, ip)
  BY <1>4 DEF LastHas, K
<1> QED BY <1>5, <1>6 DEF K, rest

-----------------------------------------------------------------------------
(* Steps of one command that nothing else takes part in.                     *)

\* A step of one command that nothing else takes part in.
OnlySlot(s, y) ==
  slots' = [slots EXCEPT ![s] = y] /\ UNCHANGED <<db, events, master, tasks>>

LEMMA SlotAt ==
  ASSUME IndInv, NEW s \in Slots, NEW y, slots' = [slots EXCEPT ![s] = y]
  PROVE  slots'[s] = y /\ \A r \in Slots : r # s => slots'[r] = slots[r]
  BY DEF IndInv, TypeOK

LEMMA SameStream ==
  ASSUME events' = events, master' = master
  PROVE  Stream' = Stream /\ Pending' = Pending
  BY DEF Stream, Pending

LEMMA SameTasks ==
  ASSUME tasks' = tasks, NEW n
  PROVE  TasksOf(n)' = TasksOf(n)
  BY DEF TasksOf

LEMMA SlotOneTask ==
  ASSUME IndInv, NEW s \in Slots, NEW y, OnlySlot(s, y), NEW n, OneTask(n),
         Creates(y, n) <=> Creates(slots[s], n)
  PROVE  OneTask(n)'
<1>1. slots'[s] = y /\ \A r \in Slots : r # s => slots'[r] = slots[r]
  BY SlotAt DEF OnlySlot
<1>2. Creators(n)' = Creators(n)
  <2>1. \A r \in Slots : Creates(slots'[r], n) <=> Creates(slots[r], n)
    BY <1>1
  <2> QED BY <2>1 DEF Creators
<1>3. Stream' = Stream /\ TasksOf(n)' = TasksOf(n) /\ master' = master
  BY SameStream, SameTasks DEF OnlySlot
<1> QED BY <1>2, <1>3 DEF OneTask

\* A command that no longer owes a notice has sent it, or none is needed.
Passes(x, y, n) ==
  Owes(x, n) \/ Sends(x, n) =>
    Owes(y, n) \/ Sends(y, n) \/ (Has(Stream, "Update", n) = {} /\ TasksOf(n) = {})

LEMMA SlotOwed ==
  ASSUME IndInv, NEW s \in Slots, NEW y, slots' = [slots EXCEPT ![s] = y], NEW n,
         Owed(n), Passes(slots[s], y, n)
  PROVE  Owed(n)' \/ (Has(Stream, "Update", n) = {} /\ TasksOf(n) = {})
<1>1. slots'[s] = y /\ \A r \in Slots : r # s => slots'[r] = slots[r]
  BY SlotAt
<1>2. PICK r \in Slots : Owes(slots[r], n) \/ Sends(slots[r], n)
  BY DEF Owed
<1>3. CASE r # s
  <2>1. Owes(slots'[r], n) \/ Sends(slots'[r], n)
    BY <1>1, <1>2, <1>3
  <2> QED BY <2>1 DEF Owed
<1>4. CASE r = s
  <2>1. ASSUME Owes(y, n) \/ Sends(y, n) PROVE Owed(n)'
    <3>1. Owes(slots'[s], n) \/ Sends(slots'[s], n)
      BY <1>1, <2>1
    <3> QED BY <3>1 DEF Owed
  <2> QED BY <1>2, <1>4, <2>1 DEF Passes
<1> QED BY <1>3, <1>4

LEMMA SlotRight ==
  ASSUME IndInv, NEW s \in Slots, NEW y, OnlySlot(s, y), NEW n, n # Null,
         \A r \in Slots : r # s /\ Sends(slots[r], n) => slots[r].event.ip = db.nodes[n],
         Sends(y, n) => y.event.ip = db.nodes[n],
         \/ Sends(y, n)
         \/ /\ Right(n) /\ Passes(slots[s], y, n)
            /\ \A t \in TaskSlots : tasks[t].id = n => Follows(t)
  PROVE  Right(n)' /\ \A t \in TaskSlots : tasks[t].id = n => Follows(t)'
<1>1. slots'[s] = y /\ \A r \in Slots : r # s => slots'[r] = slots[r]
  BY SlotAt DEF OnlySlot
<1>2. Stream' = Stream /\ TasksOf(n)' = TasksOf(n) /\ master' = master /\ db' = db /\ tasks' = tasks
  BY SameStream, SameTasks DEF OnlySlot
<1>3. \A r \in Slots : Sends(slots'[r], n) => slots'[r].event.ip = db'.nodes[n]
  BY <1>1, <1>2
<1>4. CASE Sends(y, n)
  <2>1. Owed(n)'
    <3>1. Sends(slots'[s], n)
      BY <1>1, <1>4
    <3> QED BY <3>1 DEF Owed
  <2>2. Right(n)'
    BY <1>3, <2>1 DEF Right
  <2>3. \A t \in TaskSlots : tasks[t].id = n => Follows(t)'
    BY <1>2, <2>1 DEF Follows
  <2> QED BY <2>2, <2>3
<1>5. CASE /\ Right(n) /\ Passes(slots[s], y, n)
           /\ \A t \in TaskSlots : tasks[t].id = n => Follows(t)
  <2>1. Owed(n) => Owed(n)' \/ (Has(Stream, "Update", n) = {} /\ TasksOf(n) = {})
    BY <1>5, SlotOwed DEF OnlySlot
  <2>2. Has(Stream, "Update", n) = {} => LastHas(Stream, n, db.nodes[n])
    BY DEF LastHas
  <2>3. Right(n)'
    <3>1. Owed(n)' \/ LastHas(Stream, n, db.nodes[n])
      BY <1>5, <2>1, <2>2 DEF Right
    <3> QED BY <1>2, <1>3, <3>1 DEF Right
  <2>4. ASSUME NEW t \in TaskSlots, tasks[t].id = n PROVE Follows(t)'
    <3>1. TasksOf(n) # {}
      BY <2>4 DEF TasksOf
    <3>2. Owed(n) \/ Has(Stream, "Update", n) # {} \/ UpToDate(tasks[t], n)
      BY <1>5, <2>4 DEF Follows
    <3>3. UpToDate(tasks[t], n)' <=> UpToDate(tasks[t], n)
      BY <1>2 DEF UpToDate
    <3> QED BY <1>2, <2>1, <2>4, <3>1, <3>2, <3>3 DEF Follows
  <2> QED BY <2>3, <2>4
<1> QED BY <1>4, <1>5

LEMMA SlotEnds ==
  ASSUME IndInv, NEW s \in Slots, NEW y, OnlySlot(s, y), NEW t \in TaskSlots, Ends(t),
         Deletes(slots[s], tasks[t].id) => Deletes(y, tasks[t].id)
  PROVE  Ends(t)'
<1> DEFINE n == tasks[t].id
<1>1. slots'[s] = y /\ \A r \in Slots : r # s => slots'[r] = slots[r]
  BY SlotAt DEF OnlySlot
<1>2. Stream' = Stream /\ tasks' = tasks
  BY SameStream DEF OnlySlot
<1>3. ASSUME NEW r \in Slots, Deletes(slots[r], n) PROVE \E q \in Slots : Deletes(slots'[q], n)
  BY <1>1, <1>3
<1>4. \/ \E q \in Slots : Deletes(slots'[q], n)
      \/ Has(Stream, "Delete", n) # {}
      \/ Has(tasks[t].inbox, "Delete", n) # {}
  BY <1>3 DEF Ends
<1> QED BY <1>2, <1>4 DEF Ends

\* Nodes that leave the doubt are announced by this step.
LEMMA SlotStep ==
  ASSUME IndInv, FlowInv, NEW s \in Slots, NEW y, OnlySlot(s, y),
         \A n \in doubt \ doubt' :
           /\ n \in DOMAIN db.nodes /\ OneTask(n) /\ Sends(y, n)
           /\ \A r \in Slots : r # s => ~Sends(slots[r], n),
         \A n \in DOMAIN db.nodes \ doubt' :
           /\ Creates(y, n) <=> Creates(slots[s], n)
           /\ Sends(y, n) => y.event.ip = db.nodes[n]
           /\ n \notin doubt => Passes(slots[s], y, n),
         \A n : n \notin doubt' \cup DOMAIN db.nodes /\ Deletes(slots[s], n) => Deletes(y, n)
  PROVE  Counted' /\ Ending' /\ Told' /\ Heard'
<1>1. db' = db /\ tasks' = tasks
  BY DEF OnlySlot
<1>2. \A n \in DOMAIN db.nodes : n # Null
  BY RowTypes DEF IndInv, TypeOK
<1>3. ASSUME NEW n \in DOMAIN db.nodes \ doubt'
      PROVE  OneTask(n)' /\ Right(n)' /\ \A t \in TaskSlots : tasks[t].id = n => Follows(t)'
  <2>1. OneTask(n)
    BY <1>3 DEF FlowInv, Counted
  <2>2. OneTask(n)'
    BY <1>3, <2>1, SlotOneTask
  <2>3. CASE n \in doubt
    <3>1. Sends(y, n) /\ \A r \in Slots : r # s => ~Sends(slots[r], n)
      BY <1>3, <2>3
    <3> QED BY <1>2, <1>3, <2>2, <3>1, SlotRight
  <2>4. CASE n \notin doubt
    <3>1. Right(n) /\ \A t \in TaskSlots : tasks[t].id = n => Follows(t)
      BY <1>3, <2>4 DEF FlowInv, Told, Heard
    <3>2. \A r \in Slots : Sends(slots[r], n) => slots[r].event.ip = db.nodes[n]
      BY <3>1 DEF Right
    <3>3. Passes(slots[s], y, n) /\ (Sends(y, n) => y.event.ip = db.nodes[n])
      BY <1>3, <2>4
    <3> QED BY <1>2, <1>3, <2>2, <3>1, <3>2, <3>3, SlotRight
  <2> QED BY <2>3, <2>4
<1>4. Counted'
  BY <1>1, <1>3 DEF Counted
<1>5. Told'
  BY <1>1, <1>3 DEF Told
<1>6. Heard'
  BY <1>1, <1>3 DEF Heard
<1>7. ASSUME NEW t \in TaskSlots, tasks[t].id # Null, tasks[t].id \notin DOMAIN db.nodes \cup doubt'
      PROVE  Ends(t)'
  <2>1. Ends(t)
    BY <1>7 DEF FlowInv, Ending
  <2> QED BY <1>7, <2>1, SlotEnds
<1>8. Ending'
  BY <1>1, <1>7 DEF Ending
<1> QED BY <1>4, <1>5, <1>6, <1>8

SlotsFlow == FlowTypes /\ Given /\ CalmSlots /\ Doubted /\ Addressed /\ Creations

\* The others go on as before, and the command itself is as it should be.
LEMMA SlotFlow ==
  ASSUME IndInv, SlotsFlow, NEW s \in Slots, NEW y, OnlySlot(s, y), calm' \in BOOLEAN,
         doubt \subseteq doubt' \/ (Running \subseteq {s} /\ Pending = {}),
         calm' => calm \/ Running \subseteq {s},
         calm /\ ~calm' => \A r \in Running : r # s => slots[r].touches.nodes \subseteq doubt',
         GivenSlot(y),
         y.pc # "free" => AddressedSlot(y),
         calm' /\ y.pc # "free" =>
           CalmSlot(y) /\ \A r \in Running : r # s => ~Meets(slots[r].touches, y.touches),
         ~calm' /\ y.pc # "free" =>
           /\ y.touches.nodes \ y.told \subseteq doubt'
           /\ y.cmd.op = "CreateNode" /\ Unsent(y) => y.event.id \in doubt',
         y.pc \in {"check", "write"} =>
           \A e \in Pending :
             /\ e.ip \in y.touches.ips => ~calm' /\ e.id \in doubt'
             /\ y.cmd.op = "UpdateNode" /\ y.cmd.id = e.id => e.id \in doubt',
         y.cmd.op = "CreateNode" /\ y.pc \in {"write", "read", "send"} =>
           \A n \in NodesWithIp(db, y.cmd.set) \ doubt' : calm' /\ n \in y.touches.nodes
  PROVE  SlotsFlow'
<1>1. slots'[s] = y /\ \A r \in Slots : r # s => slots'[r] = slots[r]
  BY SlotAt DEF OnlySlot
<1>2. db' = db /\ events' = events /\ master' = master /\ tasks' = tasks
      /\ Stream' = Stream /\ Pending' = Pending
  BY SameStream DEF OnlySlot
<1>3. FlowTypes'
  BY <1>2 DEF SlotsFlow, FlowTypes
<1>4. Given'
  <2>1. ASSUME NEW r \in Slots PROVE GivenSlot(slots'[r])
    BY <1>1 DEF SlotsFlow, Given
  <2>2. ASSUME NEW r \in Slots PROVE GivenSlot(slots[r])'
    BY <1>2, <2>1 DEF GivenSlot, Old
  <2>3. \A e : Old(e)' <=> Old(e)
    BY <1>2 DEF Old
  <2> QED BY <1>2, <2>2, <2>3 DEF SlotsFlow, Given
<1>5. \A r \in Running' : r \in Slots /\ (IF r = s THEN y.pc # "free" ELSE r \in Running)
  BY <1>1 DEF Running
<1>6. CalmSlots'
  <2> SUFFICES ASSUME calm'
               PROVE  /\ \A q, r \in Running' : q # r => ~Meets(slots'[q].touches, slots'[r].touches)
                      /\ \A r \in Running' : CalmSlot(slots'[r])
    <3>1. \A x : CalmSlot(x) => CalmSlot(x)'
      BY <1>2 DEF CalmSlot
    <3> QED BY <1>2 DEF CalmSlots, CalmSlot
  <2>1. ASSUME NEW q \in Running, NEW r \in Running, q # s
        PROVE  calm /\ CalmSlot(slots[q]) /\ (q # r => ~Meets(slots[q].touches, slots[r].touches))
    BY <2>1 DEF SlotsFlow, CalmSlots
  <2>2. ASSUME NEW r \in Running' PROVE CalmSlot(slots'[r])
    BY <1>1, <1>5, <2>1
  <2>3. \A q, r : Meets(slots'[q].touches, slots'[r].touches) => Meets(slots'[r].touches, slots'[q].touches)
    BY DEF Meets
  <2>4. ASSUME NEW q \in Running', NEW r \in Running', q # r, q # s
        PROVE  ~Meets(slots'[q].touches, slots'[r].touches)
    BY <1>1, <1>5, <2>1, <2>4
  <2> QED BY <2>2, <2>3, <2>4
<1>7. Doubted'
  <2> SUFFICES ASSUME ~calm', NEW r \in Running'
               PROVE  /\ slots'[r].touches.nodes \ slots'[r].told \subseteq doubt'
                      /\ slots'[r].cmd.op = "CreateNode" /\ Unsent(slots'[r]) =>
                           slots'[r].event.id \in doubt'
    BY DEF Doubted, DoubtedSlot, Unsent
  <2>1. CASE r = s
    BY <1>1, <1>5, <2>1
  <2>2. CASE r # s
    <3>1. r \in Slots /\ r \in Running /\ slots'[r] = slots[r] /\ doubt \subseteq doubt'
      BY <1>1, <1>5, <2>2
    <3>2. CASE ~calm
      BY <3>1, <3>2 DEF SlotsFlow, Doubted, DoubtedSlot
    <3>3. CASE calm
      <4>1. slots[r].touches.nodes \subseteq doubt'
        BY <2>2, <3>1, <3>3
      <4>2. slots[r].told \subseteq slots[r].touches.nodes /\ EventOf(slots[r])
        BY <3>1, <3>3 DEF SlotsFlow, CalmSlots, CalmSlot, Given, GivenSlot
      <4>3. slots[r].cmd.op = "CreateNode" /\ Unsent(slots[r]) => slots[r].event.id \in slots[r].told
        BY <4>2 DEF EventOf
      <4> QED BY <3>1, <4>1, <4>2, <4>3
    <3> QED BY <3>2, <3>3
  <2> QED BY <2>1, <2>2
<1>8. Addressed'
  <2>1. ASSUME NEW r \in Running' PROVE AddressedSlot(slots'[r])
    BY <1>1, <1>5 DEF SlotsFlow, Addressed
  <2> QED BY <2>1 DEF Addressed, AddressedSlot
<1>9. ASSUME NEW e \in Pending, NEW r \in Slots, slots'[r].pc \in {"check", "write"}
      PROVE  /\ e.ip \in slots'[r].touches.ips => ~calm' /\ e.id \in doubt'
             /\ slots'[r].cmd.op = "UpdateNode" /\ slots'[r].cmd.id = e.id => e.id \in doubt'
  <2>1. CASE r = s
    BY <1>1, <1>9, <2>1
  <2>2. CASE r # s
    <3>1. r \in Unwritten /\ slots'[r] = slots[r] /\ doubt \subseteq doubt' /\ r \in Running
      BY <1>1, <1>9, <2>2 DEF Unwritten, Running
    <3>2. calm' => calm
      BY <2>2, <3>1
    <3> QED BY <1>9, <3>1, <3>2 DEF SlotsFlow, Creations, Awaits
  <2> QED BY <2>1, <2>2
<1>10. ASSUME NEW e \in Pending
       PROVE  /\ e.id \in DOMAIN db.nodes \ doubt' => NodesWithIp(db, e.ip) = {e.id}
              /\ NodesWithIp(db, e.ip) \ doubt' \subseteq {e.id}
  <2>1. doubt \subseteq doubt'
    OBVIOUS
  <2> QED BY <2>1 DEF SlotsFlow, Creations, Found
<1>11. ASSUME NEW r \in Slots, slots'[r].cmd.op = "CreateNode",
              slots'[r].pc \in {"write", "read", "send"},
              NEW n \in NodesWithIp(db, slots'[r].cmd.set) \ doubt'
       PROVE  calm' /\ n \in slots'[r].touches.nodes
  <2>1. CASE r = s
    BY <1>1, <1>11, <2>1
  <2>2. CASE r # s
    <3>1. r \in Running /\ slots'[r] = slots[r] /\ doubt \subseteq doubt'
      BY <1>1, <1>11, <2>2 DEF Running
    <3>2. calm /\ n \in slots[r].touches.nodes
      BY <1>11, <3>1 DEF SlotsFlow, Creations, CreatesAlone
    <3> QED BY <1>11, <2>2, <3>1, <3>2
  <2> QED BY <2>1, <2>2
<1>12. Creations'
  <2>1. \A e \in Pending' : Found(e)'
    BY <1>2, <1>10 DEF Found
  <2>2. \A e \in Pending', r \in Unwritten' : Awaits(e, slots[r])'
    BY <1>2, <1>9 DEF Awaits, Unwritten
  <2>3. \A r \in Slots : CreatesAlone(slots[r])'
    BY <1>2, <1>11 DEF CreatesAlone
  <2> QED BY <2>1, <2>2, <2>3 DEF Creations
<1> QED BY <1>3, <1>4, <1>6, <1>7, <1>8, <1>12 DEF SlotsFlow

\* A command that ends owes nothing, or what it owes is in doubt.
LEMMA FreesFlow ==
  ASSUME IndInv, FlowInv, NEW s \in Slots, OnlySlot(s, FreeSlot), calm' = calm,
         doubt \subseteq doubt',
         \/ ~Written(slots[s])
         \/ slots[s].pc = "end"
         \/ slots[s].touches.nodes \cup slots[s].told \subseteq doubt',
         slots[s].pc # "free"
  PROVE  FlowInv'
<1> DEFINE x == slots[s]
           y == FreeSlot
<1>1. y.pc = "free" /\ y.told = {} /\ y.touches.nodes = {} /\ y.cmd.op = "none"
  BY DEF FreeSlot, Untouched, NoCommand
<1>2. GivenSlot(y) /\ ~Written(y) /\ ~Unsent(y)
  BY <1>1 DEF GivenSlot, EventOf, Unsent, Written
<1>3. SlotsFlow /\ calm \in BOOLEAN /\ GivenSlot(x) /\ s \in Running
  BY DEF FlowInv, SlotsFlow, FlowTypes, Given, Running
<1>4. \A n : ~Creates(y, n) /\ ~Owes(y, n) /\ ~Sends(y, n) /\ ~Deletes(y, n)
  BY <1>1, <1>2 DEF Creates, Owes, Sends, Deletes
<1> HIDE DEF y
<1>5. SlotsFlow'
  BY <1>1, <1>2, <1>3, SlotFlow DEF y
<1>6. ASSUME NEW n, n \notin doubt'
      PROVE  ~Creates(x, n) /\ ~Sends(x, n) /\ ~Deletes(x, n) /\ (n \in DOMAIN db.nodes => ~Owes(x, n))
  <2>1. CASE ~Written(x)
    BY <2>1 DEF Creates, Sends, Deletes, Owes, Unsent, Written
  <2>2. CASE x.pc = "end"
    <3>1. ~Creates(x, n) /\ ~Sends(x, n) /\ ~Deletes(x, n)
      BY <2>2 DEF Creates, Sends, Deletes, Unsent
    <3>2. CASE calm
      <4>1. x.touches.nodes \cap DOMAIN db.nodes \subseteq x.told \cup Left(x, db)
        BY <1>3, <3>2 DEF SlotsFlow, CalmSlots, CalmSlot
      <4>2. Left(x, db) = {}
        BY <2>2 DEF Left
      <4> QED BY <3>1, <4>1, <4>2 DEF Owes
    <3>3. CASE ~calm
      <4>1. x.touches.nodes \ x.told \subseteq doubt
        BY <1>3, <3>3 DEF SlotsFlow, Doubted, DoubtedSlot
      <4> QED BY <1>6, <3>1, <4>1 DEF Owes
    <3> QED BY <3>2, <3>3
  <2>3. CASE x.touches.nodes \cup x.told \subseteq doubt'
    <3>1. EventOf(x)
      BY <1>3 DEF GivenSlot
    <3>2. Unsent(x) => x.event.id \in x.touches.nodes \cup x.told
      BY <3>1 DEF EventOf
    <3> QED BY <1>6, <2>3, <3>2 DEF Creates, Sends, Deletes, Owes, Unsent, IsEvent
  <2> QED BY <2>1, <2>2, <2>3
<1>7. Counted' /\ Ending' /\ Told' /\ Heard'
  <2>1. \A n \in DOMAIN db.nodes \ doubt' :
           /\ Creates(y, n) <=> Creates(x, n)
           /\ Sends(y, n) => y.event.ip = db.nodes[n]
           /\ n \notin doubt => Passes(x, y, n)
    BY <1>4, <1>6 DEF Passes
  <2>2. \A n : n \notin doubt' \cup DOMAIN db.nodes /\ Deletes(x, n) => Deletes(y, n)
    BY <1>6
  <2>3. \A n \in doubt \ doubt' :
           /\ n \in DOMAIN db.nodes /\ OneTask(n) /\ Sends(y, n)
           /\ \A r \in Slots : r # s => ~Sends(slots[r], n)
    OBVIOUS
  <2>4. OnlySlot(s, y)
    BY DEF y
  <2> HIDE DEF x
  <2> QED BY <2>1, <2>2, <2>3, <2>4, SlotStep DEF x
<1> QED BY <1>5, <1>7 DEF FlowInv, SlotsFlow

LEMMA FinishFlow ==
  ASSUME IndInv, FlowInv, NEW s \in Slots, Finish(s)
  PROVE  FlowInv'
  BY FreesFlow DEF Finish, Frees, OnlySlot

LEMMA CutFlow ==
  ASSUME IndInv, FlowInv, NEW s \in Slots, Cut(s)
  PROVE  FlowInv'
<1>1. OnlySlot(s, FreeSlot) /\ calm' = calm /\ doubt \subseteq doubt'
      /\ slots[s].touches.nodes \cup slots[s].told \subseteq doubt' /\ slots[s].pc # "free"
  BY DEF Cut, Frees, OnlySlot
<1> QED BY <1>1, FreesFlow

LEMMA RefusedFlow ==
  ASSUME IndInv, FlowInv, NEW s \in Slots, WriteRows(s), ~Keyed(db, slots[s].cmd, slots[s].listed)
  PROVE  FlowInv'
<1>1. OnlySlot(s, FreeSlot) /\ calm' = calm /\ doubt \subseteq doubt' /\ slots[s].pc = "write"
  BY DEF WriteRows, Frees, OnlySlot
<1> QED BY <1>1, FreesFlow DEF Written

LEMMA CheckFlow ==
  ASSUME IndInv, FlowInv, NEW s \in Slots, Check(s)
  PROVE  FlowInv'
<1> DEFINE x == slots[s]
           c == x.cmd
           old == CASE c.op \in {"UpdateDevice", "DeleteDevice"} -> GetParent(db, c.id)
                    [] c.op \in {"UpdateValue", "DeleteValue"} -> db.values[c.id].device
                    [] OTHER -> Null
           listed == IF c.op = "DeleteDevice" THEN GetValues(db, c.id) ELSE {}
<1>1. x.pc = "check" /\ UNCHANGED <<db, events, master, tasks, bounded, raced, calm, doubt>>
  BY DEF Check
<1>2. CASE ~Accepts(db, c)
  <2>1. OnlySlot(s, FreeSlot)
    BY <1>1, <1>2 DEF Check, Frees, OnlySlot
  <2>2. calm' = calm /\ doubt \subseteq doubt' /\ ~Written(slots[s]) /\ slots[s].pc # "free"
    BY <1>1 DEF Written
  <2> QED BY <2>1, <2>2, FreesFlow
<1>3. CASE Accepts(db, c)
  <2> DEFINE n1 == [x EXCEPT !.pc = "write"]
             n2 == [n1 EXCEPT !.old = old]
             n3 == [n2 EXCEPT !.listed = listed]
  <2>1. slots' = [slots EXCEPT ![s] = n3]
    <3>1. slots' = [slots EXCEPT ![s].pc = "write", ![s].old = old, ![s].listed = listed]
      BY <1>3 DEF Check
    <3> HIDE DEF old, listed
    <3>2. slots \in [Slots -> SlotType]
      BY DEF IndInv, TypeOK
    <3> QED BY <3>1, <3>2 DEF SlotType
  <2>2. x \in SlotType /\ Tables(db) /\ Related(db) /\ c \in Commands /\ IsCommand(c) /\ s \in Running
    BY <1>1, CommandsAre DEF IndInv, TypeOK, Running
  <2> HIDE DEF old, listed
  <2>3. \E y : /\ y = n3 /\ y.pc = "write" /\ y.cmd = c /\ y.touches = x.touches /\ y.told = x.told
               /\ y.event = x.event /\ y.old = old /\ y.listed = listed
    <3>1. n1.pc = "write" /\ n1 = [x EXCEPT !.pc = "write"]
      BY <2>2 DEF SlotType
    <3>2. n3.pc = "write" /\ n3.cmd = c /\ n3.touches = x.touches /\ n3.told = x.told
               /\ n3.event = x.event /\ n3.old = old /\ n3.listed = listed
      BY <2>2 DEF SlotType
    <3> QED BY <3>2
  <2>4. PICK y : /\ y = n3 /\ y.pc = "write" /\ y.cmd = c /\ y.touches = x.touches /\ y.told = x.told
                 /\ y.event = x.event /\ y.old = old /\ y.listed = listed
    BY <2>3
  <2>5. OnlySlot(s, y)
    BY <1>1, <2>1, <2>4 DEF OnlySlot
  <2> HIDE DEF n1, n2, n3
  <2>6. SlotsFlow /\ calm \in BOOLEAN /\ GivenSlot(x) /\ AddressedSlot(x)
    BY <2>2 DEF FlowInv, SlotsFlow, FlowTypes, Given, Addressed
  <2>7. GivenSlot(y) /\ AddressedSlot(y)
    BY <1>1, <2>4, <2>6 DEF GivenSlot, EventOf, Unsent, Written, AddressedSlot
  <2>8. ASSUME calm
        PROVE  CalmSlot(y) /\ \A r \in Running : r # s => ~Meets(slots[r].touches, y.touches)
    <3>1. CalmSlot(x) /\ \A r \in Running : r # s => ~Meets(slots[r].touches, x.touches)
      BY <2>2, <2>6, <2>8 DEF SlotsFlow, CalmSlots
    <3>2. Grounded(x, db)
      BY <3>1 DEF CalmSlot
    <3>3. Grounded(y, db)
      <4>1. /\ c.op \in {"UpdateDevice", "DeleteDevice"} => y.old = GetParent(db, c.id)
            /\ c.op \in {"UpdateValue", "DeleteValue"} => y.old = db.values[c.id].device
            /\ c.op = "DeleteDevice" => y.listed = GetValues(db, c.id)
        BY <2>4 DEF old, listed
      <4> HIDE DEF x
      <4> QED BY <1>1, <1>3, <2>2, <2>4, <3>2, <4>1, CheckedGrounded
    <3>4. Left(y, db) = x.touches.nodes
      BY <2>4 DEF Left
    <3> QED BY <2>4, <3>1, <3>3, <3>4 DEF CalmSlot
  <2>9. ~calm => y.touches.nodes \ y.told \subseteq doubt
    BY <2>2, <2>4, <2>6 DEF SlotsFlow, Doubted, DoubtedSlot
  <2>10. ~Unsent(y) /\ ~Written(y) /\ ~Unsent(x) /\ ~Written(x)
    BY <1>1, <2>4 DEF Unsent, Written
  <2>11. \A e \in Pending :
             /\ e.ip \in y.touches.ips => ~calm /\ e.id \in doubt
             /\ y.cmd.op = "UpdateNode" /\ y.cmd.id = e.id => e.id \in doubt
    <3>1. s \in Unwritten
      BY <1>1 DEF Unwritten
    <3> QED BY <2>4, <2>6, <3>1 DEF SlotsFlow, Creations, Awaits
  <2>12. y.cmd.op = "CreateNode" => NodesWithIp(db, y.cmd.set) = {}
    <3> SUFFICES ASSUME c.op = "CreateNode" PROVE NodesWithIp(db, c.set) = {}
      BY <2>4
    <3>1. First(NodesWithIp(db, c.set)) = Null
      BY <1>3 DEF Accepts, NodeCanBeCreated, GetByIp
    <3>2. NodesWithIp(db, c.set) \in SUBSET (Nat \ {0})
      BY <2>2, LiveTypes DEF NodesWithIp
    <3> QED BY <3>1, <3>2, FirstFacts DEF Null
  <2>13. SlotsFlow'
    BY <1>1, <2>5, <2>6, <2>7, <2>8, <2>9, <2>10, <2>11, <2>12, SlotFlow
  <2>14. Counted' /\ Ending' /\ Told' /\ Heard'
    <3>1. \A n \in DOMAIN db.nodes \ doubt' :
           /\ Creates(y, n) <=> Creates(x, n)
           /\ Sends(y, n) => y.event.ip = db.nodes[n]
           /\ n \notin doubt => Passes(x, y, n)
      BY <1>1, <2>4, <2>10 DEF Creates, Sends, Passes, Owes
    <3>2. \A n : n \notin doubt' \cup DOMAIN db.nodes /\ Deletes(x, n) => Deletes(y, n)
      BY <2>10 DEF Deletes
    <3>3. \A n \in doubt \ doubt' :
           /\ n \in DOMAIN db.nodes /\ OneTask(n) /\ Sends(y, n)
           /\ \A r \in Slots : r # s => ~Sends(slots[r], n)
      BY <1>1
    <3> HIDE DEF x
    <3> QED BY <2>5, <3>1, <3>2, <3>3, SlotStep DEF x
  <2> QED BY <2>13, <2>14 DEF FlowInv, SlotsFlow
<1> QED BY <1>2, <1>3

\* The row of the node that was looked up by an address has it.
LEMMA FoundByIp ==
  ASSUME Tables(db), NEW ip, GetByIp(db, ip) # Null
  PROVE  GetByIp(db, ip) \in NodesWithIp(db, ip)
<1>1. NodesWithIp(db, ip) \in SUBSET (Nat \ {0})
  BY LiveTypes DEF NodesWithIp
<1> QED BY <1>1, FirstFacts DEF GetByIp, Null

\* The node that a command goes on to read.
ToTell(x) == IF x.pc = "read" THEN FirstTold(x) ELSE SecondTold(x)

\* Nothing is read: there is nothing to announce, or it is in doubt.
LEMMA ReadNothingFlow ==
  ASSUME IndInv, FlowInv, NEW s \in Slots, ReadNode(s), ToTell(slots[s]) = Null
  PROVE  FlowInv'
<1> DEFINE x == slots[s]
           pc == IF x.pc = "read" THEN "read2" ELSE "end"
<1>1. x.pc \in {"read", "read2"} /\ UNCHANGED <<db, events, master, tasks, bounded, raced, calm>>
  BY DEF ReadNode
<1>2. doubt \subseteq doubt'
  <2>1. TasksOf(Null) = {}
    BY DEF TasksOf
  <2>2. Cardinality(TasksOf(Null)) # 1
    BY <2>1, FS_EmptySet
  <2> QED BY <2>2 DEF ReadNode, ToTell, FirstTold, SecondTold
<1>3. x \in SlotType /\ Tables(db) /\ Related(db) /\ x.cmd \in Commands /\ IsCommand(x.cmd) /\ s \in Running
      /\ slots \in [Slots -> SlotType] /\ (x.pc = "read" => x.cmd.op # "DeleteNode")
  BY <1>1, CommandsAre DEF IndInv, TypeOK, Running
<1>4. slots' = [slots EXCEPT ![s] = [slots[s] EXCEPT !.pc = pc]]
  BY DEF ReadNode, ToTell, FirstTold, SecondTold
<1>5. \E y : /\ slots' = [slots EXCEPT ![s] = y] /\ y.pc = pc /\ y.cmd = x.cmd /\ y.touches = x.touches
             /\ y.told = x.told /\ y.old = x.old
  <2> DEFINE new == [x EXCEPT !.pc = pc]
  <2>1. new.pc = pc /\ new.cmd = x.cmd /\ new.touches = x.touches /\ new.told = x.told /\ new.old = x.old
    BY <1>3 DEF SlotType
  <2> QED BY <1>4, <2>1
<1>6. PICK y : /\ slots' = [slots EXCEPT ![s] = y] /\ y.pc = pc /\ y.cmd = x.cmd /\ y.touches = x.touches
               /\ y.told = x.told /\ y.old = x.old
  BY <1>5
<1>7. OnlySlot(s, y) /\ y.pc \in {"read2", "end"} /\ ~Unsent(y) /\ ~Unsent(x) /\ Written(y) /\ Written(x)
  BY <1>1, <1>6 DEF OnlySlot, Unsent, Written
<1>8. SlotsFlow /\ calm \in BOOLEAN /\ GivenSlot(x) /\ AddressedSlot(x)
  BY <1>3 DEF FlowInv, SlotsFlow, FlowTypes, Given, Addressed
<1>9. GivenSlot(y) /\ AddressedSlot(y)
  BY <1>6, <1>7, <1>8 DEF GivenSlot, EventOf, AddressedSlot
<1>10. ASSUME calm
       PROVE  /\ CalmSlot(y) /\ \A r \in Running : r # s => ~Meets(slots[r].touches, y.touches)
              /\ x.pc = "read" /\ x.cmd.op = "CreateNode" => x.touches.nodes = {Null}
  <2>1. CalmSlot(x) /\ \A r \in Running : r # s => ~Meets(slots[r].touches, x.touches)
    BY <1>3, <1>8, <1>10 DEF SlotsFlow, CalmSlots
  <2>2. Grounded(y, db)
    <3>1. Grounded(x, db) /\ y.cmd = x.cmd /\ y.old = x.old /\ y.touches = x.touches
      BY <1>6, <2>1 DEF CalmSlot
    <3> HIDE DEF x
    <3> QED BY <1>3, <1>7, <3>1, GroundedLater
  <2>3. Null \notin DOMAIN db.nodes
    BY <1>3, RowTypes
  <2>4. /\ x.touches.nodes \cap DOMAIN db.nodes \subseteq x.told \cup Left(y, db)
        /\ x.pc = "read" /\ x.cmd.op = "CreateNode" => x.touches.nodes = {Null}
    <3>1. CASE x.pc = "read"
      <4>1. y.pc \in {"send", "read2"} /\ y.cmd = x.cmd /\ y.old = x.old /\ Grounded(x, db)
            /\ FirstTold(x) = Null /\ x.cmd.op # "DeleteNode"
        BY <1>3, <1>6, <2>1, <3>1 DEF CalmSlot, ToTell
      <4> HIDE DEF x
      <4>2. /\ x.touches.nodes \cap DOMAIN db.nodes \subseteq {FirstTold(x)} \cup Left(y, db)
            /\ x.cmd.op = "CreateNode" => x.touches.nodes = {FirstTold(x)}
        BY <1>3, <3>1, <4>1, GroundedFirst
      <4> QED BY <2>3, <4>1, <4>2
    <3>2. CASE x.pc = "read2"
      <4>1. x.touches.nodes \cap DOMAIN db.nodes \subseteq x.told \cup Left(x, db) /\ Grounded(x, db)
            /\ SecondTold(x) = Null
        BY <2>1, <3>2 DEF CalmSlot, ToTell
      <4> HIDE DEF x
      <4>2. x.touches.nodes \cap DOMAIN db.nodes \subseteq x.told \cup {SecondTold(x)}
        BY <1>3, <3>2, <4>1, GroundedSecond
      <4> QED BY <2>3, <3>2, <4>1, <4>2
    <3> QED BY <1>1, <3>1, <3>2
  <2> QED BY <1>6, <2>1, <2>2, <2>4 DEF CalmSlot
<1>11. ~calm => y.touches.nodes \ y.told \subseteq doubt
  BY <1>3, <1>6, <1>8 DEF SlotsFlow, Doubted, DoubtedSlot
<1>12. SlotsFlow'
  BY <1>1, <1>2, <1>6, <1>7, <1>8, <1>9, <1>10, <1>11, SlotFlow
<1>13. Counted' /\ Ending' /\ Told' /\ Heard'
  <2>1. ASSUME NEW n \in DOMAIN db.nodes \ doubt' PROVE ~Creates(x, n)
    <3>1. n # Null
      BY <1>3, RowTypes
    <3>2. CASE calm
      BY <1>10, <3>1, <3>2, <1>7 DEF Creates, Unsent
    <3>3. CASE ~calm
      <4>1. x.pc = "read" => x.touches.nodes \subseteq doubt
        BY <1>6, <1>8, <1>11, <3>3 DEF GivenSlot
      <4> QED BY <1>2, <1>7, <4>1 DEF Creates, Unsent
    <3> QED BY <3>2, <3>3
  <2>2. \A n \in DOMAIN db.nodes \ doubt' :
         /\ Creates(y, n) <=> Creates(x, n)
         /\ Sends(y, n) => y.event.ip = db.nodes[n]
         /\ n \notin doubt => Passes(x, y, n)
    BY <1>6, <1>7, <2>1 DEF Creates, Sends, Passes, Owes, Unsent
  <2>3. \A n : n \notin doubt' \cup DOMAIN db.nodes /\ Deletes(x, n) => Deletes(y, n)
    BY <1>7 DEF Deletes
  <2>4. \A n \in doubt \ doubt' :
         /\ n \in DOMAIN db.nodes /\ OneTask(n) /\ Sends(y, n)
         /\ \A r \in Slots : r # s => ~Sends(slots[r], n)
    BY <1>2
  <2> HIDE DEF x
  <2> QED BY <1>7, <2>2, <2>3, <2>4, SlotStep DEF x
<1> QED BY <1>12, <1>13 DEF FlowInv, SlotsFlow

\* What a command reads and what it makes of it.
LEMMA ReadFacts ==
  ASSUME IndInv, FlowInv, NEW s \in Slots, ReadNode(s), ToTell(slots[s]) # Null
  PROVE  LET x == slots[s]
             n == ToTell(x)
             type == IF x.cmd.op = "CreateNode" THEN "Create" ELSE "Update"
         IN  /\ x.pc \in {"read", "read2"} /\ x \in SlotType /\ IsCommand(x.cmd) /\ s \in Running
             /\ UNCHANGED <<db, events, master, tasks, calm>>
             /\ n \in DOMAIN db.nodes /\ n \in Nat /\ n < db.next.node /\ db.nodes[n] \in Nat
             /\ x.cmd.op # "DeleteNode"
             /\ x.cmd.op = "CreateNode" => x.pc = "read" /\ db.nodes[n] = x.cmd.set
             /\ \/ doubt \subseteq doubt' /\ (~calm => n \in doubt')
                \/ /\ doubt' = doubt \ {n} /\ Running = {s} /\ Pending = {} /\ type = "Update"
                   /\ Cardinality(TasksOf(n)) = 1
             /\ \E y : /\ slots' = [slots EXCEPT ![s] = y] /\ y.cmd = x.cmd /\ y.old = x.old
                       /\ y.touches = x.touches /\ y.told = x.told \cup {n}
                       /\ y.pc = (IF x.pc = "read" THEN "send" ELSE "send2")
                       /\ y.event = [type |-> type, id |-> n, ip |-> db.nodes[n]]
<1> DEFINE x == slots[s]
           n == ToTell(x)
           type == IF x.cmd.op = "CreateNode" THEN "Create" ELSE "Update"
           pc == IF x.pc = "read" THEN "send" ELSE "send2"
           told == x.told \cup {n}
           event == ConfigEvent(type, n)
           heals == Running = {s} /\ Pending = {} /\ type = "Update" /\ Cardinality(TasksOf(n)) = 1
<1>1. x.pc \in {"read", "read2"} /\ UNCHANGED <<db, events, master, tasks, calm>>
  BY DEF ReadNode
<1>2. x \in SlotType /\ Tables(db) /\ Related(db) /\ x.cmd \in Commands /\ IsCommand(x.cmd) /\ s \in Running
      /\ (x.pc = "read" => x.cmd.op # "DeleteNode")
  BY <1>1, CommandsAre DEF IndInv, TypeOK, Running
<1>3. n = IF x.pc = "read" THEN NodeToTell(x.cmd, x.old, x.told) ELSE SecondToTell(x.cmd, x.old, x.told)
  BY DEF ToTell, FirstTold, SecondTold
<1>4. n \in DOMAIN db.nodes
  BY <1>2, <1>3, NodesTold
<1>5. n \in Nat /\ n < db.next.node /\ db.nodes[n] \in Nat
  BY <1>2, <1>4, RowTypes DEF Tables, IsTable
<1>6. x.cmd.op # "DeleteNode" /\ (x.cmd.op = "CreateNode" => x.pc = "read")
  BY <1>1, <1>2, <1>3 DEF SecondToTell
<1>7. x.cmd.op = "CreateNode" => db.nodes[n] = x.cmd.set
  <2> SUFFICES ASSUME x.cmd.op = "CreateNode" PROVE db.nodes[n] = x.cmd.set
    OBVIOUS
  <2>1. n = GetByIp(db, x.cmd.set)
    BY <1>3, <1>6 DEF NodeToTell
  <2> QED BY <1>2, <2>1, FoundByIp DEF NodesWithIp
<1>8. \/ doubt \subseteq doubt' /\ (~calm => n \in doubt')
      \/ doubt' = doubt \ {n} /\ heals
  <2>1. doubt' = CASE heals -> doubt \ {n}
                   [] ~heals /\ calm -> doubt
                   [] OTHER -> doubt \cup {n}
    BY <1>3 DEF ReadNode
  <2> HIDE DEF heals
  <2> QED BY <2>1
<1>9. slots' = [slots EXCEPT ![s] = [x EXCEPT !.event = event, !.told = told, !.pc = pc]]
  <2>1. slots' = [slots EXCEPT ![s] = [@ EXCEPT !.event = event, !.told = told, !.pc = pc]]
    BY <1>3 DEF ReadNode
  <2> QED BY <2>1
<1>10. \E y : /\ slots' = [slots EXCEPT ![s] = y] /\ y.cmd = x.cmd /\ y.old = x.old
              /\ y.touches = x.touches /\ y.told = told /\ y.pc = pc /\ y.event = event
  <2> DEFINE new == [x EXCEPT !.event = event, !.told = told, !.pc = pc]
  <2>1. /\ new.cmd = x.cmd /\ new.old = x.old /\ new.touches = x.touches /\ new.told = told
        /\ new.pc = pc /\ new.event = event
    <3> HIDE DEF event, told, pc, n
    <3> QED BY <1>2 DEF SlotType
  <2> QED BY <1>9, <2>1
<1>11. event = [type |-> type, id |-> n, ip |-> db.nodes[n]]
  BY DEF ConfigEvent
<1>12. \E y : /\ slots' = [slots EXCEPT ![s] = y] /\ y.cmd = x.cmd /\ y.old = x.old
              /\ y.touches = x.touches /\ y.told = x.told \cup {n}
              /\ y.pc = (IF x.pc = "read" THEN "send" ELSE "send2")
              /\ y.event = [type |-> type, id |-> n, ip |-> db.nodes[n]]
  BY <1>10, <1>11
<1> HIDE DEF event, told, pc
<1> QED BY <1>1, <1>2, <1>4, <1>5, <1>6, <1>7, <1>8, <1>12

LEMMA ReadSomeFlow ==
  ASSUME IndInv, FlowInv, NEW s \in Slots, ReadNode(s), ToTell(slots[s]) # Null
  PROVE  FlowInv'
<1> DEFINE x == slots[s]
           type == IF x.cmd.op = "CreateNode" THEN "Create" ELSE "Update"
<1>0. \E n : n = ToTell(x)
  OBVIOUS
<1>1. PICK n : n = ToTell(x)
  BY <1>0
<1>2. /\ x.pc \in {"read", "read2"} /\ x \in SlotType /\ IsCommand(x.cmd) /\ s \in Running
      /\ UNCHANGED <<db, events, master, tasks, calm>>
      /\ n \in DOMAIN db.nodes /\ n \in Nat /\ n < db.next.node /\ db.nodes[n] \in Nat
      /\ x.cmd.op # "DeleteNode"
      /\ x.cmd.op = "CreateNode" => x.pc = "read" /\ db.nodes[n] = x.cmd.set
      /\ \/ doubt \subseteq doubt' /\ (~calm => n \in doubt')
         \/ /\ doubt' = doubt \ {n} /\ Running = {s} /\ Pending = {} /\ type = "Update"
            /\ Cardinality(TasksOf(n)) = 1
      /\ \E y : /\ slots' = [slots EXCEPT ![s] = y] /\ y.cmd = x.cmd /\ y.old = x.old
                /\ y.touches = x.touches /\ y.told = x.told \cup {n}
                /\ y.pc = (IF x.pc = "read" THEN "send" ELSE "send2")
                /\ y.event = [type |-> type, id |-> n, ip |-> db.nodes[n]]
  BY <1>1, ReadFacts
<1>3. PICK y : /\ slots' = [slots EXCEPT ![s] = y] /\ y.cmd = x.cmd /\ y.old = x.old
               /\ y.touches = x.touches /\ y.told = x.told \cup {n}
               /\ y.pc = (IF x.pc = "read" THEN "send" ELSE "send2")
               /\ y.event = [type |-> type, id |-> n, ip |-> db.nodes[n]]
  BY <1>2
<1>4. OnlySlot(s, y) /\ y.pc \in {"send", "send2"} /\ Unsent(y) /\ ~Unsent(x) /\ Written(y) /\ Written(x)
  BY <1>2, <1>3 DEF OnlySlot, Unsent, Written
<1>5. SlotsFlow /\ calm \in BOOLEAN /\ GivenSlot(x) /\ AddressedSlot(x) /\ Tables(db) /\ Related(db)
      /\ CreatesAlone(x)
  BY <1>2 DEF FlowInv, SlotsFlow, FlowTypes, Given, Addressed, Creations, IndInv, TypeOK
<1>6. y.event.type = type /\ y.event.id = n /\ y.event.ip = db.nodes[n]
  BY <1>3
<1>7. GivenSlot(y) /\ AddressedSlot(y)
  <2>1. \A m \in y.touches.nodes \cup y.told : m < db.next.node
    BY <1>2, <1>3, <1>5 DEF GivenSlot
  <2>2. EventOf(y)
    <3>1. y.event \in EventRows
      BY <1>2, <1>3 DEF EventRows
    <3> QED BY <1>2, <1>3, <1>6, <3>1 DEF EventOf
  <2>3. Old(y.event)
    BY <1>2, <1>6 DEF Old
  <2>4. AddressedSlot(y)
    BY <1>3, <1>5 DEF AddressedSlot
  <2> QED BY <1>4, <2>1, <2>2, <2>3, <2>4 DEF GivenSlot
<1>8. ASSUME calm
      PROVE  /\ CalmSlot(y) /\ \A r \in Running : r # s => ~Meets(slots[r].touches, y.touches)
             /\ x.cmd.op = "CreateNode" => x.touches.nodes = {n}
             /\ n \in x.touches.nodes
  <2>1. CalmSlot(x) /\ \A r \in Running : r # s => ~Meets(slots[r].touches, x.touches)
    BY <1>2, <1>5, <1>8 DEF SlotsFlow, CalmSlots
  <2>2. Grounded(y, db)
    <3>1. Grounded(x, db)
      BY <2>1 DEF CalmSlot
    <3> HIDE DEF x
    <3> QED BY <1>2, <1>3, <1>4, <3>1, GroundedLater
  <2>3. /\ n \in x.touches.nodes
        /\ x.touches.nodes \cap DOMAIN db.nodes \subseteq x.told \cup {n} \cup Left(y, db)
        /\ x.cmd.op = "CreateNode" => x.touches.nodes = {n}
    <3>1. CASE x.pc = "read"
      <4>1. y.pc \in {"send", "read2"} /\ y.cmd = x.cmd /\ y.old = x.old /\ Grounded(x, db)
            /\ FirstTold(x) = n /\ n # Null
        BY <1>1, <1>3, <2>1, <3>1 DEF CalmSlot, ToTell
      <4> HIDE DEF x
      <4>2. /\ n \in x.touches.nodes
            /\ x.touches.nodes \cap DOMAIN db.nodes \subseteq {n} \cup Left(y, db)
            /\ x.cmd.op = "CreateNode" => x.touches.nodes = {n}
        BY <1>2, <1>5, <3>1, <4>1, GroundedFirst
      <4> QED BY <4>2
    <3>2. CASE x.pc = "read2"
      <4>1. x.touches.nodes \cap DOMAIN db.nodes \subseteq x.told \cup Left(x, db) /\ Grounded(x, db)
            /\ SecondTold(x) = n /\ n # Null
        BY <1>1, <2>1, <3>2 DEF CalmSlot, ToTell
      <4> HIDE DEF x
      <4>2. /\ n \in x.touches.nodes
            /\ x.touches.nodes \cap DOMAIN db.nodes \subseteq x.told \cup {n}
        BY <1>5, <1>2, <3>2, <4>1, GroundedSecond
      <4> QED BY <1>2, <3>2, <4>2
    <3> QED BY <1>2, <3>1, <3>2
  <2> QED BY <1>3, <2>1, <2>2, <2>3 DEF CalmSlot
<1>9. ~calm => y.touches.nodes \ y.told \subseteq doubt'
  BY <1>2, <1>3, <1>5 DEF SlotsFlow, Doubted, DoubtedSlot
<1>10. ~calm /\ y.cmd.op = "CreateNode" => y.event.id \in doubt'
  BY <1>2, <1>3, <1>6
<1>11. y.cmd.op = "CreateNode" =>
         \A m \in NodesWithIp(db, y.cmd.set) \ doubt' : calm /\ m \in y.touches.nodes
  BY <1>2, <1>3, <1>5 DEF CreatesAlone
<1>12. SlotsFlow'
  <2>1. doubt \subseteq doubt' \/ (Running \subseteq {s} /\ Pending = {})
    BY <1>2
  <2>2. calm' = calm /\ y.pc \notin {"check", "write"}
    BY <1>2, <1>4
  <2> HIDE DEF x
  <2> QED BY <1>4, <1>5, <1>7, <1>8, <1>9, <1>10, <1>11, <2>1, <2>2, SlotFlow
<1>13. ASSUME NEW m \in DOMAIN db.nodes \ doubt'
       PROVE  Creates(y, m) <=> Creates(x, m)
  <2>1. CASE x.cmd.op # "CreateNode"
    BY <1>3, <2>1 DEF Creates
  <2>2. CASE x.cmd.op = "CreateNode"
    <3>1. x.pc = "read" /\ y.pc = "send" /\ y.cmd.op = "CreateNode" /\ doubt \subseteq doubt'
      BY <1>2, <1>3, <2>2
    <3>2. (Creates(x, m) <=> m \in x.touches.nodes) /\ (Creates(y, m) <=> m = n)
      BY <1>6, <2>2, <3>1 DEF Creates
    <3>3. ~calm => m # n /\ m \notin x.touches.nodes
      <4>1. ~calm => x.touches.nodes \ x.told \subseteq doubt /\ n \in doubt'
        BY <1>2, <1>5, <2>2 DEF SlotsFlow, Doubted, DoubtedSlot
      <4>2. x.told = {}
        BY <1>5, <3>1 DEF GivenSlot
      <4> QED BY <1>13, <3>1, <4>1, <4>2
    <3> QED BY <1>8, <2>2, <3>2, <3>3
  <2> QED BY <2>1, <2>2
<1>14. \A m : Sends(y, m) => m = n /\ y.event.ip = db.nodes[m]
  BY <1>6 DEF Sends, IsEvent
<1>15. ASSUME NEW m \in DOMAIN db.nodes \ doubt', m \notin doubt
       PROVE  Passes(x, y, m)
  <2> SUFFICES ASSUME Owes(x, m), ~Owes(y, m), ~Sends(y, m)
               PROVE  Has(Stream, "Update", m) = {} /\ TasksOf(m) = {}
    BY <1>4 DEF Passes, Sends
  <2>1. m \in x.touches.nodes
    BY DEF Owes
  <2>2. m = n
    BY <1>3, <1>4 DEF Owes
  <2>3. type = "Create"
    BY <1>4, <1>6, <2>2 DEF Sends, IsEvent
  <2>4. Creates(x, m)
    BY <1>2, <2>1, <2>3 DEF Creates
  <2>5. Creators(m) # {}
    BY <2>4 DEF Creators
  <2>6. OneTask(m)
    BY <1>15 DEF FlowInv, Counted
  <2> QED BY <2>5, <2>6 DEF OneTask
<1>16. ASSUME NEW m \in doubt \ doubt'
       PROVE  /\ m \in DOMAIN db.nodes /\ OneTask(m) /\ Sends(y, m)
              /\ \A r \in Slots : r # s => ~Sends(slots[r], m)
  <2>1. m = n /\ Running = {s} /\ Pending = {} /\ type = "Update" /\ Cardinality(TasksOf(n)) = 1
    BY <1>2
  <2>2. Sends(y, m)
    BY <1>4, <1>6, <2>1 DEF Sends, IsEvent
  <2>3. \A r \in Slots : r # s => slots[r].pc = "free"
    BY <2>1 DEF Running
  <2>4. \A r \in Slots : r # s => ~Sends(slots[r], m)
    BY <2>3 DEF Sends, Unsent
  <2>5. Creators(m) = {}
    BY <2>1, <2>3 DEF Creators, Creates
  <2>6. Has(Stream, "Create", m) = {}
    <3>1. \A i \in DOMAIN Stream : Stream[i] \in Range(Stream)
      BY DEF Range
    <3> QED BY <2>1, <3>1 DEF Pending, Has, IsEvent
  <2>7. \E t \in TaskSlots : TasksOf(m) = {t}
    <3>1. TasksOf(m) \subseteq TaskSlots
      BY DEF TasksOf
    <3>2. IsFiniteSet(TasksOf(m))
      BY <3>1, ConfigCommandsAssumption, FS_Subset
    <3>3. \E t : TasksOf(m) = {t}
      BY <2>1, <3>2, FS_Singleton
    <3> QED BY <3>1, <3>3
  <2> QED BY <1>2, <2>1, <2>2, <2>4, <2>5, <2>6, <2>7 DEF OneTask
<1>17. Counted' /\ Ending' /\ Told' /\ Heard'
  <2>1. \A m : m \notin doubt' \cup DOMAIN db.nodes /\ Deletes(x, m) => Deletes(y, m)
    BY <1>4 DEF Deletes
  <2>2. \A m \in DOMAIN db.nodes \ doubt' :
         /\ Creates(y, m) <=> Creates(x, m)
         /\ Sends(y, m) => y.event.ip = db.nodes[m]
         /\ m \notin doubt => Passes(x, y, m)
    BY <1>13, <1>14, <1>15
  <2> HIDE DEF x
  <2> QED BY <1>4, <1>16, <2>1, <2>2, SlotStep DEF x
<1> QED BY <1>12, <1>17 DEF FlowInv, SlotsFlow

LEMMA ReadFlow ==
  ASSUME IndInv, FlowInv, NEW s \in Slots, ReadNode(s)
  PROVE  FlowInv'
  BY ReadNothingFlow, ReadSomeFlow

LEMMA TouchesAre ==
  ASSUME Tables(db), Related(db), NEW c, IsCommand(c), Admitted(c)
  PROVE  /\ \A n \in Touches(c).nodes : n < db.next.node
         /\ c.op = "CreateNode" \/ (c.op = "UpdateNode" /\ c.set # Null) => c.set \in Touches(c).ips
         /\ c.op = "DeleteNode" => c.id \in Touches(c).nodes
         /\ c.op = "UpdateNode" => c.id \in DOMAIN db.nodes /\ db.nodes[c.id] \in Touches(c).ips
<1> DEFINE node(n) == IF n \in DOMAIN db.nodes THEN {n} ELSE {}
           parent(d) == node(NodeOfDevice(db, d))
           home == NodeOfDevice(db, db.values[c.id].device)
<1>1. \A n \in DOMAIN db.nodes : n < db.next.node
  BY RowTypes DEF Tables, IsTable
<1>2. db.next.node \in Nat \ {0}
  BY RowTypes DEF Tables
<1>3. \A n : \A m \in node(n) : m < db.next.node
  BY <1>1
<1>4. \A d : \A m \in parent(d) : m < db.next.node
  BY <1>3
<1>5. home < db.next.node
  <2>1. home \in DOMAIN db.nodes \cup {Null}
    BY NodesFound
  <2> QED BY <1>1, <1>2, <2>1 DEF Null
<1>6. \A n \in Touches(c).nodes : n < db.next.node
  <2> HIDE DEF node, parent, home
  <2>1. CASE c.op = "CreateNode"
    <3>1. Touches(c) = [nodes |-> {}, ips |-> {c.set}]
      BY <2>1 DEF Touches
    <3> QED BY <3>1
  <2>2. CASE c.op = "UpdateNode"
    <3>1. Touches(c).nodes = node(c.id)
      BY <2>2 DEF Touches, node
    <3> QED BY <1>3, <3>1
  <2>3. CASE c.op = "DeleteNode"
    <3>1. Touches(c).nodes = node(c.id)
      BY <2>3 DEF Touches, node
    <3> QED BY <1>3, <3>1
  <2>4. CASE c.op \in {"CreateDevice", "UpdateDevice", "DeleteDevice"}
    <3>1. Touches(c).nodes = parent(c.id) \cup node(c.to)
      BY <2>4 DEF Touches, node, parent
    <3> QED BY <1>3, <1>4, <3>1
  <2>5. CASE c.op = "CreateValue"
    <3>1. Touches(c).nodes = parent(c.to)
      BY <2>5 DEF Touches, node, parent
    <3> QED BY <1>4, <3>1
  <2>6. CASE c.op \in {"UpdateValue", "DeleteValue"}
    <3>1. Touches(c).nodes = {home} \cup parent(c.to)
      BY <2>6 DEF Touches, node, parent, home
    <3> QED BY <1>4, <1>5, <3>1
  <2> QED BY <2>1, <2>2, <2>3, <2>4, <2>5, <2>6 DEF IsCommand, Operations
<1>7. c.op = "CreateNode" \/ (c.op = "UpdateNode" /\ c.set # Null) => c.set \in Touches(c).ips
  BY TouchesCover DEF Covers
<1>8. c.op = "DeleteNode" => c.id \in Touches(c).nodes
  <2> SUFFICES ASSUME c.op = "DeleteNode" PROVE c.id \in Touches(c).nodes
    OBVIOUS
  <2>1. c.id \in DOMAIN db.nodes
    BY DEF Admitted, NodeCreation, NodeUpdate, NodeDeletion, DeviceCreation, DeviceChange, ValueCommand
  <2> QED BY <2>1 DEF Touches
<1>9. c.op = "UpdateNode" => c.id \in DOMAIN db.nodes /\ db.nodes[c.id] \in Touches(c).ips
  <2> SUFFICES ASSUME c.op = "UpdateNode"
               PROVE  c.id \in DOMAIN db.nodes /\ db.nodes[c.id] \in Touches(c).ips
    OBVIOUS
  <2>1. c.id \in DOMAIN db.nodes
    BY DEF Admitted, NodeCreation, NodeUpdate, NodeDeletion, DeviceCreation, DeviceChange, ValueCommand,
           NodeCanBeUpdated
  <2>2. Touches(c).ips = {db.nodes[m] : m \in {c.id}} \cup ({c.set} \ {Null})
    BY <2>1 DEF Touches
  <2> QED BY <2>1, <2>2
<1> QED BY <1>6, <1>7, <1>8, <1>9

LEMMA IssueFlow ==
  ASSUME IndInv, FlowInv, NEW s \in Slots, NEW c \in Commands, Issue(s, c)
  PROVE  FlowInv'
<1> DEFINE mine == Touches(c)
           met == {r \in Running : Meets(slots[r].touches, mine)}
           awaited == {e \in Pending : e.ip \in mine.ips}
           early == c.op = "CreateNode" /\ master.pc = "start"
           near == UNION {slots[r].touches.nodes : r \in Running}
           ids == {e.id : e \in awaited}
           x == slots[s]
<1>1. /\ x.pc = "free" /\ Admitted(c)
      /\ slots' = [slots EXCEPT ![s] = NewSlot(c, mine)]
      /\ UNCHANGED <<db, events, master, tasks>>
  BY DEF Issue
<1>2. /\ calm' = ((calm \/ Running = {}) /\ met = {} /\ awaited = {} /\ ~early)
      /\ doubt' = IF calm' THEN doubt
                  ELSE doubt \cup mine.nodes \cup near \cup ids
  BY DEF Issue
<1>3. Tables(db) /\ Related(db) /\ IsCommand(c) /\ SlotsFlow /\ calm \in BOOLEAN
  BY CommandsAre DEF IndInv, TypeOK, FlowInv, SlotsFlow, FlowTypes
<1>4. mine \in [nodes : SUBSET Nat, ips : SUBSET Nat]
  BY <1>3, TouchesType
<1>5. \E y : /\ y = NewSlot(c, mine) /\ y.cmd = c /\ y.pc = "check" /\ y.touches = mine /\ y.told = {}
  BY <1>4, NewSlotType
<1>6. PICK y : /\ y = NewSlot(c, mine) /\ y.cmd = c /\ y.pc = "check" /\ y.touches = mine /\ y.told = {}
  BY <1>5
<1>7. OnlySlot(s, y) /\ ~Unsent(y) /\ ~Written(y) /\ ~Unsent(x) /\ ~Written(x)
  BY <1>1, <1>6 DEF OnlySlot, Unsent, Written
<1>8. GivenSlot(y) /\ AddressedSlot(y)
  <2>1. /\ \A n \in mine.nodes : n < db.next.node
        /\ c.op = "CreateNode" \/ (c.op = "UpdateNode" /\ c.set # Null) => c.set \in mine.ips
        /\ c.op = "DeleteNode" => c.id \in mine.nodes
    BY <1>1, <1>3, TouchesAre
  <2> HIDE DEF mine
  <2> QED BY <1>6, <1>7, <2>1 DEF GivenSlot, EventOf, AddressedSlot
<1>9. Grounded(y, db)
  <2>1. IsCommand(y.cmd) /\ Admitted(y.cmd) /\ y.touches = Touches(y.cmd)
    BY <1>1, <1>3, <1>6
  <2> QED BY <1>3, <1>6, <2>1, AdmittedGrounded
<1>10. ASSUME calm'
       PROVE  CalmSlot(y) /\ \A r \in Running : r # s => ~Meets(slots[r].touches, y.touches)
  <2>1. met = {} /\ ~early
    BY <1>2, <1>10
  <2>2. \A r \in Running : ~Meets(slots[r].touches, mine)
    BY <2>1
  <2>3. Left(y, db) = y.touches.nodes
    BY <1>6 DEF Left
  <2> HIDE DEF mine
  <2> QED BY <1>6, <1>9, <2>1, <2>2, <2>3 DEF CalmSlot
<1>11. ~calm' => /\ y.touches.nodes \subseteq doubt'
                 /\ \A r \in Running : slots[r].touches.nodes \subseteq doubt'
  BY <1>2, <1>6
<1>12. doubt \subseteq doubt' /\ calm' \in BOOLEAN /\ (calm' => calm \/ Running \subseteq {s})
  BY <1>2
<1>13. ASSUME NEW e \in Pending
       PROVE  /\ e.ip \in y.touches.ips => ~calm' /\ e.id \in doubt'
              /\ y.cmd.op = "UpdateNode" /\ y.cmd.id = e.id => e.id \in doubt'
  <2>1. e.ip \in mine.ips => ~calm' /\ e.id \in doubt'
    <3> SUFFICES ASSUME e.ip \in mine.ips PROVE ~calm' /\ e.id \in doubt'
      OBVIOUS
    <3>1. e \in awaited
      OBVIOUS
    <3>2. e.id \in ids
      BY <3>1
    <3>3. awaited # {}
      BY <3>1
    <3> HIDE DEF awaited, mine, met, early, near, ids
    <3> QED BY <1>2, <3>2, <3>3
  <2>2. ASSUME c.op = "UpdateNode", c.id = e.id, e.id \notin doubt PROVE e.id \in doubt'
    <3>1. c.id \in DOMAIN db.nodes /\ db.nodes[c.id] \in mine.ips
      BY <1>1, <1>3, <2>2, TouchesAre
    <3>2. Found(e)
      BY <1>3 DEF SlotsFlow, Creations
    <3>3. NodesWithIp(db, e.ip) = {e.id}
      BY <2>2, <3>1, <3>2 DEF Found
    <3>4. db.nodes[c.id] = e.ip
      BY <2>2, <3>3 DEF NodesWithIp
    <3> QED BY <2>1, <3>1, <3>4
  <2> HIDE DEF mine
  <2> QED BY <1>6, <1>12, <2>1, <2>2
<1>14. SlotsFlow'
  <2>1. y.pc # "read" /\ y.pc # "write" /\ y.pc # "send"
    BY <1>6
  <2> HIDE DEF mine, met, awaited, early, x
  <2>2. ~calm' => /\ y.touches.nodes \ y.told \subseteq doubt'
                  /\ y.cmd.op = "CreateNode" /\ Unsent(y) => y.event.id \in doubt'
    BY <1>7, <1>11
  <2> QED BY <1>3, <1>7, <1>8, <1>10, <1>11, <1>12, <1>13, <2>1, <2>2, SlotFlow
<1>15. Counted' /\ Ending' /\ Told' /\ Heard'
  <2>1. \A n \in DOMAIN db.nodes \ doubt' :
         /\ Creates(y, n) <=> Creates(x, n)
         /\ Sends(y, n) => y.event.ip = db.nodes[n]
         /\ n \notin doubt => Passes(x, y, n)
    BY <1>1, <1>6, <1>7 DEF Creates, Sends, Passes, Owes
  <2>2. \A n : n \notin doubt' \cup DOMAIN db.nodes /\ Deletes(x, n) => Deletes(y, n)
    BY <1>7 DEF Deletes
  <2>3. \A n \in doubt \ doubt' :
         /\ n \in DOMAIN db.nodes /\ OneTask(n) /\ Sends(y, n)
         /\ \A r \in Slots : r # s => ~Sends(slots[r], n)
    BY <1>12
  <2> HIDE DEF x
  <2> QED BY <1>7, <2>1, <2>2, <2>3, SlotStep DEF x
<1> QED BY <1>14, <1>15 DEF FlowInv, SlotsFlow

-----------------------------------------------------------------------------
(* The write of a command.                                                   *)

\* What a write does to the rows of nodes.
LEMMA NodeRows ==
  ASSUME NEW x, Tables(x), NEW slot, IsCommand(slot.cmd), NEW u, u = Write(x, slot.cmd, slot.listed)
  PROVE  LET c == slot.cmd IN
         /\ \A n \in DOMAIN u.nodes : n \in DOMAIN x.nodes \/ (c.op = "CreateNode" /\ n = x.next.node)
         /\ \A n \in DOMAIN x.nodes : n \in DOMAIN u.nodes \/ (c.op = "DeleteNode" /\ n = c.id)
         /\ c.op = "CreateNode" =>
              x.next.node \in DOMAIN u.nodes /\ x.next.node \notin DOMAIN x.nodes
              /\ u.nodes[x.next.node] = c.set
         /\ c.op = "DeleteNode" => c.id \notin DOMAIN u.nodes
         /\ \A n \in DOMAIN x.nodes : n \in DOMAIN u.nodes =>
              \/ u.nodes[n] = x.nodes[n]
              \/ c.op = "UpdateNode" /\ c.id = n /\ u.nodes[n] = c.set /\ c.set # Null
<1> DEFINE c == slot.cmd
<1>1. IsDb(x) /\ 0 < x.next.node
  BY RowTypes DEF Tables, IsDb
<1>2. /\ c.op = "CreateNode" => u.nodes = Insert(x.nodes, x.next.node, c.set)
      /\ c.op = "UpdateNode" /\ c.id \in DOMAIN x.nodes =>
           u.nodes = [x.nodes EXCEPT ![c.id] = Coalesce(c.set, x.nodes[c.id])]
      /\ c.op = "DeleteNode" => u.nodes = Without(x.nodes, {c.id})
      /\ c.op \notin NodeOps => u.nodes = x.nodes
      /\ c.op \in ValueOps => u.devices = x.devices
  BY <1>1, NodesWritten
<1>3. c.op = "UpdateNode" /\ c.id \notin DOMAIN x.nodes => u.nodes = x.nodes
  BY DEF Write, UpdateNode
<1>4. x.next.node \notin DOMAIN x.nodes
  BY RowTypes DEF Tables, IsTable
<1>5. CASE c.op = "CreateNode"
  <2>1. u.nodes = Insert(x.nodes, x.next.node, c.set)
    BY <1>2, <1>5
  <2> QED BY <1>4, <1>5, <2>1 DEF Insert
<1>6. CASE c.op = "UpdateNode"
  <2>1. CASE c.id \in DOMAIN x.nodes
    <3>1. u.nodes = [x.nodes EXCEPT ![c.id] = Coalesce(c.set, x.nodes[c.id])]
      BY <1>2, <1>6, <2>1
    <3> QED BY <1>6, <2>1, <3>1 DEF Coalesce
  <2>2. CASE c.id \notin DOMAIN x.nodes
    BY <1>3, <1>6, <2>2
  <2> QED BY <2>1, <2>2
<1>7. CASE c.op = "DeleteNode"
  <2>1. u.nodes = Without(x.nodes, {c.id})
    BY <1>2, <1>7
  <2> QED BY <1>7, <2>1 DEF Without, Restrict
<1>8. CASE c.op \notin NodeOps
  BY <1>2, <1>8 DEF NodeOps
<1> QED BY <1>5, <1>6, <1>7, <1>8 DEF NodeOps

LEMMA NextNode ==
  ASSUME NEW x, Tables(x), NEW c, IsCommand(c), NEW listed
  PROVE  x.next.node <= Write(x, c, listed).next.node
<1> DEFINE u == Write(x, c, listed)
<1>0. IsDb(x) /\ x.next.node \in Nat /\ x.next \in [node : Nat \ {0}, device : Nat \ {0}, value : Nat \ {0}]
  BY DEF Tables, IsDb
<1>1. CASE c.op = "CreateNode"
  <2>1. InsertNode(x, c.set).next = [x.next EXCEPT !.node = x.next.node + 1]
    BY <1>0, InsertNodeFields
  <2>2. InsertNode(x, c.set).next.node = x.next.node + 1
    BY <1>0, <2>1
  <2> QED BY <1>0, <1>1, <2>2 DEF Write
<1>2. CASE c.op = "UpdateNode"
  <2>1. UpdateNode(x, c.id, c.set).next = x.next
    BY <1>0, UpdateNodeFields DEF UpdateNode
  <2> QED BY <1>0, <1>2, <2>1 DEF Write
<1>3. CASE c.op = "DeleteNode"
  <2>1. DeleteNode(x, c.id).next = x.next
    BY <1>0, DeleteNodeFields
  <2> QED BY <1>0, <1>3, <2>1 DEF Write
<1>4. CASE c.op = "CreateDevice"
  <2>2. InsertDevice(x, c.to, c.set).next.node = x.next.node
    BY <1>0 DEF InsertDevice, IsDb
  <2> QED BY <1>0, <1>4, <2>2 DEF Write
<1>5. CASE c.op = "UpdateDevice"
  <2>1. UpdateDevice(x, c.id, c.to, c.set).next = x.next
    BY <1>0, UpdateDeviceFields DEF UpdateDevice
  <2> QED BY <1>0, <1>5, <2>1 DEF Write
<1>6. CASE c.op = "DeleteDevice"
  <2>1. DeleteValues(x, listed).next = x.next
    BY <1>0, DeleteValuesFields
  <2>2. DeleteDevice(x, c.id, listed).next = x.next
    BY <1>0, <2>1, DeleteDeviceRest
  <2> QED BY <1>0, <1>6, <2>2 DEF Write
<1>7. CASE c.op = "CreateValue"
  <2>2. InsertValue(x, c.to, c.set).next.node = x.next.node
    BY <1>0 DEF InsertValue, IsDb
  <2> QED BY <1>0, <1>7, <2>2 DEF Write
<1>8. CASE c.op = "UpdateValue"
  <2>1. UpdateValue(x, c.id, c.to, c.set).next = x.next
    BY <1>0, UpdateValueFields DEF UpdateValue
  <2> QED BY <1>0, <1>8, <2>1 DEF Write
<1>9. CASE c.op = "DeleteValue"
  <2>1. DeleteValues(x, {c.id}).next = x.next
    BY <1>0, DeleteValuesFields
  <2> QED BY <1>0, <1>9, <2>1 DEF Write, DeleteValue
<1> QED BY <1>1, <1>2, <1>3, <1>4, <1>5, <1>6, <1>7, <1>8, <1>9 DEF IsCommand, Operations

\* Another node gets an address only from a command about the address.
LEMMA NewAddress ==
  ASSUME NEW x, Tables(x), NEW slot, IsCommand(slot.cmd), NEW u,
         u = Write(x, slot.cmd, slot.listed),
         NEW ip, NEW n \in NodesWithIp(u, ip), n \notin NodesWithIp(x, ip)
  PROVE  LET c == slot.cmd IN
         /\ c.op = "CreateNode" \/ (c.op = "UpdateNode" /\ c.set # Null)
         /\ c.set = ip /\ n \in Changed(x, u)
         /\ c.op = "CreateNode" => n = x.next.node
<1> DEFINE c == slot.cmd
<1>1. n \in DOMAIN u.nodes /\ u.nodes[n] = ip /\ ~(n \in DOMAIN x.nodes /\ x.nodes[n] = ip)
  BY DEF NodesWithIp
<1>2. /\ n \in DOMAIN x.nodes \/ (c.op = "CreateNode" /\ n = x.next.node)
      /\ c.op = "CreateNode" => u.nodes[x.next.node] = c.set
      /\ n \in DOMAIN x.nodes =>
              \/ u.nodes[n] = x.nodes[n]
              \/ c.op = "UpdateNode" /\ c.id = n /\ u.nodes[n] = c.set /\ c.set # Null
  BY <1>1, NodeRows
<1>3. n \in Changed(x, u)
  BY <1>1 DEF Changed
<1> QED BY <1>1, <1>2, <1>3

\* What a write leaves in the slot y of its command, in state x before.
WrittenTo(x, y, tables) ==
  LET c == x.cmd
      created == IF c.op = "CreateNode" THEN {tables.next.node} ELSE {}
  IN  IF c.op = "DeleteNode" /\ c.id \notin DOMAIN tables.nodes THEN y = FreeSlot
      ELSE /\ y.cmd = c /\ y.old = x.old /\ y.told = {}
           /\ y.touches.ips = x.touches.ips /\ y.touches.nodes = x.touches.nodes \cup created
           /\ y.pc = IF c.op = "DeleteNode" THEN "send" ELSE "read"
           /\ c.op = "DeleteNode" =>
                y.event = [type |-> "Delete", id |-> c.id, ip |-> tables.nodes[c.id]]

LEMMA WriteFacts ==
  ASSUME IndInv, FlowInv, NEW s \in Slots, WriteRows(s), Keyed(db, slots[s].cmd, slots[s].listed)
  PROVE  LET x == slots[s]
         IN  /\ x.pc = "write" /\ x \in SlotType /\ IsCommand(x.cmd)
             /\ s \in Running /\ s \in Unwritten /\ x.told = {}
             /\ Tables(db) /\ Related(db) /\ Tables(db') /\ Related(db')
             /\ db' = Write(db, x.cmd, x.listed) /\ db.next.node <= db'.next.node
             /\ events' = events /\ master' = master /\ tasks' = tasks /\ calm' = calm
             /\ doubt' = IF calm THEN doubt ELSE doubt \cup Changed(db, db')
             /\ \E y : slots' = [slots EXCEPT ![s] = y] /\ WrittenTo(x, y, db)
<1> DEFINE x == slots[s]
           c == x.cmd
           gone == c.op = "DeleteNode" /\ c.id \notin DOMAIN db.nodes
           created == IF c.op = "CreateNode" THEN {db.next.node} ELSE {}
<1>1. /\ x.pc = "write" /\ x \in SlotType /\ IsCommand(c)
      /\ s \in Running /\ s \in Unwritten
      /\ Tables(db) /\ Related(db)
  BY CommandsAre DEF IndInv, TypeOK, WriteRows, Running, Unwritten
<1>2. x.told = {}
  BY <1>1 DEF FlowInv, Given, GivenSlot, Written
<1>3. /\ db' = Write(db, c, x.listed)
      /\ events' = events /\ master' = master /\ tasks' = tasks /\ calm' = calm
      /\ doubt' = IF calm THEN doubt ELSE doubt \cup Changed(db, db')
  BY DEF WriteRows
<1>4. Tables(db') /\ Related(db')
  BY <1>1, <1>3, WriteTables
<1>5. db.next.node <= db'.next.node
  BY <1>1, <1>3, NextNode
<1>6. \E y : slots' = [slots EXCEPT ![s] = y] /\ WrittenTo(x, y, db)
  <2>1. CASE gone
    <3>1. slots' = [slots EXCEPT ![s] = FreeSlot]
      BY <2>1 DEF WriteRows
    <3> QED BY <2>1, <3>1 DEF WrittenTo
  <2>2. CASE c.op = "DeleteNode" /\ ~gone
    <3> DEFINE event == ConfigEvent("Delete", c.id)
               new == [x EXCEPT !.pc = "send", !.event = event]
    <3>1. slots' = [slots EXCEPT ![s] = [@ EXCEPT !.pc = "send", !.event = event]]
      BY <2>2 DEF WriteRows
    <3>2. slots' = [slots EXCEPT ![s] = new]
      BY <3>1
    <3>3. event = [type |-> "Delete", id |-> c.id, ip |-> db.nodes[c.id]]
      BY DEF ConfigEvent
    <3> HIDE DEF event
    <3>4. new.cmd = c /\ new.old = x.old /\ new.told = x.told /\ new.touches = x.touches
          /\ new.pc = "send" /\ new.event = event
      BY <1>1 DEF SlotType
    <3> HIDE DEF new
    <3>5. WrittenTo(x, new, db)
      BY <1>2, <2>2, <3>3, <3>4 DEF WrittenTo
    <3> QED BY <3>2, <3>5
  <2>3. CASE c.op # "DeleteNode"
    <3> DEFINE more == [x.touches EXCEPT !.nodes = x.touches.nodes \cup created]
               new == [x EXCEPT !.pc = "read", !.touches = more]
    <3>1. slots' = [slots EXCEPT ![s] = [@ EXCEPT !.pc = "read", !.touches = more]]
      BY <2>3 DEF WriteRows
    <3>2. slots' = [slots EXCEPT ![s] = new]
      BY <3>1
    <3>3. more.ips = x.touches.ips /\ more.nodes = x.touches.nodes \cup created
      <4> HIDE DEF created
      <4> QED BY <1>1 DEF SlotType
    <3> HIDE DEF more
    <3>4. new.cmd = c /\ new.old = x.old /\ new.told = x.told /\ new.touches = more
          /\ new.pc = "read"
      BY <1>1 DEF SlotType
    <3> HIDE DEF new
    <3>5. WrittenTo(x, new, db)
      BY <1>2, <2>3, <3>3, <3>4 DEF WrittenTo
    <3> QED BY <3>2, <3>5
  <2> QED BY <2>1, <2>2, <2>3
<1> QED BY <1>1, <1>2, <1>3, <1>4, <1>5, <1>6

\* What a command that met no other one writes takes nothing from the others.
LEMMA CalmWrite ==
  ASSUME NEW x, Tables(x), Related(x), NEW slot, slot.pc = "write", IsCommand(slot.cmd),
         slot.old \in Nat, Grounded(slot, x), AddressedSlot(slot), slot.told = {},
         NEW u, u = Write(x, slot.cmd, slot.listed), Tables(u), Related(u),
         NEW y, WrittenTo(slot, y, x)
  PROVE  /\ y.cmd = slot.cmd /\ y.pc = (IF slot.cmd.op = "DeleteNode" THEN "send" ELSE "read")
         /\ y.told = {} /\ y.touches.ips = slot.touches.ips
         /\ Grounded(y, u) /\ y.touches.nodes \cap DOMAIN u.nodes \subseteq Left(y, u)
         /\ Within(x, u, y.touches.nodes) /\ Spares(x, u, y.touches)
<1> DEFINE c == slot.cmd
           created == IF c.op = "CreateNode" THEN {x.next.node} ELSE {}
<1>1. c.op = "DeleteNode" => c.id \in DOMAIN x.nodes
  <2>1. Grounded(slot, x) => (c.op \in NodeOps => GroundedNode(slot, x))
    BY GroundedCases
  <2> QED BY <2>1 DEF GroundedNode, Written, NodeOps
<1>2. /\ y.cmd = c /\ y.old = slot.old /\ y.told = {}
      /\ y.touches.ips = slot.touches.ips /\ y.touches.nodes = slot.touches.nodes \cup created
      /\ y.pc = IF c.op = "DeleteNode" THEN "send" ELSE "read"
  BY <1>1 DEF WrittenTo
<1>3. Within(x, u, y.touches.nodes)
  BY <1>2, GroundedWrite
<1>4. x.next.device <= u.next.device
  BY <1>3 DEF Within
<1>5. Spares(x, u, y.touches)
  <2>1. Covers(slot.touches, c, x)
    BY GroundedCovers DEF AddressedSlot
  <2>2. Spares(x, u, slot.touches)
    BY <2>1, WriteSpares
  <2> QED BY <1>2, <2>2 DEF Spares
<1>6. Grounded(y, u) /\ y.touches.nodes \cap DOMAIN u.nodes \subseteq Left(y, u)
  BY <1>2, <1>4, WrittenGrounded DEF AddressedSlot
<1> QED BY <1>2, <1>3, <1>5, <1>6

\* A write, with what it leaves in the slot.
Wrote(s, y) ==
  LET x == slots[s]
  IN  /\ x.pc = "write" /\ x \in SlotType /\ IsCommand(x.cmd)
      /\ s \in Running /\ s \in Unwritten /\ x.told = {}
      /\ Tables(db) /\ Related(db) /\ Tables(db') /\ Related(db')
      /\ db' = Write(db, x.cmd, x.listed) /\ db.next.node <= db'.next.node
      /\ events' = events /\ master' = master /\ tasks' = tasks /\ calm' = calm
      /\ doubt' = IF calm THEN doubt ELSE doubt \cup Changed(db, db')
      /\ WrittenTo(x, y, db)
      /\ slots'[s] = y /\ \A r \in Slots : r # s => slots'[r] = slots[r]
      /\ Stream' = Stream /\ Pending' = Pending

LEMMA WriteIs ==
  ASSUME IndInv, FlowInv, NEW s \in Slots, WriteRows(s), Keyed(db, slots[s].cmd, slots[s].listed)
  PROVE  \E y : Wrote(s, y)
<1>1. PICK y : slots' = [slots EXCEPT ![s] = y] /\ WrittenTo(slots[s], y, db)
  BY WriteFacts
<1>2. slots'[s] = y /\ \A r \in Slots : r # s => slots'[r] = slots[r]
  BY <1>1, SlotAt
<1>3. Wrote(s, y)
  BY <1>1, <1>2, WriteFacts, SameStream DEF Wrote
<1> QED BY <1>3

LEMMA WriteNodes ==
  ASSUME NEW s \in Slots, NEW y, Wrote(s, y)
  PROVE  LET c == slots[s].cmd IN
         /\ \A n \in DOMAIN db'.nodes : n \in DOMAIN db.nodes \/ (c.op = "CreateNode" /\ n = db.next.node)
         /\ \A n \in DOMAIN db.nodes : n \in DOMAIN db'.nodes \/ (c.op = "DeleteNode" /\ n = c.id)
         /\ c.op = "CreateNode" =>
              db.next.node \in DOMAIN db'.nodes /\ db.next.node \notin DOMAIN db.nodes
              /\ db'.nodes[db.next.node] = c.set
         /\ c.op = "DeleteNode" => c.id \notin DOMAIN db'.nodes
         /\ \A n \in DOMAIN db.nodes : n \in DOMAIN db'.nodes =>
              \/ db'.nodes[n] = db.nodes[n]
              \/ c.op = "UpdateNode" /\ c.id = n /\ db'.nodes[n] = c.set /\ c.set # Null
<1> DEFINE x == slots[s]
<1>1. Tables(db) /\ IsCommand(x.cmd) /\ db' = Write(db, x.cmd, x.listed)
  BY DEF Wrote
<1> HIDE DEF x
<1>2. LET c == x.cmd IN
         /\ \A n \in DOMAIN db'.nodes : n \in DOMAIN db.nodes \/ (c.op = "CreateNode" /\ n = db.next.node)
         /\ \A n \in DOMAIN db.nodes : n \in DOMAIN db'.nodes \/ (c.op = "DeleteNode" /\ n = c.id)
         /\ c.op = "CreateNode" =>
              db.next.node \in DOMAIN db'.nodes /\ db.next.node \notin DOMAIN db.nodes
              /\ db'.nodes[db.next.node] = c.set
         /\ c.op = "DeleteNode" => c.id \notin DOMAIN db'.nodes
         /\ \A n \in DOMAIN db.nodes : n \in DOMAIN db'.nodes =>
              \/ db'.nodes[n] = db.nodes[n]
              \/ c.op = "UpdateNode" /\ c.id = n /\ db'.nodes[n] = c.set /\ c.set # Null
  BY <1>1, NodeRows
<1> QED BY <1>2 DEF x

LEMMA WriteGiven ==
  ASSUME IndInv, FlowInv, NEW s \in Slots, NEW y, Wrote(s, y)
  PROVE  FlowTypes' /\ Given'
<1> DEFINE x == slots[s]
           c == x.cmd
<1>1. FlowTypes'
  BY DEF FlowInv, FlowTypes, Wrote
<1>2. db.next.node \in Nat /\ db'.next.node \in Nat /\ db.next.node <= db'.next.node
  BY RowTypes DEF Wrote
<1>3. /\ \A n \in DOMAIN db'.nodes : n \in DOMAIN db.nodes \/ (c.op = "CreateNode" /\ n = db.next.node)
      /\ c.op = "CreateNode" => db.next.node \in DOMAIN db'.nodes
      /\ c.op = "DeleteNode" => c.id \notin DOMAIN db'.nodes
  BY WriteNodes
<1>4. \A n \in DOMAIN db'.nodes : n \in Nat /\ n < db'.next.node
  BY RowTypes DEF Wrote, Tables, IsTable
<1>5. \A e : e.id \in Nat /\ Old(e) => Old(e)'
  BY <1>2, <1>3 DEF Old
<1>6. \A e \in EventRows : e.id \in Nat
  BY DEF EventRows
<1>7. ASSUME NEW r \in Slots, r # s PROVE GivenSlot(slots[r])'
  <2>1. slots'[r] = slots[r] /\ GivenSlot(slots[r])
    BY <1>7 DEF Wrote, FlowInv, Given
  <2>2. Unsent(slots[r]) => slots[r].event \in EventRows /\ Old(slots[r].event)
    BY <2>1 DEF GivenSlot, EventOf
  <2>3. Unsent(slots[r]) => Old(slots[r].event)'
    BY <1>5, <1>6, <2>1, <2>2
  <2>4. \A n \in slots[r].touches.nodes \cup slots[r].told : n < db'.next.node
    <3>1. slots[r] \in SlotType
      BY DEF IndInv, TypeOK
    <3>2. \A n \in slots[r].touches.nodes \cup slots[r].told : n \in Nat
      BY <3>1 DEF SlotType
    <3> QED BY <1>2, <2>1, <3>2 DEF GivenSlot
  <2> QED BY <2>1, <2>3, <2>4 DEF GivenSlot
<1>8. GivenSlot(slots[s])'
  <2>1. slots'[s] = y /\ GivenSlot(x) /\ WrittenTo(x, y, db) /\ AddressedSlot(x) /\ x \in SlotType
    BY DEF Wrote, FlowInv, Given, Addressed
  <2>2. CASE c.op = "DeleteNode" /\ c.id \notin DOMAIN db.nodes
    <3>1. y = FreeSlot
      BY <2>1, <2>2 DEF WrittenTo
    <3>2. y.pc = "free" /\ y.told = {} /\ y.touches.nodes = {}
      BY <3>1 DEF FreeSlot, Untouched
    <3> QED BY <2>1, <3>2 DEF GivenSlot, EventOf, Unsent
  <2>3. CASE c.op = "DeleteNode" /\ c.id \in DOMAIN db.nodes
    <3>1. /\ y.cmd = c /\ y.told = {} /\ y.touches.nodes = x.touches.nodes /\ y.pc = "send"
          /\ y.event = [type |-> "Delete", id |-> c.id, ip |-> db.nodes[c.id]]
      BY <2>1, <2>3 DEF WrittenTo
    <3>2. c.id \in Nat /\ db.nodes[c.id] \in Nat /\ c.id < db.next.node
      BY <2>3, RowTypes DEF Wrote, Tables, IsTable
    <3>3. y.event \in EventRows /\ y.event.type = "Delete" /\ y.event.id = c.id
      BY <3>1, <3>2 DEF EventRows
    <3>4. EventOf(y)
      BY <2>1, <2>3, <3>1, <3>3 DEF EventOf, AddressedSlot
    <3>5. Old(y.event)'
      <4>1. y.event.id < db'.next.node /\ y.event.id \notin DOMAIN db'.nodes
        BY <1>2, <1>3, <2>3, <3>2, <3>3
      <4> QED BY <2>1, <4>1 DEF Old
    <3>6. \A n \in y.touches.nodes : n < db'.next.node
      <4>1. \A n \in x.touches.nodes : n \in Nat
        BY <2>1 DEF SlotType
      <4> QED BY <1>2, <2>1, <3>1, <4>1 DEF GivenSlot
    <3> QED BY <2>1, <3>1, <3>4, <3>5, <3>6 DEF GivenSlot
  <2>4. CASE c.op # "DeleteNode"
    <3> DEFINE created == IF c.op = "CreateNode" THEN {db.next.node} ELSE {}
    <3>1. y.told = {} /\ y.touches.nodes = x.touches.nodes \cup created /\ y.pc = "read"
      BY <2>1, <2>4 DEF WrittenTo
    <3>2. \A n \in y.touches.nodes : n < db'.next.node
      <4>1. \A n \in x.touches.nodes : n \in Nat
        BY <2>1 DEF SlotType
      <4>2. \A n \in x.touches.nodes : n < db'.next.node
        BY <1>2, <2>1, <4>1 DEF GivenSlot
      <4>3. \A n \in created : n < db'.next.node
        BY <1>3, <1>4
      <4> QED BY <3>1, <4>2, <4>3
    <3> QED BY <2>1, <3>1, <3>2 DEF GivenSlot, EventOf, Unsent
  <2> QED BY <2>2, <2>3, <2>4
<1>9. \A e \in Range(Stream') : Old(e)'
  <2>1. \A e \in Range(Stream) : Old(e)
    BY DEF FlowInv, Given
  <2>2. \A e \in Range(Stream) : e.id \in Nat
    <3>1. \A e \in Range(events) : e \in EventRows
      BY DEF FlowInv, FlowTypes, Range
    <3>2. master.pc = "create" => master.event \in EventRows
      BY DEF FlowInv, FlowTypes, NoEvent
    <3>3. Stream \in Seq(EventRows)
      BY <3>2 DEF Stream, FlowInv, FlowTypes
    <3> QED BY <1>6, <3>3 DEF Range
  <2> QED BY <1>5, <2>1, <2>2 DEF Wrote
<1>10. \A t \in TaskSlots : tasks'[t].id < db'.next.node /\ \A e \in Range(tasks'[t].inbox) : Old(e)'
  <2> SUFFICES ASSUME NEW t \in TaskSlots
               PROVE  tasks[t].id < db'.next.node /\ \A e \in Range(tasks[t].inbox) : Old(e)'
    BY DEF Wrote
  <2>1. tasks[t].id \in Nat /\ tasks[t].inbox \in Seq(EventRows)
    BY DEF FlowInv, FlowTypes, IsTask
  <2>2. tasks[t].id < db.next.node /\ \A e \in Range(tasks[t].inbox) : Old(e)
    BY DEF FlowInv, Given
  <2>3. \A e \in Range(tasks[t].inbox) : e.id \in Nat
    BY <1>6, <2>1 DEF Range
  <2> QED BY <1>2, <1>5, <2>1, <2>2, <2>3
<1>11. Given'
  <2>1. \A r \in Slots : GivenSlot(slots[r])'
    BY <1>7, <1>8
  <2> QED BY <1>9, <1>10, <2>1 DEF Given
<1> QED BY <1>1, <1>11

\* The command that writes, and what it is about afterwards.
LEMMA CalmWriter ==
  ASSUME IndInv, FlowInv, NEW s \in Slots, NEW y, Wrote(s, y), calm
  PROVE  /\ y.cmd = slots[s].cmd /\ y.pc \in {"send", "read"} /\ y.told = {}
         /\ y.touches.ips = slots[s].touches.ips
         /\ y.touches.nodes =
              slots[s].touches.nodes \cup (IF y.cmd.op = "CreateNode" THEN {db.next.node} ELSE {})
         /\ Grounded(y, db') /\ y.touches.nodes \cap DOMAIN db'.nodes \subseteq Left(y, db')
         /\ Within(db, db', y.touches.nodes) /\ Spares(db, db', y.touches)
         /\ \A r \in Running : r # s => ~Meets(y.touches, slots[r].touches)
         /\ slots[s].cmd.op = "CreateNode" => slots[s].touches.nodes = {} /\ master.pc # "start"
<1> DEFINE x == slots[s]
<1>1. /\ x.pc = "write" /\ x \in SlotType /\ IsCommand(x.cmd) /\ s \in Running /\ x.told = {}
      /\ Tables(db) /\ Related(db) /\ Tables(db') /\ Related(db')
      /\ db' = Write(db, x.cmd, x.listed) /\ WrittenTo(x, y, db)
  BY DEF Wrote
<1>2. CalmSlot(x) /\ AddressedSlot(x) /\ \A r \in Running : r # s => ~Meets(x.touches, slots[r].touches)
  BY <1>1 DEF FlowInv, CalmSlots, Addressed
<1>3. Grounded(x, db) /\ x.old \in Nat
  BY <1>1, <1>2 DEF CalmSlot, SlotType
<1>4. /\ y.cmd = x.cmd /\ y.pc = (IF x.cmd.op = "DeleteNode" THEN "send" ELSE "read")
      /\ y.told = {} /\ y.touches.ips = x.touches.ips
      /\ Grounded(y, db') /\ y.touches.nodes \cap DOMAIN db'.nodes \subseteq Left(y, db')
      /\ Within(db, db', y.touches.nodes) /\ Spares(db, db', y.touches)
  <2> HIDE DEF x
  <2> QED BY <1>1, <1>2, <1>3, CalmWrite
<1>5. y.touches.nodes = x.touches.nodes \cup (IF y.cmd.op = "CreateNode" THEN {db.next.node} ELSE {})
  <2>1. y # FreeSlot
    BY <1>4 DEF FreeSlot
  <2> QED BY <1>1, <1>4, <2>1 DEF WrittenTo
<1>6. ASSUME NEW r \in Running, r # s PROVE ~Meets(y.touches, slots[r].touches)
  <2>1. r \in Slots /\ \A n \in slots[r].touches.nodes : n < db.next.node
    BY <1>6 DEF Running, FlowInv, Given, GivenSlot
  <2>2. db.next.node \notin slots[r].touches.nodes
    BY <1>1, <2>1, RowTypes
  <2>3. ~Meets(x.touches, slots[r].touches)
    BY <1>2, <1>6
  <2> QED BY <1>4, <1>5, <2>2, <2>3 DEF Meets
<1>7. x.cmd.op = "CreateNode" => x.touches.nodes = {} /\ master.pc # "start"
  <2>1. x.cmd.op = "CreateNode" => GroundedNode(x, db)
    BY <1>3, GroundedCases DEF NodeOps
  <2> QED BY <1>1, <1>2, <2>1 DEF CalmSlot, GroundedNode, Written
<1> QED BY <1>4, <1>5, <1>6, <1>7

\* and the others.
LEMMA CalmOthers ==
  ASSUME IndInv, FlowInv, NEW s \in Slots, NEW y, Wrote(s, y), calm, NEW r \in Running, r # s
  PROVE  CalmSlot(slots[r])'
<1> DEFINE z == slots[r]
<1>1. r \in Slots /\ CalmSlot(z) /\ IsCommand(z.cmd) /\ z.old \in Nat
  BY CommandsAre DEF Running, FlowInv, CalmSlots, IndInv, TypeOK, SlotType
<1>2. Tables(db) /\ Related(db) /\ Tables(db') /\ Related(db') /\ master' = master /\ slots'[r] = z
  BY <1>1 DEF Wrote
<1>3. Within(db, db', y.touches.nodes) /\ Spares(db, db', y.touches) /\ ~Meets(y.touches, z.touches)
  BY CalmWriter
<1>4. Grounded(z, db)
  BY <1>1 DEF CalmSlot
<1>5. Grounded(z, db') /\ Left(z, db') = Left(z, db)
  <2> HIDE DEF z
  <2> QED BY <1>1, <1>2, <1>3, <1>4, GroundedKept
<1>6. z.touches.nodes \cap DOMAIN db'.nodes \subseteq DOMAIN db.nodes
  <2>1. \A n \in z.touches.nodes : n < db.next.node
    BY <1>1 DEF FlowInv, Given, GivenSlot
  <2>2. db.next.node \notin z.touches.nodes
    BY <1>2, <2>1, RowTypes
  <2>3. \A n \in DOMAIN db'.nodes : n \in DOMAIN db.nodes \/ n = db.next.node
    BY WriteNodes
  <2> QED BY <2>2, <2>3
<1> QED BY <1>1, <1>2, <1>5, <1>6 DEF CalmSlot

LEMMA WriteCalm ==
  ASSUME IndInv, FlowInv, NEW s \in Slots, NEW y, Wrote(s, y)
  PROVE  CalmSlots' /\ Doubted' /\ Addressed'
<1> DEFINE x == slots[s]
<1>1. /\ calm' = calm /\ slots'[s] = y /\ master' = master
      /\ \A r \in Running' : r \in Slots /\ (r # s => r \in Running /\ slots'[r] = slots[r])
  BY DEF Wrote, Running
<1>2. CalmSlots'
  <2> SUFFICES ASSUME calm
               PROVE  /\ \A q, r \in Running' : q # r => ~Meets(slots'[q].touches, slots'[r].touches)
                      /\ \A r \in Running' : CalmSlot(slots[r])'
    BY <1>1 DEF CalmSlots
  <2>1. \A r \in Running : r # s => ~Meets(y.touches, slots[r].touches)
    BY CalmWriter
  <2>2. \A q, r : Meets(slots'[q].touches, slots'[r].touches) => Meets(slots'[r].touches, slots'[q].touches)
    BY DEF Meets
  <2>3. ASSUME NEW q \in Running', NEW r \in Running', q # r, r # s
        PROVE  ~Meets(slots'[q].touches, slots'[r].touches)
    BY <1>1, <2>1, <2>3 DEF FlowInv, CalmSlots
  <2>4. CalmSlot(slots[s])'
    <3>1. /\ y.cmd = x.cmd /\ y.told = {}
          /\ Grounded(y, db') /\ y.touches.nodes \cap DOMAIN db'.nodes \subseteq Left(y, db')
          /\ x.cmd.op = "CreateNode" => master.pc # "start"
      BY CalmWriter
    <3> QED BY <1>1, <3>1 DEF CalmSlot
  <2>5. ASSUME NEW r \in Running' PROVE CalmSlot(slots[r])'
    <3>1. CASE r = s
      BY <2>4, <3>1
    <3>2. CASE r # s
      BY <1>1, <3>2, CalmOthers
    <3> QED BY <3>1, <3>2
  <2> QED BY <2>2, <2>3, <2>5
<1>3. Doubted'
  <2> SUFFICES ASSUME ~calm, NEW r \in Running' PROVE DoubtedSlot(slots[r])'
    BY <1>1 DEF Doubted
  <2>1. doubt' = doubt \cup Changed(db, db')
    BY DEF Wrote
  <2>2. CASE r # s
    <3>1. DoubtedSlot(slots[r]) /\ slots'[r] = slots[r]
      BY <1>1, <2>2 DEF FlowInv, Doubted
    <3> QED BY <2>1, <3>1 DEF DoubtedSlot
  <2>3. CASE r = s
    <3>1. x.touches.nodes \subseteq doubt /\ WrittenTo(x, y, db) /\ y.pc # "free"
      BY <1>1, <2>3 DEF Wrote, FlowInv, Doubted, DoubtedSlot, Running
    <3>2. /\ y.told = {} /\ (Unsent(y) => y.cmd.op = "DeleteNode")
          /\ y.touches.nodes = x.touches.nodes \cup (IF x.cmd.op = "CreateNode" THEN {db.next.node} ELSE {})
      BY <3>1 DEF WrittenTo, Unsent, FreeSlot
    <3>3. x.cmd.op = "CreateNode" => db.next.node \in Changed(db, db')
      <4>1. x.cmd.op = "CreateNode" => db.next.node \in DOMAIN db'.nodes /\ db.next.node \notin DOMAIN db.nodes
        BY WriteNodes
      <4> QED BY <4>1 DEF Changed
    <3>4. y.touches.nodes \subseteq doubt'
      BY <2>1, <3>1, <3>2, <3>3
    <3> QED BY <1>1, <2>3, <3>2, <3>4 DEF DoubtedSlot
  <2> QED BY <2>2, <2>3
<1>4. Addressed'
  <2>1. ASSUME NEW r \in Running' PROVE AddressedSlot(slots'[r])
    <3>1. CASE r # s
      BY <1>1, <3>1 DEF FlowInv, Addressed
    <3>2. CASE r = s
      <4>1. AddressedSlot(x) /\ WrittenTo(x, y, db) /\ y.pc # "free"
        BY <1>1, <3>2 DEF Wrote, FlowInv, Addressed, Running
      <4>2. y.cmd = x.cmd /\ y.touches.ips = x.touches.ips /\ x.touches.nodes \subseteq y.touches.nodes
        BY <4>1 DEF WrittenTo, FreeSlot
      <4> QED BY <1>1, <3>2, <4>1, <4>2 DEF AddressedSlot
    <3> QED BY <3>1, <3>2
  <2> QED BY <2>1 DEF Addressed, AddressedSlot
<1> QED BY <1>2, <1>3, <1>4

\* Another node gets the address ip only from a command about it, unless it is in doubt.
LEMMA WroteAddress ==
  ASSUME NEW s \in Slots, NEW y, Wrote(s, y), NEW ip, NEW n \in NodesWithIp(db', ip),
         n \notin NodesWithIp(db, ip)
  PROVE  LET c == slots[s].cmd IN
         /\ c.op = "CreateNode" \/ (c.op = "UpdateNode" /\ c.set # Null)
         /\ c.set = ip /\ (~calm => n \in doubt')
         /\ c.op = "CreateNode" => n = db.next.node
<1> DEFINE x == slots[s]
           c == x.cmd
<1>1. Tables(db) /\ IsCommand(x.cmd) /\ db' = Write(db, x.cmd, x.listed)
      /\ (~calm => doubt' = doubt \cup Changed(db, db'))
  BY DEF Wrote
<1> HIDE DEF x
<1>2. /\ c.op = "CreateNode" \/ (c.op = "UpdateNode" /\ c.set # Null)
      /\ c.set = ip /\ n \in Changed(db, db')
      /\ c.op = "CreateNode" => n = db.next.node
  BY <1>1, NewAddress
<1> QED BY <1>1, <1>2 DEF x

LEMMA WriteCreations ==
  ASSUME IndInv, FlowInv, NEW s \in Slots, NEW y, Wrote(s, y)
  PROVE  Creations'
<1> DEFINE x == slots[s]
           c == x.cmd
<1>1. /\ calm' = calm /\ slots'[s] = y /\ Pending' = Pending /\ doubt \subseteq doubt'
      /\ \A r \in Slots : r # s => slots'[r] = slots[r]
      /\ s \in Unwritten /\ s \in Running /\ x.pc = "write" /\ WrittenTo(x, y, db)
  BY DEF Wrote
<1>2. c.op = "CreateNode" \/ (c.op = "UpdateNode" /\ c.set # Null) => c.set \in x.touches.ips
  BY <1>1 DEF FlowInv, Addressed, AddressedSlot
<1>3. y.pc \notin {"check", "write"}
  BY <1>1 DEF WrittenTo, FreeSlot
<1>4. ASSUME NEW e \in Pending, NEW r \in Unwritten' PROVE Awaits(e, slots[r])'
  <2>1. r \in Unwritten /\ slots'[r] = slots[r]
    BY <1>1, <1>3 DEF Unwritten
  <2> QED BY <1>1, <2>1 DEF FlowInv, Creations, Awaits
<1>5. ASSUME NEW e \in Pending PROVE Found(e)'
  <2>1. Found(e) /\ Awaits(e, x)
    BY <1>1 DEF FlowInv, Creations
  <2>2. ASSUME NEW n \in NodesWithIp(db', e.ip), n \notin NodesWithIp(db, e.ip)
        PROVE  e.id \in doubt /\ n \in doubt'
    <3>1. c.set \in x.touches.ips /\ c.set = e.ip /\ (~calm => n \in doubt')
      BY <1>2, <2>2, WroteAddress
    <3> QED BY <2>1, <3>1 DEF Awaits
  <2>3. NodesWithIp(db', e.ip) \ doubt' \subseteq {e.id}
    BY <1>1, <2>1, <2>2 DEF Found
  <2>4. ASSUME e.id \in DOMAIN db'.nodes \ doubt' PROVE NodesWithIp(db', e.ip) = {e.id}
    <3>1. e.id \in DOMAIN db.nodes
      <4>1. e.id < db.next.node
        BY DEF FlowInv, Given, Pending, Old
      <4>2. e.id # db.next.node
        BY <4>1, RowTypes DEF Wrote
      <4> QED BY <2>4, <4>2, WriteNodes
    <3>2. NodesWithIp(db, e.ip) = {e.id} /\ e.id \notin doubt
      BY <1>1, <2>1, <2>4, <3>1 DEF Found
    <3>3. \/ db'.nodes[e.id] = db.nodes[e.id]
          \/ c.op = "UpdateNode" /\ c.id = e.id
      BY <2>4, <3>1, WriteNodes
    <3>4. ~(c.op = "UpdateNode" /\ c.id = e.id)
      BY <2>1, <3>2 DEF Awaits
    <3>5. e.id \in NodesWithIp(db', e.ip)
      BY <2>4, <3>2, <3>3, <3>4 DEF NodesWithIp
    <3>6. \A n \in NodesWithIp(db', e.ip) : n = e.id
      BY <2>2, <3>2
    <3> QED BY <3>5, <3>6
  <2> QED BY <2>3, <2>4 DEF Found
<1>6. ASSUME NEW r \in Slots, r # s PROVE CreatesAlone(slots[r])'
  <2> DEFINE z == slots[r]
  <2> SUFFICES ASSUME z.cmd.op = "CreateNode", z.pc \in {"write", "read", "send"},
                      NEW n \in NodesWithIp(db', z.cmd.set), n \notin doubt'
               PROVE  calm /\ n \in z.touches.nodes
    BY <1>1, <1>6 DEF CreatesAlone
  <2>1. r \in Running /\ z.cmd.set \in z.touches.ips
    BY DEF Running, FlowInv, Addressed, AddressedSlot
  <2>2. CASE n \in NodesWithIp(db, z.cmd.set)
    BY <1>1, <2>2 DEF FlowInv, Creations, CreatesAlone
  <2>3. CASE n \notin NodesWithIp(db, z.cmd.set)
    <3>1. c.set \in x.touches.ips /\ c.set = z.cmd.set /\ (~calm => n \in doubt')
      BY <1>2, <2>3, WroteAddress
    <3>2. calm
      BY <3>1
    <3>3. ~Meets(x.touches, z.touches)
      BY <1>1, <1>6, <2>1, <3>2 DEF FlowInv, CalmSlots
    <3> QED BY <2>1, <3>1, <3>3 DEF Meets
  <2> QED BY <2>2, <2>3
<1>7. CreatesAlone(slots[s])'
  <2> SUFFICES ASSUME y.cmd.op = "CreateNode", y.pc \in {"write", "read", "send"},
                      NEW n \in NodesWithIp(db', y.cmd.set), n \notin doubt'
               PROVE  calm /\ n \in y.touches.nodes
    BY <1>1 DEF CreatesAlone
  <2>1. y.cmd = c /\ y.touches.nodes = x.touches.nodes \cup {db.next.node}
    BY <1>1 DEF WrittenTo, FreeSlot, NoCommand
  <2>2. CASE n \in NodesWithIp(db, c.set)
    <3>1. CreatesAlone(x)
      BY DEF FlowInv, Creations
    <3> QED BY <1>1, <2>1, <2>2, <3>1 DEF CreatesAlone
  <2>3. CASE n \notin NodesWithIp(db, c.set)
    <3>1. n = db.next.node /\ (~calm => n \in doubt')
      BY <2>1, <2>3, WroteAddress
    <3> QED BY <2>1, <3>1
  <2> QED BY <2>1, <2>2, <2>3
<1>8. \A r \in Slots : CreatesAlone(slots[r])'
  BY <1>6, <1>7
<1>9. \A e \in Pending', r \in Unwritten' : Awaits(e, slots[r])'
  BY <1>1, <1>4
<1> QED BY <1>1, <1>5, <1>8, <1>9 DEF Creations

\* A write changes nothing for the tasks of the nodes that it is not about.
LEMMA WroteElse ==
  ASSUME IndInv, FlowInv, NEW s \in Slots, NEW y, Wrote(s, y), NEW n \in DOMAIN db'.nodes \ doubt',
         ~(calm /\ n \in y.touches.nodes)
  PROVE  /\ n \in DOMAIN db.nodes \ doubt /\ db'.nodes[n] = db.nodes[n]
         /\ Config(db', n) = Config(db, n)
<1>1. Tables(db) /\ Related(db) /\ Tables(db') /\ Related(db') /\ doubt \subseteq doubt'
  BY DEF Wrote
<1>2. CASE calm
  <2>1. Within(db, db', y.touches.nodes) /\ n \notin y.touches.nodes /\ n # Null
    BY <1>1, <1>2, CalmWriter, RowTypes
  <2>2. n \in DOMAIN db.nodes /\ db'.nodes[n] = db.nodes[n]
    BY <2>1 DEF Within
  <2>3. Config(db', n) = Config(db, n)
    BY <1>1, <2>1, WithinConfig
  <2> QED BY <1>1, <2>2, <2>3
<1>3. CASE ~calm
  <2>1. n \notin Changed(db, db')
    BY <1>3 DEF Wrote
  <2> QED BY <1>1, <2>1 DEF Changed
<1> QED BY <1>2, <1>3

\* Of the nodes it is about it owes a notice.
LEMMA WroteOwes ==
  ASSUME IndInv, FlowInv, NEW s \in Slots, NEW y, Wrote(s, y), calm, NEW n \in y.touches.nodes
  PROVE  /\ Owed(n)'
         /\ \A r \in Slots : ~(Sends(slots'[r], n) /\ n \in DOMAIN db'.nodes)
<1>1. y.pc \in {"send", "read"} /\ y.told = {} /\ slots'[s] = y
      /\ \A r \in Slots : r # s => slots'[r] = slots[r]
  BY CalmWriter DEF Wrote
<1>2. Owes(slots'[s], n)
  BY <1>1 DEF Owes, Written
<1>3. Owed(n)'
  BY <1>2 DEF Owed
<1>4. ASSUME NEW r \in Slots, Sends(slots'[r], n), n \in DOMAIN db'.nodes PROVE FALSE
  <2>1. CASE r = s
    <3>1. y.pc = "send" /\ y.event.type = "Update"
      BY <1>1, <1>4, <2>1 DEF Sends, Unsent, IsEvent
    <3>2. y.cmd.op = "DeleteNode" /\ y.event.type = "Delete"
      BY <3>1 DEF Wrote, WrittenTo, FreeSlot
    <3> QED BY <3>1, <3>2
  <2>2. CASE r # s
    <3>1. Sends(slots[r], n) /\ r \in Running /\ ~Meets(y.touches, slots[r].touches)
      BY <1>1, <1>4, <2>2, CalmWriter DEF Running, Sends, Unsent
    <3>2. EventOf(slots[r]) /\ slots[r].told \subseteq slots[r].touches.nodes
      BY <3>1 DEF FlowInv, Given, GivenSlot, CalmSlots, CalmSlot
    <3>3. n \in slots[r].touches.nodes
      BY <3>1, <3>2 DEF EventOf, Sends, IsEvent
    <3> QED BY <3>1, <3>3 DEF Meets
  <2> QED BY <2>1, <2>2
<1> QED BY <1>3, <1>4

LEMMA WriteCounted ==
  ASSUME IndInv, FlowInv, NEW s \in Slots, NEW y, Wrote(s, y)
  PROVE  Counted'
<1> DEFINE x == slots[s]
<1>1. /\ slots'[s] = y /\ Stream' = Stream /\ tasks' = tasks /\ master' = master /\ calm' = calm
      /\ doubt \subseteq doubt' /\ \A r \in Slots : r # s => slots'[r] = slots[r]
      /\ x.pc = "write" /\ WrittenTo(x, y, db) /\ s \in Running
  BY DEF Wrote
<1>2. ASSUME NEW n \in DOMAIN db'.nodes \ doubt' PROVE OneTask(n)'
  <2>1. \A r \in Slots : r # s => (Creates(slots'[r], n) <=> Creates(slots[r], n))
    BY <1>1
  <2>2. ~Creates(x, n)
    BY <1>1 DEF Creates
  <2>3. TasksOf(n)' = TasksOf(n)
    BY <1>1 DEF TasksOf
  <2>4. CASE n \in DOMAIN db.nodes
    <3>1. OneTask(n)
      BY <1>1, <1>2, <2>4 DEF FlowInv, Counted
    <3>2. ~Creates(y, n)
      <4> SUFFICES ASSUME Creates(y, n) PROVE FALSE
        OBVIOUS
      <4>1. y.cmd.op = "CreateNode"
        BY DEF Creates
      <4>2. y # FreeSlot
        BY <4>1 DEF FreeSlot, NoCommand
      <4>3. y.cmd = x.cmd /\ y.pc = "read" /\ y.touches.nodes = x.touches.nodes \cup {db.next.node}
        BY <1>1, <4>1, <4>2 DEF WrittenTo
      <4>4. n \in x.touches.nodes
        <5>1. n \in x.touches.nodes \cup {db.next.node}
          BY <4>3 DEF Creates
        <5>2. db.next.node \notin DOMAIN db.nodes
          BY RowTypes DEF Wrote
        <5> QED BY <2>4, <5>1, <5>2
      <4>5. CASE calm
        BY <4>1, <4>3, <4>4, <4>5, CalmWriter
      <4>6. CASE ~calm
        <5>1. DoubtedSlot(x) /\ x.told = {}
          BY <1>1, <4>6 DEF FlowInv, Doubted, Wrote
        <5> QED BY <1>1, <1>2, <4>4, <5>1 DEF DoubtedSlot
      <4> QED BY <4>5, <4>6
    <3>3. Creators(n)' = Creators(n)
      BY <1>1, <2>1, <2>2, <3>2 DEF Creators
    <3> QED BY <1>1, <2>3, <3>1, <3>3 DEF OneTask
  <2>5. CASE n \notin DOMAIN db.nodes
    <3>1. x.cmd.op = "CreateNode" /\ n = db.next.node
      BY <1>2, <2>5, WriteNodes
    <3>2. calm
      BY <1>2, <2>5, WroteElse
    <3>3. n \in Nat
      BY <3>1, RowTypes DEF Wrote
    <3>4. y.cmd.op = "CreateNode" /\ y.pc = "read" /\ n \in y.touches.nodes
      BY <1>1, <3>1, <3>2, CalmWriter DEF WrittenTo
    <3>5. master.pc # "start"
      BY <3>1, <3>2, CalmWriter
    <3>6. \A r \in Slots : ~Creates(slots[r], n)
      <4> SUFFICES ASSUME NEW r \in Slots, Creates(slots[r], n) PROVE FALSE
        OBVIOUS
      <4>1. GivenSlot(slots[r])
        BY DEF FlowInv, Given
      <4>2. n \in slots[r].touches.nodes \/ (slots[r].event.id = n /\ Unsent(slots[r]))
        BY DEF Creates, Unsent
      <4>3. n < db.next.node
        BY <4>1, <4>2 DEF GivenSlot, Old
      <4> QED BY <3>1, <3>3, <4>3
    <3>7. Creators(n)' = {s}
      <4>1. Creates(slots'[s], n)
        BY <1>1, <3>4 DEF Creates
      <4> QED BY <2>1, <3>6, <4>1 DEF Creators
    <3>8. \A type : Has(Stream, type, n) = {}
      <4>1. \A e \in Range(Stream) : e.id < db.next.node
        BY DEF FlowInv, Given, Old
      <4>2. \A i \in DOMAIN Stream : Stream[i].id # n
        BY <3>1, <3>3, <4>1 DEF Range
      <4> QED BY <4>2 DEF Has, IsEvent
    <3>9. TasksOf(n) = {}
      BY <3>1, <3>3 DEF TasksOf, FlowInv, Given
    <3> QED BY <1>1, <2>3, <3>5, <3>7, <3>8, <3>9 DEF OneTask
  <2> QED BY <2>4, <2>5
<1> QED BY <1>2 DEF Counted

LEMMA WriteEnding ==
  ASSUME IndInv, FlowInv, NEW s \in Slots, NEW y, Wrote(s, y)
  PROVE  Ending'
<1> DEFINE x == slots[s]
<1>1. /\ slots'[s] = y /\ Stream' = Stream /\ tasks' = tasks
      /\ doubt \subseteq doubt' /\ \A r \in Slots : r # s => slots'[r] = slots[r]
      /\ x.pc = "write" /\ WrittenTo(x, y, db)
  BY DEF Wrote
<1>2. ASSUME NEW t \in TaskSlots, tasks[t].id # Null, tasks[t].id \notin DOMAIN db'.nodes \cup doubt'
      PROVE  Ends(t)'
  <2> DEFINE n == tasks[t].id
  <2>1. CASE n \notin DOMAIN db.nodes
    <3>1. Ends(t)
      BY <1>1, <1>2, <2>1 DEF FlowInv, Ending
    <3>2. ASSUME NEW r \in Slots, Deletes(slots[r], n) PROVE \E q \in Slots : Deletes(slots'[q], n)
      <4>1. r # s
        BY <1>1, <3>2 DEF Deletes, Unsent
      <4> QED BY <1>1, <3>2, <4>1
    <3>3. \/ \E q \in Slots : Deletes(slots'[q], n)
          \/ Has(Stream, "Delete", n) # {}
          \/ Has(tasks[t].inbox, "Delete", n) # {}
      BY <3>1, <3>2 DEF Ends
    <3> QED BY <1>1, <3>3 DEF Ends
  <2>2. CASE n \in DOMAIN db.nodes
    <3>1. x.cmd.op = "DeleteNode" /\ n = x.cmd.id
      BY <1>2, <2>2, WriteNodes
    <3>2. Deletes(y, n)
      BY <1>1, <2>2, <3>1 DEF WrittenTo, Deletes, Unsent, IsEvent
    <3>3. Deletes(slots'[s], n)
      BY <1>1, <3>2
    <3> QED BY <1>1, <3>3 DEF Ends
  <2> QED BY <2>1, <2>2
<1>3. ASSUME NEW t \in TaskSlots, tasks'[t].id # Null, tasks'[t].id \notin DOMAIN db'.nodes \cup doubt'
      PROVE  Ends(t)'
  BY <1>1, <1>2, <1>3
<1> QED BY <1>3 DEF Ending

LEMMA WriteTold ==
  ASSUME IndInv, FlowInv, NEW s \in Slots, NEW y, Wrote(s, y)
  PROVE  Told' /\ Heard'
<1> DEFINE x == slots[s]
<1>1. /\ slots'[s] = y /\ Stream' = Stream /\ tasks' = tasks
      /\ \A r \in Slots : r # s => slots'[r] = slots[r]
      /\ x.pc = "write" /\ WrittenTo(x, y, db)
  BY DEF Wrote
<1>2. ASSUME NEW n \in DOMAIN db'.nodes \ doubt'
      PROVE  Right(n)' /\ \A t \in TaskSlots : tasks[t].id = n => Follows(t)'
  <2>1. CASE calm /\ n \in y.touches.nodes
    <3>1. Owed(n)' /\ \A r \in Slots : ~(Sends(slots'[r], n) /\ n \in DOMAIN db'.nodes)
      BY <2>1, WroteOwes
    <3>2. Right(n)'
      BY <1>2, <3>1 DEF Right
    <3>3. \A t \in TaskSlots : tasks[t].id = n => Follows(t)'
      BY <1>1, <3>1 DEF Follows
    <3> QED BY <3>2, <3>3
  <2>2. CASE ~(calm /\ n \in y.touches.nodes)
    <3>1. n \in DOMAIN db.nodes \ doubt /\ db'.nodes[n] = db.nodes[n] /\ Config(db', n) = Config(db, n)
      BY <1>2, <2>2, WroteElse
    <3>2. Right(n)
      BY <3>1 DEF FlowInv, Told
    <3>3. ~Owes(x, n) /\ ~Sends(x, n)
      BY <1>1 DEF Owes, Sends, Unsent, Written
    <3>4. Owed(n) => Owed(n)'
      <4> SUFFICES ASSUME NEW r \in Slots, Owes(slots[r], n) \/ Sends(slots[r], n) PROVE Owed(n)'
        BY DEF Owed
      <4>1. r # s
        BY <3>3
      <4>2. Owes(slots'[r], n) \/ Sends(slots'[r], n)
        BY <1>1, <4>1
      <4> QED BY <4>2 DEF Owed
    <3>5. ~Sends(y, n)
      <4> SUFFICES ASSUME Sends(y, n) PROVE FALSE
        OBVIOUS
      <4>1. y.pc \in {"send", "send2"} /\ y.event.type = "Update"
        BY DEF Sends, Unsent, IsEvent
      <4>2. y.cmd.op = "DeleteNode" /\ y.event.type = "Delete"
        BY <1>1, <4>1 DEF WrittenTo, FreeSlot
      <4> QED BY <4>1, <4>2
    <3>6. \A r \in Slots : Sends(slots'[r], n) => slots'[r].event.ip = db.nodes[n]
      BY <1>1, <3>2, <3>5 DEF Right
    <3>7. Right(n)'
      <4>1. Owed(n)' \/ LastHas(Stream, n, db.nodes[n])
        BY <3>2, <3>4 DEF Right
      <4> QED BY <1>1, <3>1, <3>6, <4>1 DEF Right
    <3>8. ASSUME NEW t \in TaskSlots, tasks[t].id = n PROVE Follows(t)'
      <4>1. Follows(t)
        BY <3>1, <3>8 DEF FlowInv, Heard
      <4>2. UpToDate(tasks[t], n) => UpToDate(tasks[t], n)'
        BY <1>1, <3>1 DEF UpToDate
      <4>3. Owed(n)' \/ Has(Stream, "Update", n) # {} \/ UpToDate(tasks[t], n)'
        BY <3>4, <3>8, <4>1, <4>2 DEF Follows
      <4> QED BY <1>1, <3>8, <4>3 DEF Follows
    <3> QED BY <3>7, <3>8
  <2> QED BY <2>1, <2>2
<1>3. Told'
  BY <1>2 DEF Told
<1>4. Heard'
  BY <1>1, <1>2 DEF Heard
<1> QED BY <1>3, <1>4

LEMMA WriteFlow ==
  ASSUME IndInv, FlowInv, NEW s \in Slots, WriteRows(s)
  PROVE  FlowInv'
<1>1. CASE ~Keyed(db, slots[s].cmd, slots[s].listed)
  BY <1>1, RefusedFlow
<1>2. CASE Keyed(db, slots[s].cmd, slots[s].listed)
  <2>1. PICK y : Wrote(s, y)
    BY <1>2, WriteIs
  <2> QED BY <2>1, WriteGiven, WriteCalm, WriteCreations, WriteCounted, WriteEnding, WriteTold DEF FlowInv
<1> QED BY <1>1, <1>2

-----------------------------------------------------------------------------
(* Sending an event.                                                         *)

\* The events on their way have their types.
LEMMA StreamType ==
  ASSUME FlowTypes
  PROVE  Stream \in Seq(EventRows) /\ (master.pc = "create" => master.event \in EventRows)
<1>1. ASSUME master.pc = "create" PROVE master.event \in EventRows
  <2>1. master.event \in EventRows \cup {NoEvent} /\ master.event.type = "Create"
    BY <1>1 DEF FlowTypes
  <2> QED BY <2>1 DEF NoEvent
<1>2. CASE master.pc = "create"
  <2>1. <<master.event>> \in Seq(EventRows)
    BY <1>1, <1>2
  <2> QED BY <1>1, <1>2, <2>1 DEF Stream, FlowTypes
<1>3. CASE master.pc # "create"
  BY <1>3 DEF Stream, FlowTypes
<1> QED BY <1>2, <1>3

\* Slot s becomes y: its event has joined the stream.
Sent(s, y) ==
  LET x == slots[s]
  IN  /\ slots'[s] = y /\ \A r \in Slots : r # s => slots'[r] = slots[r]
      /\ Unsent(x) /\ s \in Running /\ IsCommand(x.cmd) /\ x.event \in EventRows
      /\ y.cmd = x.cmd /\ y.old = x.old /\ y.touches = x.touches /\ y.told = x.told
      /\ y.event = x.event /\ y.pc = IF x.pc = "send" THEN "read2" ELSE "end"
      /\ Stream \in Seq(EventRows) /\ Stream' = Append(Stream, x.event)
      /\ events' = Append(events, x.event)
      /\ UNCHANGED <<db, master, tasks, calm, doubt>>

LEMMA StreamSent ==
  ASSUME FlowTypes, NEW e \in EventRows, events' = Append(events, e), master' = master
  PROVE  Stream' = Append(Stream, e)
<1>1. events \in Seq(EventRows)
  BY DEF FlowTypes
<1>2. CASE master.pc = "create"
  <2>1. master.event \in EventRows
    BY <1>2, StreamType
  <2>2. <<master.event>> \o Append(events, e) = Append(<<master.event>> \o events, e)
    BY <1>1, <2>1
  <2> QED BY <1>2, <2>2 DEF Stream
<1>3. CASE master.pc # "create"
  BY <1>1, <1>3 DEF Stream
<1> QED BY <1>2, <1>3

LEMMA SendIs ==
  ASSUME IndInv, FlowInv, NEW s \in Slots, SendEvent(s)
  PROVE  \E y : Sent(s, y)
<1> DEFINE x == slots[s]
           pc == IF x.pc = "send" THEN "read2" ELSE "end"
           new == [x EXCEPT !.pc = pc]
<1>1. x.pc \in {"send", "send2"} /\ events' = Append(events, x.event)
      /\ UNCHANGED <<db, master, tasks, calm, doubt>>
  BY DEF SendEvent
<1>2. x \in SlotType /\ x.cmd \in Commands /\ IsCommand(x.cmd) /\ s \in Running /\ slots \in [Slots -> SlotType]
  BY <1>1, CommandsAre DEF IndInv, TypeOK, Running
<1>3. slots' = [slots EXCEPT ![s] = new]
  <2>1. slots' = [slots EXCEPT ![s].pc = IF @ = "send" THEN "read2" ELSE "end"]
    BY DEF SendEvent
  <2> QED BY <1>2, <2>1
<1>4. /\ new.cmd = x.cmd /\ new.old = x.old /\ new.touches = x.touches /\ new.told = x.told
      /\ new.event = x.event /\ new.pc = pc
  <2> HIDE DEF pc
  <2> QED BY <1>2 DEF SlotType
<1>5. slots'[s] = new /\ \A r \in Slots : r # s => slots'[r] = slots[r]
  BY <1>3, SlotAt
<1>6. Unsent(x) /\ x.event \in EventRows
  BY <1>1 DEF FlowInv, Given, GivenSlot, EventOf, Unsent
<1>7. Stream \in Seq(EventRows) /\ Stream' = Append(Stream, x.event)
  BY <1>1, <1>6, StreamType, StreamSent DEF FlowInv
<1> HIDE DEF new
<1> QED BY <1>1, <1>2, <1>4, <1>5, <1>6, <1>7 DEF Sent

\* What a command that creates a node sends is found by those that look it up.
LEMMA SentCreation ==
  ASSUME IndInv, FlowInv, NEW s \in Slots, NEW y, Sent(s, y), slots[s].event.type = "Create"
  PROVE  LET e == slots[s].event
         IN  Found(e) /\ \A r \in Unwritten : Awaits(e, slots[r])
<1> DEFINE x == slots[s]
           e == x.event
<1>1. GivenSlot(x) /\ AddressedSlot(x) /\ CreatesAlone(x) /\ s \in Running /\ Unsent(x)
  BY DEF Sent, FlowInv, Given, Addressed, Creations
<1>2. x.cmd.op = "CreateNode" /\ e.ip = x.cmd.set /\ x.pc = "send" /\ e.id \in x.told
  <2>1. EventOf(x)
    BY <1>1 DEF GivenSlot
  <2> QED BY <1>1, <2>1 DEF EventOf
<1>3. e.ip \in x.touches.ips
  BY <1>1, <1>2 DEF AddressedSlot
<1>4. CASE calm
  <2>1. CalmSlot(x) /\ \A r \in Running : r # s => ~Meets(slots[r].touches, x.touches)
    BY <1>1, <1>4 DEF FlowInv, CalmSlots
  <2>2. PICK m \in DOMAIN db.nodes : x.touches.nodes = {m} /\ NodesWithIp(db, x.cmd.set) = {m}
    <3>1. GroundedNode(x, db) /\ Written(x)
      BY <1>2, <2>1, GroundedCases DEF CalmSlot, NodeOps, Written
    <3> QED BY <1>2, <3>1 DEF GroundedNode
  <2>3. e.id = m
    BY <1>2, <2>1, <2>2 DEF CalmSlot
  <2>4. Found(e)
    BY <1>2, <2>2, <2>3 DEF Found
  <2>5. ASSUME NEW r \in Unwritten PROVE Awaits(e, slots[r])
    <3>1. r \in Running /\ r # s
      BY <1>2 DEF Unwritten, Running
    <3>2. ~Meets(slots[r].touches, x.touches) /\ CalmSlot(slots[r])
      BY <1>1, <1>4, <2>1, <3>1 DEF FlowInv, CalmSlots
    <3>3. e.ip \notin slots[r].touches.ips /\ m \notin slots[r].touches.nodes
      BY <1>3, <2>2, <3>2 DEF Meets
    <3>4. slots[r].cmd.op = "UpdateNode" => slots[r].touches.nodes = {slots[r].cmd.id}
      BY <3>2, GroundedCases DEF CalmSlot, NodeOps, GroundedNode
    <3> QED BY <2>3, <3>3, <3>4 DEF Awaits
  <2> QED BY <2>4, <2>5
<1>5. CASE ~calm
  <2>1. e.id \in doubt
    BY <1>1, <1>2, <1>5 DEF FlowInv, Doubted, DoubtedSlot
  <2>2. NodesWithIp(db, e.ip) \ doubt = {}
    BY <1>1, <1>2, <1>5 DEF CreatesAlone
  <2> QED BY <1>5, <2>1, <2>2 DEF Found, Awaits
<1> QED BY <1>4, <1>5

LEMMA SentSlots ==
  ASSUME IndInv, FlowInv, NEW s \in Slots, NEW y, Sent(s, y)
  PROVE  SlotsFlow'
<1> DEFINE x == slots[s]
           e == x.event
<1>1. /\ slots'[s] = y /\ \A r \in Slots : r # s => slots'[r] = slots[r]
      /\ Unsent(x) /\ s \in Running /\ IsCommand(x.cmd) /\ e \in EventRows
      /\ y.cmd = x.cmd /\ y.old = x.old /\ y.touches = x.touches /\ y.told = x.told
      /\ y.event = e /\ y.pc = (IF x.pc = "send" THEN "read2" ELSE "end")
      /\ Stream \in Seq(EventRows) /\ Stream' = Append(Stream, e)
      /\ events' = Append(events, e)
      /\ db' = db /\ master' = master /\ tasks' = tasks /\ calm' = calm /\ doubt' = doubt
  BY DEF Sent
<1>2. GivenSlot(x) /\ AddressedSlot(x) /\ x.pc \in {"send", "send2"}
      /\ y.pc \in {"read2", "end"} /\ Written(x) /\ Written(y) /\ ~Unsent(y)
  BY <1>1 DEF FlowInv, Given, Addressed, Unsent, Written
<1>3. \A r \in Slots : slots'[r].pc # "free" <=> slots[r].pc # "free"
  BY <1>1, <1>2
<1>4. Running' = Running
  BY <1>3 DEF Running
<1>5. Unwritten' = Unwritten
  <2>1. \A r \in Slots : slots'[r].pc \in {"check", "write"} <=> slots[r].pc \in {"check", "write"}
    BY <1>1, <1>2
  <2> QED BY <2>1 DEF Unwritten
<1>6. FlowTypes'
  <2>1. events' \in Seq(EventRows)
    BY <1>1, AppendFacts DEF FlowInv, FlowTypes
  <2> QED BY <1>1, <2>1 DEF FlowInv, FlowTypes
<1>7. \A z : z \in Range(Stream') <=> z \in Range(Stream) \/ z = e
  BY <1>1, RangeAppend
<1>8. Given'
  <2>1. \A z : Old(z)' <=> Old(z)
    BY <1>1 DEF Old
  <2>2. GivenSlot(y)'
    BY <1>1, <1>2 DEF GivenSlot, EventOf, Unsent, Written
  <2>3. ASSUME NEW r \in Slots PROVE GivenSlot(slots[r])'
    <3>1. CASE r = s
      BY <1>1, <2>2, <3>1
    <3>2. CASE r # s
      <4>1. GivenSlot(slots[r]) /\ slots'[r] = slots[r]
        BY <1>1, <3>2 DEF FlowInv, Given
      <4> QED BY <1>1, <2>1, <4>1 DEF GivenSlot
    <3> QED BY <3>1, <3>2
  <2>4. Old(e)
    BY <1>1, <1>2 DEF GivenSlot
  <2>5. \A z \in Range(Stream') : Old(z)'
    BY <1>7, <2>1, <2>4 DEF FlowInv, Given
  <2>6. \A t \in TaskSlots : tasks[t].id < db.next.node /\ \A z \in Range(tasks[t].inbox) : Old(z)'
    BY <2>1 DEF FlowInv, Given
  <2> QED BY <1>1, <2>3, <2>5, <2>6 DEF Given
<1>9. CalmSlots'
  <2> SUFFICES ASSUME calm
               PROVE  /\ \A q, r \in Running : q # r => ~Meets(slots'[q].touches, slots'[r].touches)
                      /\ \A r \in Running : CalmSlot(slots[r])'
    BY <1>1, <1>4 DEF CalmSlots
  <2>1. /\ \A q, r \in Running : q # r => ~Meets(slots[q].touches, slots[r].touches)
        /\ \A r \in Running : CalmSlot(slots[r])
    BY DEF FlowInv, CalmSlots
  <2>2. \A r \in Running : r \in Slots /\ slots'[r].touches = slots[r].touches
    BY <1>1 DEF Running
  <2>3. CalmSlot(y)
    <3>1. CalmSlot(x)
      BY <1>1, <2>1
    <3>2. Grounded(y, db)
      <4>1. Grounded(x, db)
        BY <3>1 DEF CalmSlot
      <4> HIDE DEF x
      <4> QED BY <1>1, <1>2, <4>1, GroundedLater
    <3>3. Left(y, db) = Left(x, db)
      BY <1>1, <1>2 DEF Left
    <3> QED BY <1>1, <3>1, <3>2, <3>3 DEF CalmSlot
  <2>4. ASSUME NEW r \in Running PROVE CalmSlot(slots'[r])
    BY <1>1, <2>1, <2>2, <2>3
  <2>5. \A z : CalmSlot(z) => CalmSlot(z)'
    BY <1>1 DEF CalmSlot
  <2>6. \A r \in Running : CalmSlot(slots[r])'
    BY <1>1, <2>4 DEF CalmSlot
  <2> QED BY <2>1, <2>2, <2>6
<1>10. Doubted'
  <2> SUFFICES ASSUME ~calm, NEW r \in Running PROVE DoubtedSlot(slots[r])'
    BY <1>1, <1>4 DEF Doubted
  <2>1. DoubtedSlot(slots[r]) /\ r \in Slots
    BY DEF FlowInv, Doubted, Running
  <2>2. CASE r = s
    BY <1>1, <1>2, <2>1, <2>2 DEF DoubtedSlot
  <2>3. CASE r # s
    BY <1>1, <2>1, <2>3 DEF DoubtedSlot, Unsent
  <2> QED BY <2>2, <2>3
<1>11. Addressed'
  <2> SUFFICES ASSUME NEW r \in Running PROVE AddressedSlot(slots[r])'
    BY <1>4 DEF Addressed
  <2>1. AddressedSlot(slots[r]) /\ r \in Slots
    BY DEF FlowInv, Addressed, Running
  <2>2. slots'[r].cmd = slots[r].cmd /\ slots'[r].touches = slots[r].touches
    BY <1>1, <2>1
  <2> QED BY <2>1, <2>2 DEF AddressedSlot
<1>12. Creations'
  <2>1. ASSUME NEW z \in Pending' PROVE Found(z)' /\ \A r \in Unwritten' : Awaits(z, slots[r])'
    <3>1. z \in Pending \/ (z = e /\ e.type = "Create")
      BY <1>7, <2>1 DEF Pending
    <3>2. Found(z) /\ \A r \in Unwritten : Awaits(z, slots[r])
      <4>1. CASE z \in Pending
        BY <4>1 DEF FlowInv, Creations
      <4>2. CASE z = e /\ e.type = "Create"
        <5> HIDE DEF x
        <5> QED BY <4>2, SentCreation DEF x
      <4> QED BY <3>1, <4>1, <4>2
    <3>3. Found(z)'
      BY <1>1, <3>2 DEF Found
    <3>4. ASSUME NEW r \in Unwritten PROVE Awaits(z, slots[r])'
      <4>1. r \in Slots /\ r # s
        BY <1>2 DEF Unwritten
      <4>2. Awaits(z, slots[r]) /\ slots'[r] = slots[r]
        BY <1>1, <3>2, <4>1
      <4> QED BY <1>1, <4>2 DEF Awaits
    <3> QED BY <1>5, <3>3, <3>4
  <2>2. ASSUME NEW r \in Slots PROVE CreatesAlone(slots[r])'
    <3>1. CASE r = s
      BY <1>1, <1>2, <3>1 DEF CreatesAlone
    <3>2. CASE r # s
      <4>1. CreatesAlone(slots[r]) /\ slots'[r] = slots[r]
        BY <1>1, <3>2 DEF FlowInv, Creations
      <4> QED BY <1>1, <4>1 DEF CreatesAlone
    <3> QED BY <3>1, <3>2
  <2> QED BY <2>1, <2>2 DEF Creations
<1> QED BY <1>6, <1>8, <1>9, <1>10, <1>11, <1>12 DEF SlotsFlow

\* A node that is still to be created is announced by nobody else.
LEMMA CreatorAlone ==
  ASSUME IndInv, FlowInv, NEW s \in Slots, NEW r \in Slots, r # s, NEW n, n \notin doubt,
         Creates(slots[r], n), Unsent(slots[s]), slots[s].event.id \in slots[s].told
  PROVE  slots[s].event.id # n
<1> SUFFICES ASSUME slots[s].event.id = n PROVE FALSE
  OBVIOUS
<1>1. r \in Running /\ s \in Running
  BY DEF Running, Creates, Unsent
<1>2. GivenSlot(slots[r]) /\ EventOf(slots[r])
  BY DEF FlowInv, Given, GivenSlot
<1>3. slots[r].cmd.op = "CreateNode" /\ slots[r].pc \in {"read", "send"}
      /\ (slots[r].pc = "read" => n \in slots[r].touches.nodes /\ slots[r].told = {})
      /\ (slots[r].pc = "send" => slots[r].event.id = n /\ n \in slots[r].told /\ Unsent(slots[r]))
  BY <1>2 DEF Creates, EventOf, Unsent, GivenSlot
<1>4. CASE calm
  <2>1. /\ ~Meets(slots[r].touches, slots[s].touches)
        /\ slots[r].told \subseteq slots[r].touches.nodes
        /\ slots[s].told \subseteq slots[s].touches.nodes
    BY <1>1, <1>4 DEF FlowInv, CalmSlots, CalmSlot
  <2> QED BY <1>3, <2>1 DEF Meets
<1>5. CASE ~calm
  <2>1. DoubtedSlot(slots[r])
    BY <1>1, <1>5 DEF FlowInv, Doubted
  <2> QED BY <1>3, <2>1 DEF DoubtedSlot
<1> QED BY <1>4, <1>5

LEMMA SentCounted ==
  ASSUME IndInv, FlowInv, NEW s \in Slots, NEW y, Sent(s, y)
  PROVE  Counted'
<1> DEFINE x == slots[s]
           e == x.event
<1>1. /\ slots'[s] = y /\ \A r \in Slots : r # s => slots'[r] = slots[r]
      /\ Unsent(x) /\ e \in EventRows /\ y.pc \in {"read2", "end"}
      /\ Stream \in Seq(EventRows) /\ Stream' = Append(Stream, e)
      /\ db' = db /\ master' = master /\ tasks' = tasks /\ doubt' = doubt /\ EventOf(x)
  BY DEF Sent, FlowInv, Given, GivenSlot
<1>2. ASSUME NEW n \in DOMAIN db.nodes \ doubt PROVE OneTask(n)'
  <2>1. OneTask(n)
    BY <1>2 DEF FlowInv, Counted
  <2>2. Creators(n)' = Creators(n) \ {s}
    <3>1. ~Creates(slots'[s], n)
      BY <1>1 DEF Creates
    <3>2. \A r \in Slots : r # s => (Creates(slots'[r], n) <=> Creates(slots[r], n))
      BY <1>1
    <3> QED BY <3>1, <3>2 DEF Creators
  <2>3. TasksOf(n)' = TasksOf(n)
    BY <1>1 DEF TasksOf
  <2>4. \A type : Has(Stream', type, n)
          = Has(Stream, type, n) \cup (IF IsEvent(e, type, n) THEN {Len(Stream) + 1} ELSE {})
    BY <1>1, HasAppend
  <2>5. IsEvent(e, "Create", n) <=> Creates(x, n)
    BY <1>1 DEF IsEvent, Creates, EventOf, Unsent
  <2>6. CASE Creates(x, n)
    <3>1. s \in Creators(n)
      BY <2>6 DEF Creators
    <3>2. Creators(n)' = {}
      BY <2>1, <2>2, <3>1 DEF OneTask
    <3>3. Has(Stream', "Create", n) = {Len(Stream) + 1}
      BY <2>1, <2>4, <2>5, <2>6, <3>1 DEF OneTask
    <3>4. master.pc # "start" /\ TasksOf(n) = {}
      BY <2>1, <3>1 DEF OneTask
    <3> QED BY <1>1, <2>3, <3>2, <3>3, <3>4 DEF OneTask
  <2>7. CASE ~Creates(x, n)
    <3>1. Creators(n)' = Creators(n)
      BY <2>2, <2>7 DEF Creators
    <3>2. Has(Stream', "Create", n) = Has(Stream, "Create", n)
      BY <2>4, <2>5, <2>7
    <3>3. ASSUME Creators(n) # {} PROVE Has(Stream', "Update", n) = {}
      <4>1. PICK r \in Creators(n) : TRUE
        BY <3>3
      <4>2. r \in Slots /\ Creates(slots[r], n) /\ r # s
        BY <2>7 DEF Creators
      <4>3. ~IsEvent(e, "Update", n)
        <5> SUFFICES ASSUME IsEvent(e, "Update", n) PROVE FALSE
          OBVIOUS
        <5>1. e.id \in x.told
          BY <1>1 DEF EventOf, IsEvent
        <5> QED BY <1>1, <1>2, <4>2, <5>1, CreatorAlone DEF IsEvent
      <4> QED BY <2>1, <2>4, <3>3, <4>3 DEF OneTask
    <3> QED BY <1>1, <2>1, <2>3, <3>1, <3>2, <3>3 DEF OneTask
  <2> QED BY <2>6, <2>7
<1> QED BY <1>1, <1>2 DEF Counted

LEMMA SentEnding ==
  ASSUME IndInv, FlowInv, NEW s \in Slots, NEW y, Sent(s, y)
  PROVE  Ending'
<1> DEFINE x == slots[s]
           e == x.event
<1>1. /\ slots'[s] = y /\ \A r \in Slots : r # s => slots'[r] = slots[r]
      /\ e \in EventRows /\ Stream \in Seq(EventRows) /\ Stream' = Append(Stream, e)
      /\ db' = db /\ tasks' = tasks /\ doubt' = doubt
  BY DEF Sent
<1>2. ASSUME NEW t \in TaskSlots, tasks[t].id # Null, tasks[t].id \notin DOMAIN db.nodes \cup doubt
      PROVE  Ends(t)'
  <2> DEFINE n == tasks[t].id
  <2>1. Has(Stream', "Delete", n)
          = Has(Stream, "Delete", n) \cup (IF IsEvent(e, "Delete", n) THEN {Len(Stream) + 1} ELSE {})
    BY <1>1, HasAppend
  <2>2. ASSUME NEW r \in Slots, Deletes(slots[r], n)
        PROVE  (\E q \in Slots : Deletes(slots'[q], n)) \/ Has(Stream', "Delete", n) # {}
    <3>1. CASE r = s
      <4>1. IsEvent(e, "Delete", n)
        BY <2>2, <3>1 DEF Deletes
      <4> QED BY <2>1, <4>1
    <3>2. CASE r # s
      BY <1>1, <2>2, <3>2
    <3> QED BY <3>1, <3>2
  <2>3. Ends(t)
    BY <1>2 DEF FlowInv, Ending
  <2>4. \/ \E q \in Slots : Deletes(slots'[q], n)
        \/ Has(Stream', "Delete", n) # {}
        \/ Has(tasks[t].inbox, "Delete", n) # {}
    BY <2>1, <2>2, <2>3 DEF Ends
  <2> QED BY <1>1, <2>4 DEF Ends
<1> QED BY <1>1, <1>2 DEF Ending

LEMMA SentTold ==
  ASSUME IndInv, FlowInv, NEW s \in Slots, NEW y, Sent(s, y)
  PROVE  Told' /\ Heard'
<1> DEFINE x == slots[s]
           e == x.event
<1>1. /\ slots'[s] = y /\ \A r \in Slots : r # s => slots'[r] = slots[r]
      /\ Unsent(x) /\ e \in EventRows /\ Stream \in Seq(EventRows) /\ Stream' = Append(Stream, e)
      /\ y.pc \in {"read2", "end"} /\ y.touches = x.touches /\ y.told = x.told
      /\ db' = db /\ tasks' = tasks /\ doubt' = doubt
  BY DEF Sent
<1>2. ASSUME NEW n \in DOMAIN db.nodes \ doubt
      PROVE  Right(n)' /\ \A t \in TaskSlots : tasks[t].id = n => Follows(t)'
  <2> DEFINE ip == db.nodes[n]
  <2>1. Right(n)
    BY <1>2 DEF FlowInv, Told
  <2>2. ~Sends(y, n)
    BY <1>1 DEF Sends, Unsent
  <2>3. \A r \in Slots : Sends(slots'[r], n) => slots'[r].event.ip = ip
    BY <1>1, <2>1, <2>2 DEF Right
  <2>4. Has(Stream', "Update", n)
          = Has(Stream, "Update", n) \cup (IF IsEvent(e, "Update", n) THEN {Len(Stream) + 1} ELSE {})
    BY <1>1, HasAppend
  <2>5. CASE IsEvent(e, "Update", n)
    <3>1. e.ip = ip
      <4>1. Sends(x, n)
        BY <1>1, <2>5 DEF Sends
      <4> QED BY <2>1, <4>1 DEF Right
    <3>2. LastHas(Stream', n, ip)
      BY <1>1, <2>5, <3>1, LastAppend
    <3>3. Right(n)'
      BY <1>1, <2>3, <3>2 DEF Right
    <3>4. \A t \in TaskSlots : tasks[t].id = n => Follows(t)'
      BY <1>1, <2>4, <2>5 DEF Follows
    <3> QED BY <3>3, <3>4
  <2>6. CASE ~IsEvent(e, "Update", n)
    <3>1. ASSUME Owed(n) PROVE Owed(n)'
      <4>1. PICK r \in Slots : Owes(slots[r], n) \/ Sends(slots[r], n)
        BY <3>1 DEF Owed
      <4>2. CASE r # s
        <5>1. Owes(slots'[r], n) \/ Sends(slots'[r], n)
          BY <1>1, <4>1, <4>2
        <5> QED BY <5>1 DEF Owed
      <4>3. CASE r = s
        <5>1. Owes(x, n)
          BY <2>6, <4>1, <4>3 DEF Sends
        <5>2. Owes(slots'[s], n)
          BY <1>1, <5>1 DEF Owes, Written
        <5> QED BY <5>2 DEF Owed
      <4> QED BY <4>2, <4>3
    <3>2. LastHas(Stream, n, ip) => LastHas(Stream', n, ip)
      BY <1>1, <2>6, LastAppend
    <3>3. Owed(n)' \/ LastHas(Stream', n, ip)
      BY <2>1, <3>1, <3>2 DEF Right
    <3>4. Right(n)'
      BY <1>1, <2>3, <3>3 DEF Right
    <3>5. ASSUME NEW t \in TaskSlots, tasks[t].id = n PROVE Follows(t)'
      <4>1. Follows(t)
        BY <1>2, <3>5 DEF FlowInv, Heard
      <4>2. UpToDate(tasks[t], n)' <=> UpToDate(tasks[t], n)
        BY <1>1 DEF UpToDate
      <4>3. Owed(n)' \/ Has(Stream', "Update", n) # {} \/ UpToDate(tasks[t], n)'
        BY <2>4, <3>1, <3>5, <4>1, <4>2 DEF Follows
      <4> QED BY <1>1, <3>5, <4>3 DEF Follows
    <3> QED BY <3>4, <3>5
  <2> QED BY <2>5, <2>6
<1>3. Told'
  BY <1>1, <1>2 DEF Told
<1>4. Heard'
  BY <1>1, <1>2 DEF Heard
<1> QED BY <1>3, <1>4

LEMMA SendFlow ==
  ASSUME IndInv, FlowInv, NEW s \in Slots, SendEvent(s)
  PROVE  FlowInv'
<1>1. PICK y : Sent(s, y)
  BY SendIs
<1> QED BY <1>1, SentSlots, SentCounted, SentEnding, SentTold DEF FlowInv, SlotsFlow

-----------------------------------------------------------------------------
(* node_master.                                                              *)

\* node_master and the tasks take nothing from the commands.
LEMMA ReaderSlots ==
  ASSUME IndInv, FlowInv, db' = db, slots' = slots, calm' = calm, doubt \subseteq doubt',
         master'.pc = "start" => master.pc = "start",
         FlowTypes', \A e \in Range(Stream') : e \in Range(Stream),
         \A t \in TaskSlots :
           /\ tasks'[t].id < db.next.node
           /\ \A e \in Range(tasks'[t].inbox) : e \in Range(tasks[t].inbox) \cup Range(Stream)
  PROVE  SlotsFlow'
<1>1. Running' = Running /\ Unwritten' = Unwritten
  BY DEF Running, Unwritten
<1>2. \A x : Old(x)' <=> Old(x)
  BY DEF Old
<1>3. Given'
  <2>1. \A s \in Slots : GivenSlot(slots[s])'
    BY <1>2 DEF FlowInv, Given, GivenSlot
  <2>2. \A e \in Range(Stream) : Old(e)
    BY DEF FlowInv, Given
  <2>3. \A t \in TaskSlots : \A e \in Range(tasks[t].inbox) : Old(e)
    BY DEF FlowInv, Given
  <2> QED BY <1>2, <2>1, <2>2, <2>3 DEF Given
<1>4. CalmSlots'
  <2>1. ASSUME NEW s \in Running, calm PROVE CalmSlot(slots[s])'
    <3>1. CalmSlot(slots[s])
      BY <2>1 DEF FlowInv, CalmSlots
    <3> QED BY <3>1 DEF CalmSlot
  <2>2. calm => \A r, s \in Running : r # s => ~Meets(slots[r].touches, slots[s].touches)
    BY DEF FlowInv, CalmSlots
  <2> QED BY <1>1, <2>1, <2>2 DEF CalmSlots
<1>5. Doubted'
  <2>1. ASSUME NEW s \in Running, ~calm PROVE DoubtedSlot(slots[s])'
    <3>1. DoubtedSlot(slots[s])
      BY <2>1 DEF FlowInv, Doubted
    <3> QED BY <3>1 DEF DoubtedSlot
  <2> QED BY <1>1, <2>1 DEF Doubted
<1>6. Addressed'
  <2>1. \A s \in Running : AddressedSlot(slots[s])'
    BY DEF FlowInv, Addressed, AddressedSlot
  <2> QED BY <1>1, <2>1 DEF Addressed
<1>7. Creations'
  <2>1. ASSUME NEW e \in Pending' PROVE Found(e)' /\ \A s \in Unwritten : Awaits(e, slots[s])'
    <3>1. e \in Pending
      BY DEF Pending
    <3>2. Found(e) /\ \A s \in Unwritten : Awaits(e, slots[s])
      BY <3>1 DEF FlowInv, Creations
    <3>3. Found(e)'
      BY <3>2 DEF Found
    <3>4. \A s \in Unwritten : Awaits(e, slots[s])'
      BY <3>2 DEF Awaits
    <3> QED BY <3>3, <3>4
  <2>2. ASSUME NEW s \in Slots PROVE CreatesAlone(slots[s])'
    <3>1. CreatesAlone(slots[s])
      BY DEF FlowInv, Creations
    <3> QED BY <3>1 DEF CreatesAlone
  <2> QED BY <1>1, <2>1, <2>2 DEF Creations
<1> QED BY <1>3, <1>4, <1>5, <1>6, <1>7 DEF SlotsFlow

LEMMA SameOwed ==
  ASSUME slots' = slots, NEW n
  PROVE  Owed(n)' = Owed(n) /\ Creators(n)' = Creators(n)
<1>1. Creators(n)' = Creators(n)
  BY DEF Creators
<1>2. Owed(n)' = Owed(n)
  BY DEF Owed
<1> QED BY <1>1, <1>2

\* What is on its way stays as it is, and so do the tasks.
LEMMA QuietFlow ==
  ASSUME IndInv, FlowInv, UNCHANGED <<db, slots, tasks, doubt, calm>>, FlowTypes', Stream' = Stream,
         master'.pc = "start" <=> master.pc = "start"
  PROVE  FlowInv'
<1>1. SlotsFlow'
  <2>1. \A t \in TaskSlots : tasks'[t].id < db.next.node /\ tasks'[t].inbox = tasks[t].inbox
    BY DEF FlowInv, Given
  <2> QED BY <2>1, ReaderSlots
<1>2. \A n : Owed(n)' = Owed(n) /\ Creators(n)' = Creators(n) /\ TasksOf(n)' = TasksOf(n)
  BY SameOwed, SameTasks
<1>3. Counted'
  <2>1. ASSUME NEW n \in DOMAIN db.nodes \ doubt PROVE OneTask(n)'
    <3>1. OneTask(n)
      BY <2>1 DEF FlowInv, Counted
    <3> QED BY <1>2, <3>1 DEF OneTask
  <2> QED BY <2>1 DEF Counted
<1>4. Ending'
  <2>1. ASSUME NEW t \in TaskSlots, Ends(t) PROVE Ends(t)'
    BY <2>1 DEF Ends
  <2> QED BY <2>1 DEF FlowInv, Ending
<1>5. Told'
  <2>1. ASSUME NEW n \in DOMAIN db.nodes \ doubt PROVE Right(n)'
    <3>1. Right(n)
      BY <2>1 DEF FlowInv, Told
    <3> QED BY <1>2, <3>1 DEF Right
  <2> QED BY <2>1 DEF Told
<1>6. Heard'
  <2>1. ASSUME NEW t \in TaskSlots, Follows(t) PROVE Follows(t)'
    <3>1. UpToDate(tasks[t], tasks[t].id)' <=> UpToDate(tasks[t], tasks[t].id)
      BY DEF UpToDate
    <3> QED BY <1>2, <2>1, <3>1 DEF Follows
  <2> QED BY <2>1 DEF FlowInv, Heard
<1> QED BY <1>1, <1>3, <1>4, <1>5, <1>6 DEF FlowInv, SlotsFlow

\* A creation that node_master takes is still on its way.
LEMMA TakesCreation ==
  ASSUME IndInv, FlowInv, MasterTakes, Head(events).type = "Create"
  PROVE  FlowInv'
<1>1. /\ master.pc = "select" /\ events # <<>> /\ events' = Tail(events)
      /\ master' = [pc |-> "create", event |-> Head(events), tries |-> 0]
      /\ UNCHANGED <<db, slots, tasks, doubt, calm>>
  BY DEF MasterTakes
<1>2. events \in Seq(EventRows)
  BY DEF FlowInv, FlowTypes
<1>3. Head(events) \in EventRows /\ Tail(events) \in Seq(EventRows)
  BY <1>1, <1>2, TailFacts
<1>4. master'.pc = "create" /\ master'.event = Head(events)
  BY <1>1
<1>5. Stream' = Stream
  <2>1. <<Head(events)>> \o Tail(events) = events
    BY <1>1, <1>2
  <2>2. Stream = events
    BY <1>1, <1>2 DEF Stream
  <2>3. Stream' = <<Head(events)>> \o Tail(events)
    BY <1>1, <1>4 DEF Stream
  <2> QED BY <2>1, <2>2, <2>3
<1>6. FlowTypes'
  <2>1. master' \in [pc : {"start", "select", "create"}, event : EventRows \cup {NoEvent}, tries : Nat]
    BY <1>1, <1>3
  <2> QED BY <1>1, <1>3, <1>4, <2>1 DEF FlowInv, FlowTypes
<1> QED BY <1>1, <1>4, <1>5, <1>6, QuietFlow

\* The event at the head of the stream has gone to every task; one that has lost an
\* older one is in doubt.
Spread(e) ==
  /\ e \in EventRows /\ e = Head(Stream) /\ e.type # "Create"
  /\ Stream \in Seq(EventRows) /\ Stream # <<>> /\ Stream' = Tail(Stream)
  /\ \A t \in TaskSlots :
       /\ tasks'[t].id = tasks[t].id /\ tasks[t].id \in Nat
       /\ tasks[t].id # Null =>
            /\ tasks'[t].ip = tasks[t].ip /\ tasks'[t].view = tasks[t].view
            /\ tasks'[t].pc = tasks[t].pc
            /\ tasks[t].inbox \in Seq(EventRows) /\ tasks'[t].inbox \in Seq(EventRows)
            /\ \A z \in Range(tasks'[t].inbox) : z \in Range(tasks[t].inbox) \/ z = e
            /\ tasks[t].id \in doubt' \/ tasks'[t].inbox = Append(tasks[t].inbox, e)
       /\ tasks[t].id = Null => tasks'[t] = NoTask
  /\ doubt \subseteq doubt'
  /\ UNCHANGED <<db, slots, master, calm>>

LEMMA TaskFields ==
  ASSUME NEW x, IsTask(x), NEW q \in Seq(EventRows)
  PROVE  LET y == [x EXCEPT !.inbox = q]
         IN  IsTask(y) /\ y.id = x.id /\ y.pc = x.pc /\ y.ip = x.ip /\ y.view = x.view /\ y.inbox = q
<1> DEFINE y == [x EXCEPT !.inbox = q]
<1>1. y = [id |-> x.id, pc |-> x.pc, ip |-> x.ip, view |-> x.view, inbox |-> q]
  BY DEF IsTask
<1>2. y.id = x.id /\ y.pc = x.pc /\ y.ip = x.ip /\ y.view = x.view /\ y.inbox = q
  BY <1>1
<1> HIDE DEF y
<1>3. y = [id |-> y.id, pc |-> y.pc, ip |-> y.ip, view |-> y.view, inbox |-> y.inbox]
  BY <1>1, <1>2
<1>4. IsTask(y)
  BY <1>2, <1>3 DEF IsTask
<1> QED BY <1>2, <1>4 DEF y

LEMMA NoTaskIs == IsTask(NoTask) /\ NoTask.id = Null /\ NoTask.inbox = <<>> /\ Null \in Nat
<1>1. NoTask.id = Null /\ NoTask.inbox = <<>> /\ Null \in Nat
  BY DEF NoTask, Null
<1>2. <<>> \in Seq(EventRows)
  OBVIOUS
<1> QED BY <1>1, <1>2 DEF IsTask, NoTask

LEMMA SpreadIs ==
  ASSUME IndInv, FlowInv, MasterTakes, Head(events).type # "Create"
  PROVE  Spread(Head(events)) /\ FlowTypes'
<1> DEFINE e == Head(events)
           full == {t \in TaskSlots \ FreeTask : Len(tasks[t].inbox) = FeedCapacity}
           kept(t) == IF t \in full THEN Tail(tasks[t].inbox) ELSE tasks[t].inbox
<1>1. /\ master.pc = "select" /\ events # <<>> /\ events' = Tail(events)
      /\ UNCHANGED <<db, slots, calm, master>>
      /\ tasks' = [t \in TaskSlots |->
                    IF t \in FreeTask THEN NoTask
                    ELSE [tasks[t] EXCEPT !.inbox = Append(kept(t), e)]]
      /\ doubt' = doubt \cup {tasks[t].id : t \in full}
  BY DEF MasterTakes, Broadcast
<1>2. events \in Seq(EventRows)
  BY DEF FlowInv, FlowTypes
<1>3. e \in EventRows /\ Tail(events) \in Seq(EventRows)
  BY <1>1, <1>2, TailFacts
<1>4. Stream = events /\ Stream' = Tail(events)
  BY <1>1, <1>2, <1>3 DEF Stream
<1>5. ASSUME NEW t \in TaskSlots
      PROVE  /\ IsTask(tasks'[t]) /\ tasks'[t].id = tasks[t].id /\ tasks[t].id \in Nat
             /\ tasks[t].id # Null =>
                  /\ tasks'[t].ip = tasks[t].ip /\ tasks'[t].view = tasks[t].view
                  /\ tasks'[t].pc = tasks[t].pc
                  /\ tasks[t].inbox \in Seq(EventRows) /\ tasks'[t].inbox \in Seq(EventRows)
                  /\ \A z \in Range(tasks'[t].inbox) : z \in Range(tasks[t].inbox) \/ z = e
                  /\ tasks[t].id \in doubt' \/ tasks'[t].inbox = Append(tasks[t].inbox, e)
             /\ tasks[t].id = Null => tasks'[t] = NoTask
  <2>1. IsTask(tasks[t])
    BY DEF FlowInv, FlowTypes
  <2>2. tasks[t].inbox \in Seq(EventRows) /\ tasks[t].id \in Nat
    BY <2>1 DEF IsTask
  <2>3. CASE tasks[t].id = Null
    <3>1. t \in FreeTask
      BY <2>3 DEF FreeTask
    <3>2. tasks'[t] = NoTask
      BY <1>1, <3>1
    <3> QED BY <2>2, <2>3, <3>2, NoTaskIs
  <2>4. CASE tasks[t].id # Null
    <3> DEFINE q == Append(kept(t), e)
    <3>1. t \notin FreeTask
      BY <2>4 DEF FreeTask
    <3>2. tasks'[t] = [tasks[t] EXCEPT !.inbox = q]
      BY <1>1, <3>1
    <3>3. kept(t) \in Seq(EventRows) /\ \A z \in Range(kept(t)) : z \in Range(tasks[t].inbox)
      <4>1. CASE t \in full
        <5>1. tasks[t].inbox # <<>>
          <6>1. Len(tasks[t].inbox) = FeedCapacity /\ FeedCapacity # 0
            BY <4>1, ConfigCommandsAssumption
          <6> QED BY <6>1
        <5>2. kept(t) = Tail(tasks[t].inbox)
          BY <4>1
        <5> HIDE DEF kept
        <5> QED BY <2>2, <5>1, <5>2, TailFacts, RangeTail
      <4>2. CASE t \notin full
        BY <2>2, <4>2
      <4> QED BY <4>1, <4>2
    <3>4. t \in full => tasks[t].id \in doubt'
      BY <1>1
    <3>5. t \notin full => q = Append(tasks[t].inbox, e)
      OBVIOUS
    <3> HIDE DEF kept
    <3>6. q \in Seq(EventRows) /\ \A z \in Range(q) : z \in Range(tasks[t].inbox) \/ z = e
      BY <1>3, <3>3, RangeAppend, AppendFacts
    <3> HIDE DEF q, full, e
    <3>7. /\ IsTask(tasks'[t]) /\ tasks'[t].id = tasks[t].id /\ tasks'[t].ip = tasks[t].ip
          /\ tasks'[t].view = tasks[t].view /\ tasks'[t].pc = tasks[t].pc /\ tasks'[t].inbox = q
      BY <2>1, <3>2, <3>6, TaskFields
    <3> QED BY <2>2, <2>4, <3>4, <3>5, <3>6, <3>7
  <2> QED BY <2>3, <2>4
<1>6. doubt \subseteq doubt'
  BY <1>1
<1>7. tasks' = [t \in TaskSlots |-> tasks'[t]]
  BY <1>1
<1> HIDE DEF kept, full
<1>8. FlowTypes'
  <2>1. master'.pc # "start"
    BY <1>1
  <2> QED BY <1>1, <1>3, <1>5, <1>7, <2>1 DEF FlowInv, FlowTypes
<1>9. Stream # <<>> /\ e = Head(Stream) /\ Stream \in Seq(EventRows) /\ Stream' = Tail(Stream)
  BY <1>1, <1>2, <1>4
<1> HIDE DEF e
<1> QED BY <1>1, <1>3, <1>5, <1>6, <1>8, <1>9 DEF Spread, e

LEMMA SpreadSlots ==
  ASSUME IndInv, FlowInv, NEW e, Spread(e), FlowTypes'
  PROVE  SlotsFlow'
<1>1. \A z \in Range(Stream') : z \in Range(Stream)
  BY RangeTail DEF Spread
<1>2. e \in Range(Stream)
  BY RangeTail DEF Spread
<1>3. ASSUME NEW t \in TaskSlots
      PROVE  /\ tasks'[t].id < db.next.node
             /\ \A z \in Range(tasks'[t].inbox) : z \in Range(tasks[t].inbox) \cup Range(Stream)
  <2>1. tasks'[t].id < db.next.node
    BY DEF Spread, FlowInv, Given
  <2>2. CASE tasks[t].id = Null
    <3>1. tasks'[t].inbox = <<>>
      BY <2>2, NoTaskIs DEF Spread
    <3>2. DOMAIN (<<>>) = {}
      OBVIOUS
    <3>3. Range(tasks'[t].inbox) = {}
      BY <3>1, <3>2 DEF Range
    <3> QED BY <2>1, <3>3
  <2>3. CASE tasks[t].id # Null
    BY <1>2, <2>1, <2>3 DEF Spread
  <2> QED BY <2>2, <2>3
<1>4. db' = db /\ slots' = slots /\ calm' = calm /\ doubt \subseteq doubt'
      /\ (master'.pc = "start" => master.pc = "start")
  BY DEF Spread
<1> QED BY <1>1, <1>3, <1>4, ReaderSlots

LEMMA SpreadCounted ==
  ASSUME IndInv, FlowInv, NEW e, Spread(e)
  PROVE  Counted'
<1>1. ASSUME NEW n \in DOMAIN db.nodes \ doubt' PROVE OneTask(n)'
  <2>1. n \notin doubt /\ OneTask(n)
    BY <1>1 DEF FlowInv, Counted, Spread
  <2>2. Creators(n)' = Creators(n)
    BY SameOwed DEF Spread
  <2>3. TasksOf(n)' = TasksOf(n)
    BY DEF TasksOf, Spread
  <2>4. Stream \in Seq(EventRows) /\ Stream # <<>> /\ Stream' = Tail(Stream) /\ ~IsEvent(Head(Stream), "Create", n)
    BY DEF Spread, IsEvent
  <2>5. Has(Stream', "Create", n) = {} <=> Has(Stream, "Create", n) = {}
    BY <2>4, HasTail
  <2>6. \A i \in Has(Stream', "Create", n) : i \in Nat /\ i + 1 \in Has(Stream, "Create", n)
    BY <2>4, HasTail
  <2>7. \A i, j \in Has(Stream', "Create", n) : i = j
    <3>1. \A i, j \in Has(Stream, "Create", n) : i = j
      BY <2>1 DEF OneTask
    <3>2. \A i, j \in Has(Stream', "Create", n) : i + 1 = j + 1
      BY <2>6, <3>1
    <3> QED BY <2>6, <3>2
  <2>8. Has(Stream, "Update", n) = {} => Has(Stream', "Update", n) = {}
    <3>1. \A i \in Has(Stream', "Update", n) : i + 1 \in Has(Stream, "Update", n)
      BY <2>4, HasTail
    <3> QED BY <3>1
  <2>9. master' = master
    BY DEF Spread
  <2> QED BY <2>1, <2>2, <2>3, <2>5, <2>7, <2>8, <2>9 DEF OneTask
<1> QED BY <1>1 DEF Counted, Spread

LEMMA SpreadEnding ==
  ASSUME IndInv, FlowInv, NEW e, Spread(e)
  PROVE  Ending'
<1>1. ASSUME NEW t \in TaskSlots, tasks[t].id # Null, tasks[t].id \notin DOMAIN db.nodes \cup doubt'
      PROVE  Ends(t)'
  <2> DEFINE n == tasks[t].id
  <2>1. Ends(t)
    BY <1>1 DEF FlowInv, Ending, Spread
  <2>2. /\ tasks[t].inbox \in Seq(EventRows) /\ tasks'[t].inbox = Append(tasks[t].inbox, e)
        /\ e \in EventRows /\ e = Head(Stream) /\ tasks'[t].id = n
        /\ Stream \in Seq(EventRows) /\ Stream # <<>> /\ Stream' = Tail(Stream) /\ slots' = slots
    BY <1>1 DEF Spread
  <2>3. Has(tasks'[t].inbox, "Delete", n)
          = Has(tasks[t].inbox, "Delete", n)
              \cup (IF IsEvent(e, "Delete", n) THEN {Len(tasks[t].inbox) + 1} ELSE {})
    BY <2>2, HasAppend
  <2>4. ASSUME Has(Stream, "Delete", n) # {}
        PROVE  Has(Stream', "Delete", n) # {} \/ Has(tasks'[t].inbox, "Delete", n) # {}
    <3>1. CASE IsEvent(e, "Delete", n)
      BY <2>3, <3>1
    <3>2. CASE ~IsEvent(e, "Delete", n)
      <4>1. Has(Stream', "Delete", n) = {} <=> Has(Stream, "Delete", n) = {}
        BY <2>2, <3>2, HasTail
      <4> QED BY <2>4, <4>1
    <3> QED BY <3>1, <3>2
  <2>5. \/ \E s \in Slots : Deletes(slots[s], n)
        \/ Has(Stream', "Delete", n) # {}
        \/ Has(tasks'[t].inbox, "Delete", n) # {}
    BY <2>1, <2>3, <2>4 DEF Ends
  <2> QED BY <2>2, <2>5 DEF Ends
<1>2. \A t \in TaskSlots : tasks'[t].id = tasks[t].id
  BY DEF Spread
<1> QED BY <1>1, <1>2 DEF Ending, Spread

LEMMA SpreadTold ==
  ASSUME IndInv, FlowInv, NEW e, Spread(e)
  PROVE  Told' /\ Heard'
<1>1. /\ e \in EventRows /\ e = Head(Stream) /\ db' = db /\ slots' = slots /\ doubt \subseteq doubt'
      /\ Stream \in Seq(EventRows) /\ Stream # <<>> /\ Stream' = Tail(Stream)
  BY DEF Spread
<1>2. ASSUME NEW n \in DOMAIN db.nodes \ doubt' PROVE Right(n) /\ Right(n)'
  <2>1. Right(n)
    BY <1>1, <1>2 DEF FlowInv, Told
  <2>2. LastHas(Stream, n, db.nodes[n]) => LastHas(Stream', n, db.nodes[n])
    BY <1>1, LastTail
  <2>3. Owed(n)' = Owed(n)
    BY <1>1, SameOwed
  <2> QED BY <1>1, <2>1, <2>2, <2>3 DEF Right
<1>3. ASSUME NEW t \in TaskSlots, tasks[t].id \in DOMAIN db.nodes \ doubt' PROVE Follows(t)'
  <2> DEFINE n == tasks[t].id
             ip == db.nodes[n]
             x == tasks[t]
             y == tasks'[t]
  <2>1. n # Null
    BY <1>3, RowTypes DEF IndInv, TypeOK
  <2>2. /\ y.id = n /\ y.ip = x.ip /\ y.view = x.view /\ y.pc = x.pc
        /\ x.inbox \in Seq(EventRows) /\ y.inbox = Append(x.inbox, e)
    BY <1>3, <2>1 DEF Spread
  <2>3. Follows(t) /\ Right(n)
    BY <1>1, <1>2, <1>3 DEF FlowInv, Heard
  <2>4. Owed(n)' = Owed(n)
    <3>1. \A m : Owed(m)' = Owed(m)
      BY <1>1, SameOwed
    <3> QED BY <2>2, <3>1
  <2>5. Has(y.inbox, "Update", n)
          = Has(x.inbox, "Update", n) \cup (IF IsEvent(e, "Update", n) THEN {Len(x.inbox) + 1} ELSE {})
    BY <1>1, <2>2, HasAppend
  <2>6. ASSUME ~Owed(n), Has(Stream', "Update", n) = {} PROVE UpToDate(y, n)
    <3>1. LastHas(Stream, n, ip)
      BY <2>3, <2>6 DEF Right
    <3>2. CASE IsEvent(e, "Update", n)
      <4>1. e.ip = ip
        BY <1>1, <2>6, <3>1, <3>2, LastTail
      <4>2. LastHas(y.inbox, n, ip)
        BY <1>1, <2>2, <3>2, <4>1, LastAppend
      <4> QED BY <2>5, <3>2, <4>2 DEF UpToDate
    <3>3. CASE ~IsEvent(e, "Update", n)
      <4>1. Has(Stream, "Update", n) = {}
        BY <1>1, <2>6, <3>3, HasTail
      <4>2. UpToDate(x, n)
        BY <2>3, <2>6, <4>1 DEF Follows
      <4>3. LastHas(x.inbox, n, ip) => LastHas(y.inbox, n, ip)
        BY <1>1, <2>2, <3>3, LastAppend
      <4>4. Has(y.inbox, "Update", n) = Has(x.inbox, "Update", n)
        BY <2>5, <3>3
      <4> HIDE DEF x, y
      <4> QED BY <2>2, <4>2, <4>3, <4>4 DEF UpToDate
    <3> QED BY <3>2, <3>3
  <2>7. UpToDate(tasks[t], n)' <=> UpToDate(y, n)
    BY <1>1, <2>2 DEF UpToDate
  <2>8. tasks'[t].id = tasks[t].id
    BY <2>2
  <2> HIDE DEF x, y
  <2> QED BY <2>4, <2>6, <2>7, <2>8 DEF Follows
<1>4. Told'
  BY <1>1, <1>2 DEF Told
<1>5. Heard'
  <2>1. \A t \in TaskSlots : tasks'[t].id = tasks[t].id
    BY DEF Spread
  <2> QED BY <1>1, <1>3, <2>1 DEF Heard
<1> QED BY <1>4, <1>5

LEMMA TakesFlow ==
  ASSUME IndInv, FlowInv, MasterTakes
  PROVE  FlowInv'
<1>1. CASE Head(events).type = "Create"
  BY <1>1, TakesCreation
<1>2. CASE Head(events).type # "Create"
  <2>1. Spread(Head(events)) /\ FlowTypes'
    BY <1>2, SpreadIs
  <2> QED BY <2>1, SpreadSlots, SpreadCounted, SpreadEnding, SpreadTold DEF FlowInv, SlotsFlow
<1> QED BY <1>1, <1>2

\* node_master is done with the creation e.
Done(e) ==
  /\ master.pc = "create" /\ master'.pc = "select"
  /\ e \in Pending /\ e \in EventRows /\ e = Head(Stream) /\ e.type = "Create"
  /\ Stream \in Seq(EventRows) /\ Stream # <<>> /\ Stream' = Tail(Stream)
  /\ FlowTypes'
  /\ UNCHANGED <<db, slots, calm>> /\ doubt \subseteq doubt'

\* Task f is for the node it has found.
Started(f, n) ==
  /\ f \in TaskSlots /\ n \in DOMAIN db.nodes /\ n \in Nat /\ n # Null /\ n < db.next.node
  /\ tasks[f].id = Null
  /\ tasks'[f].id = n /\ tasks'[f].ip = db.nodes[n] /\ tasks'[f].view = {} /\ tasks'[f].inbox = <<>>
  /\ \A t \in TaskSlots : t # f => tasks'[t] = tasks[t]

\* It found none, or one, or it gave up a node that may be there.
Outcome(e) ==
  \/ NodesWithIp(db, e.ip) = {} /\ tasks' = tasks
  \/ \E n \in NodesWithIp(db, e.ip) : \E f : Started(f, n)
  \/ e.id \in doubt' /\ tasks' = tasks

LEMMA TaskIs ==
  ASSUME NEW n \in Nat, NEW ip
  PROVE  /\ IsTask(Task(n, ip)) /\ Task(n, ip).id = n /\ Task(n, ip).ip = ip
         /\ Task(n, ip).view = {} /\ Task(n, ip).inbox = <<>> /\ Task(n, ip).pc = "idle"
<1>1. Task(n, ip) = [id |-> n, pc |-> "idle", ip |-> ip, view |-> {}, inbox |-> <<>>]
  <2> DEFINE a == [NoTask EXCEPT !.id = n]
             b == [a EXCEPT !.pc = "idle"]
             c == [b EXCEPT !.ip = ip]
             none == {}
             empty == <<>>
  <2> HIDE DEF none, empty
  <2>1. NoTask = [id |-> Null, pc |-> "free", ip |-> Null, view |-> none, inbox |-> empty]
    BY DEF NoTask, none, empty
  <2>2. a = [id |-> n, pc |-> "free", ip |-> Null, view |-> none, inbox |-> empty]
    BY <2>1
  <2> HIDE DEF a
  <2>3. b = [id |-> n, pc |-> "idle", ip |-> Null, view |-> none, inbox |-> empty]
    BY <2>2
  <2> HIDE DEF b
  <2>4. c = [id |-> n, pc |-> "idle", ip |-> ip, view |-> none, inbox |-> empty]
    BY <2>3
  <2>5. Task(n, ip) = c
    BY DEF Task, a, b
  <2> QED BY <2>4, <2>5 DEF none, empty
<1>2. <<>> \in Seq(EventRows)
  OBVIOUS
<1> QED BY <1>1, <1>2 DEF IsTask

LEMMA LooksUpIs ==
  ASSUME IndInv, FlowInv, MasterLooksUp
  PROVE  FlowInv' \/ \E e : Done(e) /\ Outcome(e)
<1> DEFINE e == master.event
           n == GetByIp(db, e.ip)
           f == First(FreeTask)
           idle == Selecting
<1>1. master.pc = "create" /\ UNCHANGED <<db, slots, events, calm, doubt>>
  BY DEF MasterLooksUp
<1>2. Tables(db) /\ FlowTypes /\ e \in EventRows /\ e.type = "Create"
      /\ events \in Seq(EventRows)
      /\ master \in [pc : {"start", "select", "create"}, event : EventRows \cup {NoEvent}, tries : Nat]
  BY <1>1, StreamType DEF IndInv, TypeOK, FlowInv, FlowTypes
<1>3. Stream = <<e>> \o events /\ <<e>> \in Seq(EventRows)
  BY <1>1, <1>2 DEF Stream
<1>4. Stream \in Seq(EventRows) /\ Stream # <<>> /\ e = Head(Stream) /\ Tail(Stream) = events
  BY <1>2, <1>3
<1>5. e \in Pending
  BY <1>2, <1>4, RangeTail DEF Pending
<1>6. ASSUME master' = idle PROVE master'.pc = "select" /\ Stream' = Tail(Stream)
  <2>1. master'.pc = "select"
    BY <1>6 DEF Selecting
  <2>2. Stream' = events
    BY <1>1, <1>2, <2>1 DEF Stream
  <2> QED BY <1>4, <2>1, <2>2
<1>7. ASSUME master' = idle, tasks' = [t \in TaskSlots |-> tasks'[t]],
             \A t \in TaskSlots : IsTask(tasks'[t])
      PROVE  FlowTypes'
  <2>1. master' \in [pc : {"start", "select", "create"}, event : EventRows \cup {NoEvent}, tries : Nat]
    BY <1>7 DEF Selecting
  <2>2. master'.pc = "select"
    BY <1>7 DEF Selecting
  <2> QED BY <1>1, <1>2, <1>7, <2>1, <2>2 DEF FlowTypes
<1>8. CASE n # Null
  <2>1. FreeTask # {} /\ tasks' = [tasks EXCEPT ![f] = Task(n, db.nodes[n])] /\ master' = idle
    BY <1>8 DEF MasterLooksUp
  <2>2. n \in NodesWithIp(db, e.ip)
    BY <1>2, <1>8, FoundByIp
  <2>3. n \in DOMAIN db.nodes /\ n \in Nat /\ n < db.next.node
    BY <1>2, <2>2, RowTypes DEF NodesWithIp, Tables, IsTable
  <2>4. f \in TaskSlots /\ tasks[f].id = Null
    <3>1. FreeTask \in SUBSET (Nat \ {0})
      <4>1. Cardinality(TaskSlots) \in Nat
        BY ConfigCommandsAssumption, FS_CardinalityType
      <4>2. \A t \in TaskSlots : t \in Nat \ {0}
        BY ConfigCommandsAssumption, <4>1
      <4> QED BY <4>2 DEF FreeTask
    <3>2. f \in FreeTask
      BY <2>1, <3>1, FirstFacts
    <3> QED BY <3>2 DEF FreeTask
  <2>5. tasks = [t \in TaskSlots |-> tasks[t]] /\ \A t \in TaskSlots : IsTask(tasks[t])
    BY <1>2 DEF FlowTypes
  <2> DEFINE new == Task(n, db.nodes[n])
  <2>6. /\ IsTask(new) /\ new.id = n /\ new.ip = db.nodes[n] /\ new.view = {} /\ new.inbox = <<>>
    BY <2>3, TaskIs
  <2> HIDE DEF n, f, e, idle, new
  <2>7. /\ tasks' = [t \in TaskSlots |-> tasks'[t]] /\ tasks'[f] = new
        /\ \A t \in TaskSlots : t # f => tasks'[t] = tasks[t]
    BY <2>1, <2>4, <2>5 DEF new
  <2>8. FlowTypes'
    <3>1. \A t \in TaskSlots : IsTask(tasks'[t])
      BY <2>5, <2>6, <2>7
    <3> QED BY <1>7, <2>1, <2>7, <3>1
  <2>9. Started(f, n)
    BY <1>8, <2>3, <2>4, <2>6, <2>7 DEF Started
  <2>10. Done(e)
    BY <1>1, <1>2, <1>4, <1>5, <1>6, <2>1, <2>8 DEF Done
  <2> QED BY <2>2, <2>9, <2>10 DEF Outcome
<1>9. CASE n = Null
  <2>1. tasks' = tasks
    BY <1>9 DEF MasterLooksUp
  <2>2. NodesWithIp(db, e.ip) = {}
    <3>1. NodesWithIp(db, e.ip) \in SUBSET (Nat \ {0})
      BY <1>2, RowTypes DEF NodesWithIp, Null
    <3> QED BY <1>9, <3>1, FirstFacts DEF GetByIp
  <2>3. tasks = [t \in TaskSlots |-> tasks[t]] /\ \A t \in TaskSlots : IsTask(tasks[t])
    BY <1>2 DEF FlowTypes
  <2>4. CASE master.tries + 1 = MaxTries
    <3>1. master' = idle
      BY <1>9, <2>4 DEF MasterLooksUp, TryAgain, GivesUp
    <3>2. FlowTypes'
      BY <1>7, <2>1, <2>3, <3>1
    <3>3. Done(e)
      <4> HIDE DEF n, e, idle
      <4> QED BY <1>1, <1>2, <1>4, <1>5, <1>6, <3>1, <3>2 DEF Done
    <3> QED BY <2>1, <2>2, <3>3 DEF Outcome
  <2>5. CASE master.tries + 1 # MaxTries
    <3>1. master' = [master EXCEPT !.tries = @ + 1]
      BY <1>9, <2>5 DEF MasterLooksUp, TryAgain, GivesUp
    <3>2. /\ master' \in [pc : {"start", "select", "create"}, event : EventRows \cup {NoEvent}, tries : Nat]
          /\ master'.pc = "create" /\ master'.event = e
      BY <1>1, <1>2, <3>1
    <3>3. Stream' = Stream
      BY <1>1, <3>2 DEF Stream
    <3>4. FlowTypes'
      <4> HIDE DEF e
      <4> QED BY <1>1, <1>2, <2>1, <3>2 DEF FlowTypes, e
    <3>5. master'.pc = "start" <=> master.pc = "start"
      BY <1>1, <3>2
    <3> QED BY <1>1, <2>1, <3>3, <3>4, <3>5, QuietFlow
  <2> QED BY <2>4, <2>5
<1> QED BY <1>8, <1>9

\* A lookup that fails leaves everything as it was, or gives the creation up.
LEMMA LookupFailsIs ==
  ASSUME IndInv, FlowInv, LookupFails
  PROVE  FlowInv' \/ \E e : Done(e) /\ Outcome(e)
<1> DEFINE e == master.event
<1>1. master.pc = "create" /\ UNCHANGED <<db, slots, events, tasks, calm>> /\ TryAgain
  BY DEF LookupFails
<1>2. /\ FlowTypes /\ e \in EventRows /\ e.type = "Create" /\ events \in Seq(EventRows)
      /\ master \in [pc : {"start", "select", "create"}, event : EventRows \cup {NoEvent}, tries : Nat]
  BY <1>1, StreamType DEF FlowInv, FlowTypes
<1>3. Stream = <<e>> \o events /\ <<e>> \in Seq(EventRows)
  BY <1>1, <1>2 DEF Stream
<1>4. Stream \in Seq(EventRows) /\ Stream # <<>> /\ e = Head(Stream) /\ Tail(Stream) = events
  BY <1>2, <1>3
<1>5. e \in Pending
  BY <1>2, <1>4, RangeTail DEF Pending
<1>6. CASE GivesUp
  <2>1. /\ master'.pc = "select" /\ doubt' = doubt \cup {e.id}
        /\ master' \in [pc : {"start", "select", "create"}, event : EventRows \cup {NoEvent}, tries : Nat]
    BY <1>1, <1>6 DEF LookupFails, TryAgain, Selecting
  <2>2. Stream' = Tail(Stream)
    BY <1>1, <1>4, <2>1 DEF Stream
  <2> HIDE DEF e
  <2>3. FlowTypes'
    BY <1>1, <1>2, <2>1 DEF FlowTypes
  <2>4. Done(e)
    BY <1>1, <1>2, <1>4, <1>5, <2>1, <2>2, <2>3 DEF Done
  <2>5. Outcome(e)
    BY <1>1, <2>1 DEF Outcome
  <2> QED BY <2>4, <2>5
<1>7. CASE ~GivesUp
  <2>1. master' = [master EXCEPT !.tries = @ + 1] /\ doubt' = doubt
    BY <1>1, <1>7 DEF LookupFails, TryAgain
  <2>2. /\ master' \in [pc : {"start", "select", "create"}, event : EventRows \cup {NoEvent}, tries : Nat]
        /\ master'.pc = "create" /\ master'.event = e
    BY <1>1, <1>2, <2>1
  <2>3. Stream' = Stream
    BY <1>1, <2>2 DEF Stream
  <2>4. FlowTypes'
    <3> HIDE DEF e
    <3> QED BY <1>1, <1>2, <2>2 DEF FlowTypes, e
  <2>5. master'.pc = "start" <=> master.pc = "start"
    BY <1>1, <2>2
  <2> QED BY <1>1, <2>1, <2>3, <2>4, <2>5, QuietFlow
<1> QED BY <1>6, <1>7

\* The stream without the creation at its head.
LEMMA DoneStream ==
  ASSUME NEW e, Done(e), NEW n
  PROVE  /\ Has(Stream', "Update", n) = {} <=> Has(Stream, "Update", n) = {}
         /\ Has(Stream', "Delete", n) = {} <=> Has(Stream, "Delete", n) = {}
         /\ e.id # n => (Has(Stream', "Create", n) = {} <=> Has(Stream, "Create", n) = {})
         /\ (\A i, j \in Has(Stream, "Create", n) : i = j) =>
              /\ \A i, j \in Has(Stream', "Create", n) : i = j
              /\ e.id = n => Has(Stream, "Create", n) # {} /\ Has(Stream', "Create", n) = {}
<1>1. Stream \in Seq(EventRows) /\ Stream # <<>> /\ Stream' = Tail(Stream) /\ Head(Stream) = e
      /\ e.type = "Create"
  BY DEF Done
<1>2. \A type : ~IsEvent(e, type, n) => (Has(Stream', type, n) = {} <=> Has(Stream, type, n) = {})
  BY <1>1, HasTail
<1>3. \A i \in Has(Stream', "Create", n) : i \in Nat \ {0} /\ i + 1 \in Has(Stream, "Create", n)
  <2>1. \A i \in Has(Stream', "Create", n) : i + 1 \in Has(Stream, "Create", n)
    BY <1>1, HasTail
  <2>2. DOMAIN Stream' = 1 .. Len(Stream) - 1 /\ Len(Stream) \in Nat
    BY <1>1, TailFacts
  <2>3. \A i \in Has(Stream', "Create", n) : i \in DOMAIN Stream'
    BY DEF Has
  <2> QED BY <2>1, <2>2, <2>3
<1>4. e.id = n => 1 \in Has(Stream, "Create", n)
  BY <1>1, HasTail DEF IsEvent
<1>5. ASSUME \A i, j \in Has(Stream, "Create", n) : i = j
      PROVE  /\ \A i, j \in Has(Stream', "Create", n) : i = j
             /\ e.id = n => Has(Stream, "Create", n) # {} /\ Has(Stream', "Create", n) = {}
  <2>1. \A i, j \in Has(Stream', "Create", n) : i + 1 = j + 1
    BY <1>3, <1>5
  <2>2. \A i, j \in Has(Stream', "Create", n) : i = j
    BY <1>3, <2>1
  <2>3. ASSUME e.id = n PROVE Has(Stream', "Create", n) = {}
    <3>1. \A i \in Has(Stream', "Create", n) : i + 1 = 1 /\ i \in Nat \ {0}
      BY <1>3, <1>4, <1>5, <2>3
    <3> QED BY <3>1
  <2> QED BY <1>4, <2>2, <2>3
<1> QED BY <1>1, <1>2, <1>5 DEF IsEvent

\* Who is started for a node that is not in doubt is started for the one created.
LEMMA DoneCounted ==
  ASSUME IndInv, FlowInv, NEW e, Done(e), Outcome(e)
  PROVE  Counted'
<1>1. Found(e)
  BY DEF Done, FlowInv, Creations
<1>2. master'.pc # "start" /\ master.pc # "start" /\ db' = db /\ doubt \subseteq doubt'
      /\ slots' = slots
  BY DEF Done
<1>3. ASSUME NEW m \in DOMAIN db.nodes \ doubt' PROVE OneTask(m)'
  <2>0. m \in DOMAIN db.nodes \ doubt
    BY <1>2, <1>3
  <2>1. OneTask(m) /\ m # Null
    BY <2>0, RowTypes DEF FlowInv, Counted, IndInv, TypeOK
  <2>2. Creators(m)' = Creators(m)
    BY <1>2, SameOwed
  <2>3. e.id = m => NodesWithIp(db, e.ip) = {m}
    BY <1>1, <2>0 DEF Found
  <2>4. /\ Has(Stream', "Update", m) = {} <=> Has(Stream, "Update", m) = {}
        /\ e.id # m => (Has(Stream', "Create", m) = {} <=> Has(Stream, "Create", m) = {})
        /\ \A i, j \in Has(Stream', "Create", m) : i = j
        /\ e.id = m => Has(Stream, "Create", m) # {} /\ Has(Stream', "Create", m) = {}
    BY <2>1, DoneStream DEF OneTask
  <2>5. CASE e.id # m
    <3>1. TasksOf(m)' = TasksOf(m)
      <4>1. CASE tasks' = tasks
        BY <4>1 DEF TasksOf
      <4>2. CASE \E n \in NodesWithIp(db, e.ip) : \E f : Started(f, n)
        <5>0. PICK n \in NodesWithIp(db, e.ip) : \E f : Started(f, n)
          BY <4>2
        <5>1. PICK f : Started(f, n)
          BY <5>0
        <5>2. n # m
          BY <1>1, <2>0, <2>5 DEF Found
        <5>3. \A t \in TaskSlots : tasks'[t].id = m <=> tasks[t].id = m
          BY <2>1, <5>1, <5>2 DEF Started
        <5> QED BY <5>3 DEF TasksOf
      <4> QED BY <4>1, <4>2 DEF Outcome
    <3> QED BY <1>2, <2>1, <2>2, <2>4, <2>5, <3>1 DEF OneTask
  <2>6. CASE e.id = m
    <3>0. PICK n \in NodesWithIp(db, e.ip) : \E f : Started(f, n)
      BY <1>3, <2>3, <2>6 DEF Outcome
    <3>1. PICK f : Started(f, n)
      BY <3>0
    <3>2. n = m
      BY <2>3, <2>6
    <3>3. Creators(m) = {} /\ TasksOf(m) = {}
      BY <2>1, <2>4, <2>6 DEF OneTask
    <3>4. \A t \in TaskSlots : tasks'[t].id = m <=> t = f
      BY <2>1, <3>1, <3>2, <3>3 DEF Started, TasksOf
    <3>5. f \in TaskSlots /\ TasksOf(m)' = {f}
      BY <2>1, <3>1, <3>4 DEF Started, TasksOf
    <3> QED BY <2>2, <2>4, <2>6, <3>3, <3>5 DEF OneTask
  <2> QED BY <2>5, <2>6
<1> QED BY <1>2, <1>3 DEF Counted

LEMMA DoneOthers ==
  ASSUME IndInv, FlowInv, NEW e, Done(e), Outcome(e)
  PROVE  SlotsFlow' /\ Ending' /\ Told' /\ Heard'
<1>1. /\ db' = db /\ doubt \subseteq doubt' /\ slots' = slots /\ calm' = calm /\ master'.pc # "start"
      /\ FlowTypes'
      /\ Stream \in Seq(EventRows) /\ Stream # <<>> /\ Stream' = Tail(Stream)
  BY DEF Done
<1>2. ASSUME NEW t \in TaskSlots
      PROVE  \/ tasks'[t] = tasks[t]
             \/ /\ tasks'[t].id \in DOMAIN db.nodes /\ tasks'[t].id < db.next.node
                /\ tasks'[t].ip = db.nodes[tasks'[t].id] /\ tasks'[t].view = {} /\ tasks'[t].inbox = <<>>
  BY DEF Started, Outcome
<1>3. \A n : Owed(n)' = Owed(n)
  BY <1>1, SameOwed
<1>4. DOMAIN (<<>>) = {}
  OBVIOUS
<1>5. SlotsFlow'
  <2>1. \A z \in Range(Stream') : z \in Range(Stream)
    BY <1>1, RangeTail
  <2>2. ASSUME NEW t \in TaskSlots
        PROVE  /\ tasks'[t].id < db.next.node
               /\ \A z \in Range(tasks'[t].inbox) : z \in Range(tasks[t].inbox) \cup Range(Stream)
    <3>1. CASE tasks'[t] = tasks[t]
      BY <3>1 DEF FlowInv, Given
    <3>2. CASE tasks'[t] # tasks[t]
      <4>1. tasks'[t].id < db.next.node /\ tasks'[t].inbox = <<>>
        BY <1>2, <3>2
      <4>2. Range(tasks'[t].inbox) = {}
        BY <1>4, <4>1 DEF Range
      <4> QED BY <4>1, <4>2
    <3> QED BY <3>1, <3>2
  <2> QED BY <1>1, <2>1, <2>2, ReaderSlots
<1>6. Ending'
  <2>1. ASSUME NEW t \in TaskSlots, tasks'[t].id # Null, tasks'[t].id \notin DOMAIN db.nodes \cup doubt'
        PROVE  Ends(t)'
    <3>1. tasks'[t] = tasks[t]
      BY <1>2, <2>1
    <3>2. Ends(t)
      BY <1>1, <2>1, <3>1 DEF FlowInv, Ending
    <3>3. \A n : Has(Stream', "Delete", n) = {} <=> Has(Stream, "Delete", n) = {}
      BY DoneStream
    <3> QED BY <1>1, <3>1, <3>2, <3>3 DEF Ends
  <2> QED BY <1>1, <2>1 DEF Ending
<1>7. Told'
  <2>1. ASSUME NEW n \in DOMAIN db.nodes \ doubt' PROVE Right(n)'
    <3>1. Right(n)
      BY <1>1, <2>1 DEF FlowInv, Told
    <3>2. LastHas(Stream, n, db.nodes[n]) => LastHas(Stream', n, db.nodes[n])
      BY <1>1, LastTail
    <3> QED BY <1>1, <1>3, <3>1, <3>2 DEF Right
  <2> QED BY <1>1, <2>1 DEF Told
<1>8. Heard'
  <2>1. ASSUME NEW t \in TaskSlots, tasks'[t].id \in DOMAIN db.nodes \ doubt' PROVE Follows(t)'
    <3>1. CASE tasks'[t] = tasks[t]
      <4>1. Follows(t)
        BY <1>1, <2>1, <3>1 DEF FlowInv, Heard
      <4>2. \A n : Has(Stream', "Update", n) = {} <=> Has(Stream, "Update", n) = {}
        BY DoneStream
      <4>3. UpToDate(tasks[t], tasks[t].id)' <=> UpToDate(tasks[t], tasks[t].id)
        BY <1>1, <3>1 DEF UpToDate
      <4> QED BY <1>3, <3>1, <4>1, <4>2, <4>3 DEF Follows
    <3>2. CASE tasks'[t] # tasks[t]
      <4>1. /\ tasks'[t].ip = db.nodes[tasks'[t].id] /\ tasks'[t].view = {} /\ tasks'[t].inbox = <<>>
        BY <1>2, <3>2
      <4>2. Has(tasks'[t].inbox, "Update", tasks'[t].id) = {}
        BY <1>4, <4>1 DEF Has
      <4>3. UpToDate(tasks[t], tasks[t].id)'
        BY <1>1, <4>1, <4>2 DEF UpToDate
      <4> QED BY <4>3 DEF Follows
    <3> QED BY <3>1, <3>2
  <2> QED BY <1>1, <2>1 DEF Heard
<1> QED BY <1>5, <1>6, <1>7, <1>8

LEMMA LooksUpFlow ==
  ASSUME IndInv, FlowInv, MasterLooksUp \/ LookupFails
  PROVE  FlowInv'
<1>1. CASE ~FlowInv'
  <2>1. PICK e : Done(e) /\ Outcome(e)
    BY <1>1, LooksUpIs, LookupFailsIs
  <2> QED BY <2>1, DoneCounted, DoneOthers DEF FlowInv, SlotsFlow
<1> QED BY <1>1

-----------------------------------------------------------------------------
(* The nodes at the start.                                                   *)

\* init_nodes gives every node one task, the one of its place among them.
Place(ids, n) == Cardinality({m \in ids : m <= n})

LEMMA Places ==
  ASSUME NEW ids \in SUBSET Nat, IsFiniteSet(ids), NEW n \in ids, NEW m \in ids
  PROVE  /\ Place(ids, n) \in 1 .. Cardinality(ids)
         /\ Place(ids, n) = Place(ids, m) => n = m
<1> DEFINE upto(k) == {i \in ids : i <= k}
<1>1. ASSUME NEW k \in ids
      PROVE  IsFiniteSet(upto(k)) /\ Cardinality(upto(k)) \in 1 .. Cardinality(ids)
  <2>1. IsFiniteSet(upto(k)) /\ Cardinality(upto(k)) <= Cardinality(ids)
    BY FS_Subset
  <2>2. Cardinality(upto(k)) \in Nat /\ Cardinality(ids) \in Nat
    BY <2>1, FS_CardinalityType
  <2>3. k \in upto(k)
    OBVIOUS
  <2>4. Cardinality(upto(k)) # 0
    BY <2>1, <2>3, FS_EmptySet
  <2> QED BY <2>1, <2>2, <2>4
<1>2. ASSUME NEW j \in ids, NEW k \in ids, j < k PROVE Cardinality(upto(j)) # Cardinality(upto(k))
  <2>1. upto(j) \in SUBSET upto(k)
    <3>1. \A i \in ids : i <= j => i <= k
      BY <1>2
    <3> QED BY <3>1
  <2>2. k \in upto(k) /\ k \notin upto(j)
    BY <1>2
  <2> QED BY <1>1, <2>1, <2>2, FS_Subset
<1>3. n \in Nat /\ m \in Nat
  OBVIOUS
<1>4. CASE n = m
  BY <1>1, <1>4 DEF Place
<1>5. CASE n < m
  BY <1>1, <1>2, <1>5 DEF Place
<1>6. CASE m < n
  BY <1>1, <1>2, <1>6 DEF Place
<1> QED BY <1>3, <1>4, <1>5, <1>6

LEMMA NthIs ==
  ASSUME Tables(db), NEW t
  PROVE  /\ IsFiniteSet(DOMAIN db.nodes)
         /\ Nth(t) # Null => Nth(t) \in DOMAIN db.nodes
         /\ \A n \in DOMAIN db.nodes : Nth(t) = n <=> Place(DOMAIN db.nodes, n) = t
<1> DEFINE ids == DOMAIN db.nodes
           found == {n \in ids : Place(ids, n) = t}
<1>1. /\ \A n \in ids : n \in Nat /\ n # Null /\ n < db.next.node
      /\ db.next.node \in Nat
  BY RowTypes DEF Tables, IsTable
<1>2. IsFiniteSet(ids)
  <2>1. \A n \in ids : n <= db.next.node
    BY <1>1
  <2> HIDE DEF ids
  <2> QED BY <1>1, <2>1, FS_BoundedSetOfNaturals
<1>3. Nth(t) = First(found)
  BY DEF Nth, Place
<1>4. found \in SUBSET (Nat \ {0})
  BY <1>1 DEF Null
<1>5. IF found = {} THEN Nth(t) = Null ELSE Nth(t) \in found /\ Nth(t) # Null
  BY <1>3, <1>4, FirstFacts
<1>6. ASSUME NEW n \in ids PROVE Nth(t) = n <=> Place(ids, n) = t
  <2>1. ASSUME Place(ids, n) = t PROVE Nth(t) = n
    <3>1. n \in found
      BY <2>1
    <3>2. Nth(t) \in found
      BY <1>5, <3>1
    <3>3. Nth(t) \in ids /\ Place(ids, Nth(t)) = Place(ids, n)
      BY <2>1, <3>2
    <3>4. ids \in SUBSET Nat
      BY <1>1
    <3> HIDE DEF ids, found
    <3> QED BY <1>2, <3>3, <3>4, Places
  <2>2. ASSUME Nth(t) = n PROVE Place(ids, n) = t
    <3>1. Nth(t) # Null
      BY <1>1, <2>2
    <3>2. Nth(t) \in found
      BY <1>5, <3>1
    <3> QED BY <2>2, <3>2
  <2> QED BY <2>1, <2>2
<1>7. Nth(t) # Null => Nth(t) \in ids
  BY <1>5
<1> QED BY <1>2, <1>6, <1>7

LEMMA NodesReadFlow ==
  ASSUME IndInv, FlowInv, NodesRead
  PROVE  FlowInv'
<1> DEFINE ids == DOMAIN db.nodes
<1>1. /\ master.pc = "start" /\ Cardinality(ids) <= Cardinality(TaskSlots)
      /\ tasks' = [t \in TaskSlots |-> IF Nth(t) = Null THEN NoTask ELSE Task(Nth(t), db.nodes[Nth(t)])]
      /\ master' = [master EXCEPT !.pc = "select"]
      /\ UNCHANGED <<db, slots, events, calm, doubt>>
  BY DEF NodesRead
<1>2. Tables(db) /\ FlowTypes
  BY DEF IndInv, TypeOK, FlowInv
<1>3. /\ master' \in [pc : {"start", "select", "create"}, event : EventRows \cup {NoEvent}, tries : Nat]
      /\ master'.pc = "select"
  BY <1>1, <1>2 DEF FlowTypes
<1>4. Stream' = Stream
  BY <1>1, <1>3 DEF Stream
<1>5. ASSUME NEW t \in TaskSlots
      PROVE  /\ IsTask(tasks'[t]) /\ tasks'[t].id = Nth(t) /\ tasks'[t].inbox = <<>>
             /\ Nth(t) # Null => /\ Nth(t) \in ids /\ Nth(t) < db.next.node
                                 /\ tasks'[t].ip = db.nodes[Nth(t)] /\ tasks'[t].view = {}
  <2>1. CASE Nth(t) = Null
    <3>1. tasks'[t] = NoTask
      BY <1>1, <2>1
    <3> QED BY <2>1, <3>1, NoTaskIs
  <2>2. CASE Nth(t) # Null
    <3>1. Nth(t) \in ids
      BY <1>2, <2>2, NthIs
    <3>2. Nth(t) \in Nat /\ Nth(t) < db.next.node
      BY <1>2, <3>1, RowTypes DEF Tables, IsTable
    <3>3. tasks'[t] = Task(Nth(t), db.nodes[Nth(t)])
      BY <1>1, <2>2
    <3> QED BY <2>2, <3>1, <3>2, <3>3, TaskIs
  <2> QED BY <2>1, <2>2
<1>6. FlowTypes'
  <2>1. tasks' = [t \in TaskSlots |-> tasks'[t]]
    BY <1>1
  <2>2. \A t \in TaskSlots : IsTask(tasks'[t])
    BY <1>5
  <2> QED BY <1>1, <1>2, <1>3, <2>1, <2>2 DEF FlowTypes
<1>7. DOMAIN (<<>>) = {}
  OBVIOUS
<1>8. SlotsFlow'
  <2>1. ASSUME NEW t \in TaskSlots
        PROVE  /\ tasks'[t].id < db.next.node
               /\ \A z \in Range(tasks'[t].inbox) : z \in Range(tasks[t].inbox) \cup Range(Stream)
    <3>1. Range(tasks'[t].inbox) = {}
      BY <1>5, <1>7 DEF Range
    <3>2. Null < db.next.node
      BY <1>2, RowTypes DEF Null
    <3> QED BY <1>5, <3>1, <3>2
  <2> QED BY <1>1, <1>3, <1>4, <1>6, <2>1, ReaderSlots
<1>9. \A n : Owed(n)' = Owed(n) /\ Creators(n)' = Creators(n)
  BY <1>1, SameOwed
<1>10. Counted'
  <2>1. ASSUME NEW n \in ids \ doubt PROVE OneTask(n)'
    <3>1. OneTask(n)
      BY <2>1 DEF FlowInv, Counted
    <3>2. Creators(n) = {} /\ Has(Stream, "Create", n) = {}
      BY <1>1, <3>1 DEF OneTask
    <3>3. n # Null
      BY <1>2, RowTypes
    <3>4. \A t \in TaskSlots : tasks'[t].id = n <=> t = Place(ids, n)
      BY <1>2, <1>5, NthIs
    <3>5. Place(ids, n) \in TaskSlots
      <4>1. IsFiniteSet(ids) /\ ids \in SUBSET Nat
        BY <1>2, NthIs, RowTypes
      <4>2. Place(ids, n) \in 1 .. Cardinality(ids)
        <5> HIDE DEF ids
        <5> QED BY <2>1, <4>1, Places
      <4>3. Cardinality(ids) \in Nat /\ Cardinality(TaskSlots) \in Nat
        BY <4>1, ConfigCommandsAssumption, FS_CardinalityType
      <4>4. TaskSlots = 1 .. Cardinality(TaskSlots)
        BY ConfigCommandsAssumption
      <4>5. Place(ids, n) \in 1 .. Cardinality(TaskSlots)
        <5> HIDE DEF ids
        <5> QED BY <1>1, <4>2, <4>3
      <4> QED BY <4>4, <4>5
    <3>6. TasksOf(n)' = {Place(ids, n)}
      BY <3>3, <3>4, <3>5 DEF TasksOf
    <3> QED BY <1>4, <1>9, <3>1, <3>2, <3>5, <3>6 DEF OneTask
  <2> QED BY <1>1, <2>1 DEF Counted
<1>11. Ending'
  <2>1. \A t \in TaskSlots : tasks'[t].id # Null => tasks'[t].id \in ids
    BY <1>5
  <2> QED BY <1>1, <2>1 DEF Ending
<1>12. Told'
  <2>1. ASSUME NEW n \in ids \ doubt PROVE Right(n)'
    <3>1. Right(n)
      BY <2>1 DEF FlowInv, Told
    <3> QED BY <1>1, <1>4, <1>9, <3>1 DEF Right
  <2> QED BY <1>1, <2>1 DEF Told
<1>13. Heard'
  <2>1. ASSUME NEW t \in TaskSlots, tasks'[t].id \in ids PROVE Follows(t)'
    <3>1. /\ tasks'[t].ip = db.nodes[tasks'[t].id] /\ tasks'[t].view = {} /\ tasks'[t].inbox = <<>>
      BY <1>2, <1>5, <2>1, RowTypes
    <3>2. Has(tasks'[t].inbox, "Update", tasks'[t].id) = {}
      BY <1>7, <3>1 DEF Has
    <3>3. UpToDate(tasks[t], tasks[t].id)'
      BY <1>1, <3>1, <3>2 DEF UpToDate
    <3> QED BY <3>3 DEF Follows
  <2> QED BY <1>1, <2>1 DEF Heard
<1> QED BY <1>8, <1>10, <1>11, <1>12, <1>13 DEF FlowInv, SlotsFlow

-----------------------------------------------------------------------------
(* The tasks of the nodes.                                                   *)

\* A step of task t alone; it keeps what it still has to do, and ends only when its
\* node is gone or in doubt.
LEMMA TaskStep ==
  ASSUME IndInv, FlowInv, NEW t \in TaskSlots, NEW y, IsTask(y), tasks[t] # NoTask,
         tasks' = [tasks EXCEPT ![t] = y], UNCHANGED <<db, slots, events, master, calm>>,
         doubt \subseteq doubt',
         y.id = tasks[t].id \/ (y = NoTask /\ tasks[t].id \notin DOMAIN db.nodes \ doubt'),
         \A z \in Range(y.inbox) : z \in Range(tasks[t].inbox),
         y.id = tasks[t].id /\ y.id # Null /\ Has(tasks[t].inbox, "Delete", y.id) # {} =>
           Has(y.inbox, "Delete", y.id) # {},
         y.id = tasks[t].id /\ y.id \in DOMAIN db.nodes \ doubt' /\ UpToDate(tasks[t], y.id) =>
           UpToDate(y, y.id)
  PROVE  FlowInv'
<1>1. /\ tasks = [r \in TaskSlots |-> tasks[r]] /\ \A r \in TaskSlots : IsTask(tasks[r])
      /\ master.pc # "start"
  BY DEF FlowInv, FlowTypes
<1>2. tasks'[t] = y /\ \A r \in TaskSlots : r # t => tasks'[r] = tasks[r]
  BY <1>1
<1>3. tasks' = [r \in TaskSlots |-> tasks'[r]] /\ \A r \in TaskSlots : IsTask(tasks'[r])
  BY <1>1, <1>2
<1>4. FlowTypes'
  BY <1>1, <1>3 DEF FlowInv, FlowTypes
<1>5. Stream' = Stream
  BY DEF Stream
<1>6. Null \notin DOMAIN db.nodes /\ Null < db.next.node /\ NoTask.id = Null
  BY RowTypes, NoTaskIs DEF IndInv, TypeOK, Null
<1>7. SlotsFlow'
  <2>1. ASSUME NEW r \in TaskSlots
        PROVE  /\ tasks'[r].id < db.next.node
               /\ \A z \in Range(tasks'[r].inbox) : z \in Range(tasks[r].inbox) \cup Range(Stream)
    <3>1. tasks[r].id < db.next.node
      BY DEF FlowInv, Given
    <3> QED BY <1>2, <1>6, <3>1
  <2> QED BY <1>4, <1>5, <2>1, ReaderSlots
<1>8. \A n : Owed(n)' = Owed(n) /\ Creators(n)' = Creators(n)
  BY SameOwed
<1>9. \A n \in DOMAIN db.nodes \ doubt' : TasksOf(n)' = TasksOf(n)
  <2>1. \A n \in DOMAIN db.nodes \ doubt' : \A r \in TaskSlots : tasks'[r].id = n <=> tasks[r].id = n
    BY <1>2, <1>6
  <2> QED BY <2>1 DEF TasksOf
<1>10. Counted'
  <2>1. ASSUME NEW n \in DOMAIN db.nodes \ doubt' PROVE OneTask(n)'
    <3>1. OneTask(n)
      BY <2>1 DEF FlowInv, Counted
    <3> QED BY <1>5, <1>8, <1>9, <2>1, <3>1 DEF OneTask
  <2> QED BY <2>1 DEF Counted
<1>11. Ending'
  <2>1. ASSUME NEW r \in TaskSlots, tasks'[r].id # Null, tasks'[r].id \notin DOMAIN db.nodes \cup doubt'
        PROVE  Ends(r)'
    <3>1. tasks'[r].id = tasks[r].id
      BY <1>2, <1>6, <2>1
    <3>2. Ends(r)
      BY <2>1, <3>1 DEF FlowInv, Ending
    <3>3. Has(tasks[r].inbox, "Delete", tasks[r].id) # {} => Has(tasks'[r].inbox, "Delete", tasks[r].id) # {}
      BY <1>2, <2>1, <3>1
    <3> QED BY <1>5, <3>1, <3>2, <3>3 DEF Ends
  <2> QED BY <2>1 DEF Ending
<1>12. Told'
  <2>1. ASSUME NEW n \in DOMAIN db.nodes \ doubt' PROVE Right(n)'
    <3>1. Right(n)
      BY <2>1 DEF FlowInv, Told
    <3> QED BY <1>5, <1>8, <3>1 DEF Right
  <2> QED BY <2>1 DEF Told
<1>13. Heard'
  <2>1. ASSUME NEW r \in TaskSlots, tasks'[r].id \in DOMAIN db.nodes \ doubt' PROVE Follows(r)'
    <3>1. tasks'[r].id = tasks[r].id
      BY <1>2, <1>6, <2>1
    <3>2. Follows(r)
      BY <2>1, <3>1 DEF FlowInv, Heard
    <3>3. UpToDate(tasks[r], tasks[r].id) => UpToDate(tasks'[r], tasks[r].id)
      BY <1>2, <2>1, <3>1
    <3>4. UpToDate(tasks[r], tasks[r].id)' <=> UpToDate(tasks'[r], tasks[r].id)
      BY <3>1 DEF UpToDate
    <3> QED BY <1>5, <1>8, <3>1, <3>2, <3>3, <3>4 DEF Follows
  <2> QED BY <2>1 DEF Heard
<1> QED BY <1>7, <1>10, <1>11, <1>12, <1>13 DEF FlowInv, SlotsFlow

LEMMA TaskViews ==
  ASSUME NEW x, IsTask(x), NEW view
  PROVE  LET y == [x EXCEPT !.view = view, !.pc = "idle"]
         IN  IsTask(y) /\ y.id = x.id /\ y.pc = "idle" /\ y.ip = x.ip /\ y.view = view /\ y.inbox = x.inbox
<1> DEFINE a == [x EXCEPT !.view = view, !.pc = "idle"]
           a1 == [x EXCEPT !.view = view]
           a2 == [a1 EXCEPT !.pc = "idle"]
<1>1. /\ x = [id |-> x.id, pc |-> x.pc, ip |-> x.ip, view |-> x.view, inbox |-> x.inbox]
      /\ x.id \in Nat /\ x.inbox \in Seq(EventRows)
  BY DEF IsTask
<1>2. a1 = [id |-> x.id, pc |-> x.pc, ip |-> x.ip, view |-> view, inbox |-> x.inbox]
  BY <1>1
<1>3. a = a2
  OBVIOUS
<1> HIDE DEF a1, a
<1>4. a2 = [id |-> x.id, pc |-> "idle", ip |-> x.ip, view |-> view, inbox |-> x.inbox]
  BY <1>2
<1> HIDE DEF a2
<1>5. IsTask(a) /\ a.id = x.id /\ a.pc = "idle" /\ a.ip = x.ip /\ a.view = view /\ a.inbox = x.inbox
  BY <1>1, <1>3, <1>4 DEF IsTask
<1> QED BY <1>5 DEF a

LEMMA TaskTurns ==
  ASSUME NEW x, IsTask(x), NEW ip
  PROVE  LET y == [x EXCEPT !.pc = "load", !.ip = ip]
         IN  IsTask(y) /\ y.id = x.id /\ y.pc = "load" /\ y.ip = ip /\ y.view = x.view /\ y.inbox = x.inbox
<1> DEFINE a == [x EXCEPT !.pc = "load", !.ip = ip]
           a1 == [x EXCEPT !.pc = "load"]
           a2 == [a1 EXCEPT !.ip = ip]
<1>1. /\ x = [id |-> x.id, pc |-> x.pc, ip |-> x.ip, view |-> x.view, inbox |-> x.inbox]
      /\ x.id \in Nat /\ x.inbox \in Seq(EventRows)
  BY DEF IsTask
<1>2. a1 = [id |-> x.id, pc |-> "load", ip |-> x.ip, view |-> x.view, inbox |-> x.inbox]
  BY <1>1
<1>3. a = a2
  OBVIOUS
<1> HIDE DEF a1, a
<1>4. a2 = [id |-> x.id, pc |-> "load", ip |-> ip, view |-> x.view, inbox |-> x.inbox]
  BY <1>2
<1> HIDE DEF a2
<1>5. IsTask(a) /\ a.id = x.id /\ a.pc = "load" /\ a.ip = ip /\ a.view = x.view /\ a.inbox = x.inbox
  BY <1>1, <1>3, <1>4 DEF IsTask
<1> QED BY <1>5 DEF a

LEMMA HearsFlow ==
  ASSUME IndInv, FlowInv, NEW t \in TaskSlots, TaskHears(t)
  PROVE  FlowInv'
<1> DEFINE x == tasks[t]
           n == x.id
           e == Head(x.inbox)
           q == Tail(x.inbox)
           rest == [x EXCEPT !.inbox = q]
           new == CASE Ended(t, e) -> NoTask
                    [] e.type = "Update" /\ e.id = n -> [rest EXCEPT !.pc = "load", !.ip = e.ip]
                    [] OTHER -> rest
<1>1. x.pc = "idle" /\ x.inbox # <<>> /\ UNCHANGED <<db, slots, events, master, doubt, calm>>
  BY DEF TaskHears
<1>2. tasks' = [tasks EXCEPT ![t] = new]
  BY DEF TaskHears
<1>3. IsTask(x) /\ x.inbox \in Seq(EventRows)
  BY DEF FlowInv, FlowTypes, IsTask
<1>4. x # NoTask
  BY <1>1 DEF NoTask
<1>5. e \in EventRows /\ q \in Seq(EventRows) /\ e \in Range(x.inbox) /\ \A z \in Range(q) : z \in Range(x.inbox)
  BY <1>1, <1>3, TailFacts, RangeTail
<1>6. /\ ~IsEvent(e, "Delete", n) => (Has(q, "Delete", n) = {} <=> Has(x.inbox, "Delete", n) = {})
      /\ ~IsEvent(e, "Update", n) => (Has(q, "Update", n) = {} <=> Has(x.inbox, "Update", n) = {})
      /\ IsEvent(e, "Update", n) => 1 \in Has(x.inbox, "Update", n)
  BY <1>1, <1>3, HasTail
<1>7. \A ip : LastHas(x.inbox, n, ip) =>
                /\ LastHas(q, n, ip)
                /\ IsEvent(e, "Update", n) /\ Has(q, "Update", n) = {} => e.ip = ip
  BY <1>1, <1>3, LastTail
<1>8. CASE IsEvent(e, "Delete", n)
  <2>1. tasks' = [tasks EXCEPT ![t] = NoTask]
    BY <1>2, <1>8 DEF Ended, IsEvent
  <2>2. n \notin DOMAIN db.nodes
    BY <1>5, <1>8 DEF FlowInv, Given, Old, IsEvent
  <2>3. IsTask(NoTask) /\ NoTask.id = Null /\ NoTask.inbox = <<>> /\ DOMAIN (<<>>) = {}
    BY NoTaskIs
  <2>4. Range(NoTask.inbox) = {}
    BY <2>3 DEF Range
  <2> HIDE DEF x
  <2> QED BY <1>1, <1>4, <2>1, <2>2, <2>3, <2>4, TaskStep DEF x
<1>9. CASE IsEvent(e, "Update", n)
  <2> DEFINE y == [rest EXCEPT !.pc = "load", !.ip = e.ip]
  <2>1. tasks' = [tasks EXCEPT ![t] = y]
    BY <1>2, <1>9 DEF Ended, IsEvent
  <2>2. IsTask(y) /\ y.id = n /\ y.pc = "load" /\ y.ip = e.ip /\ y.view = x.view /\ y.inbox = q
    <3>1. IsTask(rest) /\ rest.id = n /\ rest.view = x.view /\ rest.inbox = q
      <4> HIDE DEF x, q
      <4> QED BY <1>3, <1>5, TaskFields
    <3> HIDE DEF rest, q, e, x
    <3>2. IsTask(y) /\ y.id = rest.id /\ y.pc = "load" /\ y.ip = e.ip /\ y.view = rest.view
          /\ y.inbox = rest.inbox
      BY <3>1, TaskTurns
    <3> QED BY <3>1, <3>2
  <2>3. Has(x.inbox, "Delete", n) # {} => Has(q, "Delete", n) # {}
    BY <1>6, <1>9 DEF IsEvent
  <2>4. UpToDate(x, n) => UpToDate(y, n)
    <3> SUFFICES ASSUME UpToDate(x, n) PROVE UpToDate(y, n)
      OBVIOUS
    <3>1. LastHas(x.inbox, n, db.nodes[n])
      BY <1>6, <1>9 DEF UpToDate
    <3>2. LastHas(q, n, db.nodes[n]) /\ (Has(q, "Update", n) = {} => e.ip = db.nodes[n])
      BY <1>7, <1>9, <3>1
    <3> HIDE DEF y, q, e
    <3> QED BY <2>2, <3>2 DEF UpToDate
  <2> HIDE DEF y, q, e, x
  <2> QED BY <1>1, <1>4, <1>5, <2>1, <2>2, <2>3, <2>4, TaskStep DEF x
<1>10. CASE ~IsEvent(e, "Delete", n) /\ ~IsEvent(e, "Update", n)
  <2>1. tasks' = [tasks EXCEPT ![t] = rest]
    BY <1>2, <1>10 DEF Ended, IsEvent
  <2>2. IsTask(rest) /\ rest.id = n /\ rest.pc = x.pc /\ rest.ip = x.ip /\ rest.view = x.view
        /\ rest.inbox = q
    <3> HIDE DEF x, q
    <3> QED BY <1>3, <1>5, TaskFields
  <2>3. UpToDate(x, n) => UpToDate(rest, n)
    <3>1. LastHas(x.inbox, n, db.nodes[n]) => LastHas(q, n, db.nodes[n])
      BY <1>7
    <3>2. Has(q, "Update", n) = {} <=> Has(x.inbox, "Update", n) = {}
      BY <1>6, <1>10
    <3> HIDE DEF rest, q, x
    <3> QED BY <2>2, <3>1, <3>2 DEF UpToDate
  <2>4. Has(x.inbox, "Delete", n) # {} => Has(q, "Delete", n) # {}
    BY <1>6, <1>10
  <2> HIDE DEF rest, q, e, x
  <2> QED BY <1>1, <1>4, <1>5, <2>1, <2>2, <2>3, <2>4, TaskStep DEF x
<1> QED BY <1>8, <1>9, <1>10

LEMMA LoadsFlow ==
  ASSUME IndInv, FlowInv, NEW t \in TaskSlots, TaskLoads(t)
  PROVE  FlowInv'
<1> DEFINE x == tasks[t]
           n == x.id
           y == [x EXCEPT !.view = Config(db, n), !.pc = "idle"]
<1>1. x.pc \in {"load", "idle"} /\ UNCHANGED <<db, slots, events, master, doubt, calm>>
  BY DEF TaskLoads, CreatesDevices, Empty
<1>2. IsTask(x) /\ <<>> \in Seq(EventRows)
  BY DEF FlowInv, FlowTypes
<1>3. tasks' = [tasks EXCEPT ![t] = y]
  <2>1. tasks' = [tasks EXCEPT ![t].view = Config(db, n), ![t].pc = "idle"]
    BY DEF TaskLoads
  <2>2. tasks = [r \in TaskSlots |-> tasks[r]]
    BY DEF FlowInv, FlowTypes
  <2> QED BY <2>1, <2>2
<1>4. x # NoTask
  BY <1>1 DEF NoTask
<1>5. IsTask(y) /\ y.id = n /\ y.pc = "idle" /\ y.ip = x.ip /\ y.view = Config(db, n) /\ y.inbox = x.inbox
  <2> HIDE DEF x
  <2> QED BY <1>2, TaskViews
<1> HIDE DEF y
<1>6. UpToDate(x, n) => UpToDate(y, n)
  BY <1>5 DEF UpToDate
<1> HIDE DEF x
<1> QED BY <1>1, <1>3, <1>4, <1>5, <1>6, TaskStep DEF x

\* Devices without their values are not among those of the task; its node is in
\* doubt.
LEMMA LoadsPartFlow ==
  ASSUME IndInv, FlowInv, NEW t \in TaskSlots, LoadsPart(t)
  PROVE  FlowInv'
<1> DEFINE x == tasks[t]
           n == x.id
<1>1. /\ x.pc \in {"load", "idle"} /\ UNCHANGED <<db, slots, events, master, calm>>
      /\ doubt \subseteq doubt' /\ n \in doubt'
  BY DEF LoadsPart, CreatesDevices, Empty
<1>2. IsTask(x)
  BY DEF FlowInv, FlowTypes
<1>3. x # NoTask
  BY <1>1 DEF NoTask
<1>4. PICK part : tasks' = [tasks EXCEPT ![t] = IF part = {} THEN NoTask
                                                ELSE [x EXCEPT !.view = part, !.pc = "idle"]]
  BY DEF LoadsPart
<1>5. CASE part = {}
  <2>1. tasks' = [tasks EXCEPT ![t] = NoTask]
    BY <1>4, <1>5
  <2>2. IsTask(NoTask) /\ NoTask.id = Null /\ NoTask.inbox = <<>> /\ DOMAIN (<<>>) = {}
    BY NoTaskIs
  <2>3. Range(NoTask.inbox) = {}
    BY <2>2 DEF Range
  <2> HIDE DEF x
  <2> QED BY <1>1, <1>3, <2>1, <2>2, <2>3, TaskStep DEF x
<1>6. CASE part # {}
  <2> DEFINE y == [x EXCEPT !.view = part, !.pc = "idle"]
  <2>1. tasks' = [tasks EXCEPT ![t] = y]
    BY <1>4, <1>6
  <2>2. IsTask(y) /\ y.id = n /\ y.inbox = x.inbox
    <3> HIDE DEF x
    <3> QED BY <1>2, TaskViews
  <2> HIDE DEF y, x
  <2> QED BY <1>1, <1>3, <2>1, <2>2, TaskStep DEF x
<1> QED BY <1>5, <1>6

-----------------------------------------------------------------------------
(* Measures, the start, and every step.                                      *)

\* Tables that differ in the measures only say the same of nodes and devices.
LEMMA SameTables ==
  ASSUME NEW x, NEW u, u.nodes = x.nodes, u.devices = x.devices, u.values = x.values, u.next = x.next
  PROVE  /\ \A slot : (Grounded(slot, u) <=> Grounded(slot, x)) /\ Left(slot, u) = Left(slot, x)
         /\ \A n : Config(u, n) = Config(x, n) /\ NodesWithIp(u, n) = NodesWithIp(x, n)
<1>1. /\ Live(u) = Live(x) /\ \A d : GetValues(u, d) = GetValues(x, d)
      /\ \A d : NodeOfDevice(u, d) = NodeOfDevice(x, d)
  BY DEF Live, GetValues, NodeOfDevice, GetNode
<1>2. \A n : GetByNode(u, n) = GetByNode(x, n) /\ NodesWithIp(u, n) = NodesWithIp(x, n)
  BY <1>1 DEF GetByNode, NodesWithIp
<1>3. \A n : Config(u, n) = Config(x, n)
  BY <1>1, <1>2 DEF Config
<1>4. ASSUME NEW slot PROVE Grounded(slot, u) <=> Grounded(slot, x)
  <2>1. GroundedNode(slot, u) <=> GroundedNode(slot, x)
    BY <1>2 DEF GroundedNode
  <2>2. GroundedDevice(slot, u) <=> GroundedDevice(slot, x)
    BY <1>1 DEF GroundedDevice
  <2>3. GroundedValue(slot, u) <=> GroundedValue(slot, x)
    BY <1>1 DEF GroundedValue
  <2> QED BY <2>1, <2>2, <2>3 DEF Grounded
<1>5. \A slot : Left(slot, u) = Left(slot, x)
  BY <1>1 DEF Left
<1> QED BY <1>2, <1>3, <1>4, <1>5

LEMMA MeasuredFlow ==
  ASSUME IndInv, FlowInv, NEW t \in TaskSlots, NEW v \in DOMAIN db.values, Measured(t, v)
  PROVE  FlowInv'
<1>1. UNCHANGED <<slots, events, master, tasks, calm, doubt>>
  BY DEF Measured
<1>2. db'.nodes = db.nodes /\ db'.devices = db.devices /\ db'.values = db.values /\ db'.next = db.next
  <2>1. db' = [db EXCEPT !.measures = db.measures \cup {v}]
    BY DEF Measured
  <2>2. IsDb(db)
    BY DEF IndInv, TypeOK, Tables, IsDb
  <2> QED BY <2>1, <2>2 DEF IsDb
<1>3. /\ \A slot : (Grounded(slot, db') <=> Grounded(slot, db)) /\ Left(slot, db') = Left(slot, db)
      /\ \A n : Config(db', n) = Config(db, n) /\ NodesWithIp(db', n) = NodesWithIp(db, n)
  BY <1>2, SameTables
<1>4. Stream' = Stream /\ Pending' = Pending /\ Running' = Running /\ Unwritten' = Unwritten
  BY <1>1 DEF Stream, Pending, Running, Unwritten
<1>5. \A n : Owed(n)' = Owed(n) /\ Creators(n)' = Creators(n) /\ TasksOf(n)' = TasksOf(n)
  BY <1>1, SameOwed, SameTasks
<1>6. FlowTypes'
  BY <1>1 DEF FlowInv, FlowTypes
<1>7. Given'
  <2>1. \A e : Old(e)' <=> Old(e)
    BY <1>2 DEF Old
  <2>2. \A s \in Slots : GivenSlot(slots[s])'
    BY <1>1, <1>2, <2>1 DEF FlowInv, Given, GivenSlot
  <2> QED BY <1>1, <1>2, <1>4, <2>1, <2>2 DEF FlowInv, Given
<1>8. CalmSlots'
  <2>1. ASSUME NEW s \in Running, calm PROVE CalmSlot(slots[s])'
    <3>1. CalmSlot(slots[s])
      BY <2>1 DEF FlowInv, CalmSlots
    <3> QED BY <1>1, <1>2, <1>3, <3>1 DEF CalmSlot
  <2> QED BY <1>1, <1>4, <2>1 DEF FlowInv, CalmSlots
<1>9. Doubted' /\ Addressed'
  BY <1>1, <1>4 DEF FlowInv, Doubted, DoubtedSlot, Addressed, AddressedSlot
<1>10. Creations'
  <2>1. ASSUME NEW e, Found(e) PROVE Found(e)'
    BY <1>1, <1>2, <1>3, <2>1 DEF Found
  <2>2. ASSUME NEW e, NEW s \in Slots, Awaits(e, slots[s]) PROVE Awaits(e, slots[s])'
    BY <1>1, <2>2 DEF Awaits
  <2>3. ASSUME NEW s \in Slots, CreatesAlone(slots[s]) PROVE CreatesAlone(slots[s])'
    BY <1>1, <1>3, <2>3 DEF CreatesAlone
  <2>4. \A s \in Unwritten : s \in Slots
    BY DEF Unwritten
  <2> QED BY <1>4, <2>1, <2>2, <2>3, <2>4 DEF FlowInv, Creations
<1>11. Counted'
  <2>1. ASSUME NEW n, OneTask(n) PROVE OneTask(n)'
    BY <1>1, <1>4, <1>5, <2>1 DEF OneTask
  <2> QED BY <1>1, <1>2, <2>1 DEF FlowInv, Counted
<1>12. Ending'
  <2>1. ASSUME NEW r \in TaskSlots, Ends(r) PROVE Ends(r)'
    BY <1>1, <1>4, <2>1 DEF Ends
  <2> QED BY <1>1, <1>2, <2>1 DEF FlowInv, Ending
<1>13. Told'
  <2>1. ASSUME NEW n, Right(n) PROVE Right(n)'
    BY <1>1, <1>2, <1>4, <1>5, <2>1 DEF Right
  <2> QED BY <1>1, <1>2, <2>1 DEF FlowInv, Told
<1>14. Heard'
  <2>1. ASSUME NEW r \in TaskSlots, Follows(r) PROVE Follows(r)'
    <3>1. UpToDate(tasks[r], tasks[r].id)' <=> UpToDate(tasks[r], tasks[r].id)
      BY <1>1, <1>2, <1>3 DEF UpToDate
    <3> QED BY <1>1, <1>4, <1>5, <2>1, <3>1 DEF Follows
  <2> QED BY <1>1, <1>2, <2>1 DEF FlowInv, Heard
<1> QED BY <1>6, <1>7, <1>8, <1>9, <1>10, <1>11, <1>12, <1>13, <1>14 DEF FlowInv

-----------------------------------------------------------------------------
LEMMA InitFlow == Init => FlowInv
<1> SUFFICES ASSUME Init PROVE FlowInv
  OBVIOUS
<1>1. /\ slots = [s \in Slots |-> FreeSlot] /\ events = <<>> /\ doubt = {} /\ calm = TRUE
      /\ master = [pc |-> "start", event |-> NoEvent, tries |-> 0]
      /\ tasks = [t \in TaskSlots |-> NoTask]
  BY DEF Init
<1>2. Tables(db)
  BY InitIndInv DEF IndInv, TypeOK
<1>3. /\ FreeSlot.pc = "free" /\ FreeSlot.told = {} /\ FreeSlot.touches.nodes = {}
      /\ FreeSlot.cmd.op = "none"
  BY DEF FreeSlot, Untouched, NoCommand
<1>4. Running = {} /\ Unwritten = {}
  BY <1>1, <1>3 DEF Running, Unwritten
<1>5. Stream = <<>> /\ DOMAIN (<<>>) = {}
  BY <1>1 DEF Stream
<1>6. Range(Stream) = {} /\ \A type, n : Has(Stream, type, n) = {}
  BY <1>5 DEF Range, Has
<1>7. \A t \in TaskSlots : tasks[t] = NoTask
  BY <1>1
<1>8. IsTask(NoTask) /\ NoTask.id = Null /\ NoTask.inbox = <<>>
  BY NoTaskIs
<1>9. FlowTypes
  <2>1. <<>> \in Seq(EventRows)
    OBVIOUS
  <2>2. /\ master \in [pc : {"start", "select", "create"}, event : EventRows \cup {NoEvent}, tries : Nat]
        /\ master.pc = "start"
    BY <1>1
  <2> QED BY <1>1, <1>7, <1>8, <2>1, <2>2 DEF FlowTypes
<1>10. Given
  <2>1. GivenSlot(FreeSlot)
    BY <1>3 DEF GivenSlot, EventOf, Unsent
  <2>2. Range(NoTask.inbox) = {}
    BY <1>5, <1>8 DEF Range
  <2>3. Null < db.next.node
    BY <1>2, RowTypes DEF Null
  <2> QED BY <1>1, <1>6, <1>7, <1>8, <2>1, <2>2, <2>3 DEF Given
<1>11. CalmSlots /\ Doubted /\ Addressed
  BY <1>4 DEF CalmSlots, Doubted, Addressed
<1>12. Creations
  <2>1. Pending = {}
    BY <1>6 DEF Pending
  <2>2. CreatesAlone(FreeSlot)
    BY <1>3 DEF CreatesAlone
  <2> QED BY <1>1, <2>1, <2>2 DEF Creations
<1>13. Counted
  <2>1. \A n : Creators(n) = {}
    BY <1>1, <1>3 DEF Creators, Creates
  <2> QED BY <1>1, <1>6, <2>1 DEF Counted, OneTask
<1>14. Ending
  BY <1>7, <1>8 DEF Ending
<1>15. Told
  <2>1. \A s \in Slots : \A n : ~Sends(slots[s], n)
    BY <1>1, <1>3 DEF Sends, Unsent
  <2> QED BY <1>6, <2>1 DEF Told, Right, LastHas
<1>16. Heard
  <2>1. Null \notin DOMAIN db.nodes
    BY <1>2, RowTypes
  <2> QED BY <1>7, <1>8, <2>1 DEF Heard
<1> QED BY <1>9, <1>10, <1>11, <1>12, <1>13, <1>14, <1>15, <1>16 DEF FlowInv

LEMMA StepFlow == IndInv /\ FlowInv /\ [Next]_vars => FlowInv'
<1> SUFFICES ASSUME IndInv, FlowInv, [Next]_vars PROVE FlowInv'
  OBVIOUS
<1>1. ASSUME NEW s \in Slots, NEW c \in Commands, Issue(s, c) PROVE FlowInv'
  BY <1>1, IssueFlow
<1>2. ASSUME NEW s \in Slots, CommandStep(s) PROVE FlowInv'
  BY <1>2, CheckFlow, WriteFlow, ReadFlow, SendFlow, FinishFlow, CutFlow DEF CommandStep
<1>3. CASE NodesRead \/ MasterTakes \/ MasterLooksUp \/ LookupFails
  BY <1>3, NodesReadFlow, TakesFlow, LooksUpFlow
<1>4. ASSUME NEW t \in TaskSlots, TaskHears(t) \/ TaskLoads(t) \/ LoadsPart(t) PROVE FlowInv'
  BY <1>4, HearsFlow, LoadsFlow, LoadsPartFlow
<1>5. ASSUME NEW t \in TaskSlots, NEW v \in DOMAIN db.values, Measured(t, v) PROVE FlowInv'
  BY <1>5, MeasuredFlow
<1>6. CASE UNCHANGED vars
  <2>1. UNCHANGED <<db, slots, tasks, doubt, calm, events, master>>
    BY <1>6 DEF vars
  <2>2. Stream' = Stream
    BY <2>1 DEF Stream
  <2>3. FlowTypes'
    BY <2>1 DEF FlowInv, FlowTypes
  <2> QED BY <2>1, <2>2, <2>3, QuietFlow
<1>7. CASE Next
  BY <1>1, <1>2, <1>3, <1>4, <1>5, <1>7 DEF Next
<1> QED BY <1>6, <1>7

-----------------------------------------------------------------------------
(* The theorems.                                                             *)

(***************************************************************************)
(* For any tables, commands and capacities: a change of a node that its    *)
(* task still has to learn of is owed by a command that runs, or on its    *)
(* way to node_master, or in the queue of the task; a node without a task  *)
(* has one creation on its way, and whoever looks it up by its address     *)
(* finds it (node_worker.rs:52-110, read_loop.rs:81-118).  Excepted are    *)
(* the nodes of doubt.                                                     *)
(***************************************************************************)
THEOREM FlowInvariance == Spec => [](IndInv /\ FlowInv)
<1>1. Init => IndInv /\ FlowInv
  BY InitIndInv, InitFlow
<1>2. IndInv /\ FlowInv /\ [Next]_vars => (IndInv /\ FlowInv)'
  BY StepIndInv, StepFlow
<1> QED BY <1>1, <1>2, PTL DEF Spec

\* Nothing is owed or on its way when all is quiet.
LEMMA QuietFacts ==
  ASSUME IndInv, FlowInv, Quiet
  PROVE  /\ \A n : ~Owed(n) /\ Creators(n) = {} /\ \A s \in Slots : ~Deletes(slots[s], n)
         /\ \A type, n : Has(Stream, type, n) = {}
         /\ master.pc # "start"
         /\ \A t \in TaskSlots : \A type, n : Has(tasks[t].inbox, type, n) = {}
<1>1. \A s \in Slots : slots[s].pc = "free"
  BY DEF Quiet, Running
<1>2. ASSUME NEW n PROVE ~Owed(n) /\ Creators(n) = {} /\ \A s \in Slots : ~Deletes(slots[s], n)
  <2>1. \A s \in Slots : /\ ~Owes(slots[s], n) /\ ~Sends(slots[s], n)
                         /\ ~Deletes(slots[s], n) /\ ~Creates(slots[s], n)
    BY <1>1 DEF Owes, Sends, Deletes, Creates, Written, Unsent
  <2> QED BY <2>1 DEF Owed, Creators
<1>3. DOMAIN (<<>>) = {}
  OBVIOUS
<1>4. Stream = <<>> /\ master.pc # "start"
  BY DEF Quiet, Stream
<1>5. \A t \in TaskSlots : tasks[t].inbox = <<>>
  BY DEF Quiet
<1> QED BY <1>2, <1>3, <1>4, <1>5 DEF Has

(***************************************************************************)
(* When all commands have been worked off, the task of a node that is not  *)
(* in doubt polls the address, the devices and the values the database     *)
(* holds for it, whatever commands ran at once, in whatever order their    *)
(* writes, reads and notices came (device_worker.rs:508-539,               *)
(* value_worker.rs:440-469).                                               *)
(***************************************************************************)
THEOREM ConvergedHolds == Spec => []Converged
<1>1. IndInv /\ FlowInv => Converged
  <2> SUFFICES ASSUME IndInv, FlowInv, Quiet,
                      NEW n \in DOMAIN db.nodes \ doubt, NEW t \in TasksOf(n)
               PROVE  Shows(t, n)
    BY DEF Converged
  <2>1. t \in TaskSlots /\ tasks[t].id = n /\ n # Null
    BY DEF TasksOf
  <2>2. tasks[t].pc = "idle"
    BY <2>1 DEF FlowInv, FlowTypes, IsTask, Quiet
  <2>3. UpToDate(tasks[t], n)
    <3>1. Follows(t)
      BY <2>1 DEF FlowInv, Heard
    <3> QED BY <2>1, <3>1, QuietFacts DEF Follows
  <2>4. tasks[t].ip = db.nodes[n] /\ tasks[t].view \in {{}, Config(db, n)}
    BY <2>1, <2>2, <2>3, QuietFacts DEF UpToDate
  <2>5. tasks[t].view = {} => Config(db, n) = {}
    BY <2>1, <2>2 DEF Quiet, Empty
  <2> QED BY <2>4, <2>5 DEF Shows
<1> QED BY <1>1, FlowInvariance, PTL

(***************************************************************************)
(* And then every node of the database that is not in doubt has one task,  *)
(* and no other node has one: neither a creation that node_master looks up *)
(* by its address, nor a deletion that overtakes or follows one, leaves a  *)
(* node polled twice, not at all, or for ever (read_loop.rs:81-118,        *)
(* node_worker.rs:213-247).                                                *)
(***************************************************************************)
THEOREM OneTaskEachHolds == Spec => []OneTaskEach
<1>1. IndInv /\ FlowInv => OneTaskEach
  <2> SUFFICES ASSUME IndInv, FlowInv, Quiet, NEW n \in 1 .. db.next.node - 1, n \notin doubt
               PROVE  Cardinality(TasksOf(n)) = IF n \in DOMAIN db.nodes THEN 1 ELSE 0
    BY DEF OneTaskEach
  <2>1. CASE n \in DOMAIN db.nodes
    <3>1. OneTask(n)
      BY <2>1 DEF FlowInv, Counted
    <3>2. \E t \in TaskSlots : TasksOf(n) = {t}
      BY <3>1, QuietFacts DEF OneTask
    <3> QED BY <2>1, <3>2, FS_Singleton
  <2>2. CASE n \notin DOMAIN db.nodes
    <3>1. ASSUME NEW t \in TasksOf(n) PROVE FALSE
      <4>1. t \in TaskSlots /\ tasks[t].id = n /\ n # Null
        BY DEF TasksOf
      <4>2. Ends(t)
        BY <2>2, <4>1 DEF FlowInv, Ending
      <4> QED BY <4>1, <4>2, QuietFacts DEF Ends
    <3>2. TasksOf(n) = {}
      BY <3>1
    <3> QED BY <2>2, <3>2, FS_EmptySet
  <2> QED BY <2>1, <2>2
<1> QED BY <1>1, FlowInvariance, PTL
=============================================================================
