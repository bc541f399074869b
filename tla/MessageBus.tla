----------------------------- MODULE MessageBus -----------------------------
(***************************************************************************)
(* The tasks of the program and the bounded channels between them:         *)
(* data_master routes between the API, the reader and the database;        *)
(* db_master starts a task per request and hands measures to               *)
(* measure_master; node_master starts the tasks of the nodes and forwards  *)
(* both ways; requests are answered through a oneshot channel of their own.*)
(*                                                                         *)
(* A task that awaits `send` holds its message in `hand` and does nothing  *)
(* else.  Messages carry who waits for the answer, or which node they are  *)
(* about; what they say is left out.  Time is left out: every sleep may end *)
(* at any moment, and so may the timeout of a database task.               *)
(***************************************************************************)
EXTENDS Integers, Sequences, FiniteSets

CONSTANTS
  Clients,      \* the handlers of HTTP requests
  Nodes,        \* the tasks of nodes that may ever run
  Initial,      \* the nodes the database holds at the start
  Capacity,     \* of the mpsc channels (100)
  FeedCapacity, \* of the broadcast channel (100)
  MaxTries,     \* of create_new_node (5)
  MaxEvents,    \* bound: events one node sends
  MaxChanges    \* bound: ConfigEvents the commands may lead to

ASSUME MessageBusAssumption ==
  /\ Initial \subseteq Nodes
  /\ Clients \cap Nodes = {}
  /\ (Clients \cup Nodes) \cap {"node_master", "data_master", "db_master", "none"} = {}
  /\ {Capacity, FeedCapacity, MaxTries} \subseteq Nat \ {0}
  /\ {MaxEvents, MaxChanges} \subseteq Nat

VARIABLES
  chan,     \* channel -> the messages in it
  feed,     \* node -> what its receiver of the broadcast channel holds
  at,       \* task -> where it waits for something else than room in a channel
  hand,     \* task -> the messages it has yet to send, each with its channel
  nodes,    \* node -> its row in the table nodes
  workers,  \* the tasks db_master has started
  answer,   \* task -> what its oneshot channel holds
  creating, \* create_new_node: the node, and the tries so far
  made, stored, shown, \* node -> its events that were sent, that measure_master has
                       \* taken, that the coordinator has taken
  changes   \* ConfigEvents the commands so far may lead to

vars == <<chan, feed, at, hand, nodes, workers, answer, creating, made, stored, shown, changes>>
history == <<nodes, made, stored, shown, changes>>

Channels == {"from_api", "to_api", "from_reader", "to_reader", "to_db", "from_db",
             "from_node", "measure"}
Askers == Clients \cup Nodes \cup {"node_master"}
Tasks == Askers \cup {"data_master", "db_master"}

\* MainMsg::Request, Request::GetMeasure, MainMsg::Command, ConfigEvent, MainMsg::Event.
Request(a) == [kind |-> "Request", by |-> a]
GetMeasure(a) == [kind |-> "GetMeasure", by |-> a]
ConfigEvent(type, n) == [kind |-> "ConfigEvent", type |-> type, node |-> n]
Command(a, events) == [kind |-> "Command", by |-> a, events |-> events]
Event(kind, n) == [kind |-> kind, node |-> n, no |-> Len(made[n]) + 1]

Asks(m) == m.kind \in {"Request", "GetMeasure", "Command"}
Asking(n) == <<[to |-> "from_node", msg |-> Request(n)]>>
Lookup == <<[to |-> "from_reader", msg |-> Request("node_master")]>>

\* Mutant: one message more than the capacity.
RoomForOneMore(c) == Len(chan[c]) <= Capacity

\* The task is at recv or select.
Free(t) == hand[t] = <<>> /\ at[t] = "select"
Room(c) == Len(chan[c]) < Capacity
Take(c) == chan' = [chan EXCEPT ![c] = Tail(@)]

\* The supervisor ends every task when one of the four has ended: node_master
\* panics when it cannot read the nodes.
Down == at["node_master"] = "panicked"

ConfigEvents == [kind : {"ConfigEvent"}, type : {"Create", "Update", "Delete"}, node : Nodes]
Events == [kind : {"DeviceEvent", "NodeEvent"}, node : Nodes, no : 1 .. MaxEvents]
Requests == [kind : {"Request"}, by : Askers] \cup [kind : {"GetMeasure"}, by : Clients]

\* What a command tells the readers: only a move concerns two nodes.
Announcements ==
  {s \in Seq(ConfigEvents) :
     Len(s) <= 1 \/ (Len(s) = 2 /\ \A i \in DOMAIN s : s[i].type = "Update")}
Commands == [kind : {"Command"}, by : Clients, events : Announcements \ {<<>>}]
Messages == ConfigEvents \cup Events \cup Requests \cup Commands

\* What may stand in each channel.
Carried(c) ==
  CASE c \in {"to_reader", "from_db"} -> ConfigEvents
    [] c \in {"from_node", "from_reader"} -> Events \cup Requests
    [] c = "from_api" -> Requests \cup Commands
    [] c = "to_db" -> Events \cup Requests \cup Commands
    [] c = "to_api" -> Events
    [] c = "measure" -> {m \in Events \cup Requests : m.kind \in {"DeviceEvent", "GetMeasure"}}

Outgoing == {next \in [to : Channels, msg : Messages] : next.msg \in Carried(next.to)}

TypeOK ==
  /\ chan \in [Channels -> Seq(Messages)]
  /\ \A c \in Channels : chan[c] \in Seq(Carried(c)) /\ Len(chan[c]) <= Capacity
  /\ feed \in [Nodes -> Seq(ConfigEvents)] /\ \A n \in Nodes : Len(feed[n]) <= FeedCapacity
  /\ at \in [Tasks -> {"idle", "select", "answer", "devices", "values", "nodes", "lookup",
                       "absent", "gone", "panicked"}]
  /\ hand \in [Tasks -> Seq(Outgoing)]
  /\ \A t \in Tasks : /\ Len(hand[t]) <= 2
                      /\ \A i, j \in DOMAIN hand[t] : hand[t][i].to = hand[t][j].to => i = j
  /\ workers \subseteq [msg : Requests \cup Commands, tell : Announcements]
  /\ nodes \in [Nodes -> {"none", "present", "deleted"}]
  /\ answer \in [Askers -> {"none", "ok", "failed", "closed"}]
  /\ creating \in [node : Nodes \cup {"none"}, tries : 0 .. MaxTries - 1]
  /\ {made, stored, shown} \subseteq [Nodes -> Seq(Events)]
  /\ \A n \in Nodes : Len(made[n]) <= MaxEvents
  /\ changes \in 0 .. MaxChanges

\* The four tasks start; node_master has asked for the nodes.
Init ==
  /\ chan = [c \in Channels |-> <<>>]
  /\ feed = [n \in Nodes |-> <<>>]
  /\ at = [t \in Tasks |-> CASE t \in Clients -> "idle"
                             [] t \in Nodes -> "absent"
                             [] t = "node_master" -> "nodes"
                             [] OTHER -> "select"]
  /\ hand = [t \in Tasks |-> IF t = "node_master" THEN Lookup ELSE <<>>]
  /\ nodes = [n \in Nodes |-> IF n \in Initial THEN "present" ELSE "none"]
  /\ workers = {}
  /\ answer = [a \in Askers |-> "none"]
  /\ creating = [node |-> "none", tries |-> 0]
  /\ made = [n \in Nodes |-> <<>>] /\ stored = made /\ shown = made
  /\ changes = 0

\* `send(..).await` returns: there was room.
Send(t) ==
  /\ hand[t] # <<>>
  /\ LET next == Head(hand[t])
     IN  Room(next.to) /\ chan' = [chan EXCEPT ![next.to] = Append(@, next.msg)]
  /\ hand' = [hand EXCEPT ![t] = Tail(@)]
  /\ UNCHANGED <<feed, at, workers, answer, creating, history>>

\* rx.await of task t gives the answer.
Answered(t, place) ==
  /\ at[t] = place /\ hand[t] = <<>> /\ answer[t] # "none"
  /\ answer' = [answer EXCEPT ![t] = "none"]

-----------------------------------------------------------------------------
(* A handler of an HTTP request: handle_get_request and its like.            *)

Asked(c, m) ==
  /\ at[c] = "idle"
  /\ at' = [at EXCEPT ![c] = "answer"]
  /\ hand' = [hand EXCEPT ![c] = <<[to |-> "from_api", msg |-> m]>>]
  /\ UNCHANGED <<chan, feed, nodes, workers, answer, creating, made, stored, shown>>

ClientAsks(c) ==
  /\ \E m \in {Request(c), GetMeasure(c)} : Asked(c, m)
  /\ UNCHANGED changes

\* A device or a value that moves to another node concerns both (update_device,
\* value_update).
Changes(n) ==
  CASE nodes[n] = "present" ->  {<<ConfigEvent("Update", n)>>, <<ConfigEvent("Delete", n)>>}
                   \cup {<<ConfigEvent("Update", n), ConfigEvent("Update", m)>> :
                           m \in {k \in Nodes \ {n} : nodes[k] = "present"}}
    [] nodes[n] = "none" -> {<<ConfigEvent("Create", n)>>}
    [] nodes[n] = "deleted" -> {}

ClientCommands(c) ==
  \E n \in Nodes : \E events \in Changes(n) :
    /\ changes' = changes + Len(events) /\ changes' <= MaxChanges
    /\ Asked(c, Command(c, events))

ClientAnswered(c) ==
  /\ Answered(c, "answer")
  /\ at' = [at EXCEPT ![c] = "idle"]
  /\ UNCHANGED <<chan, feed, hand, workers, creating, history>>

-----------------------------------------------------------------------------
(* data_master.                                                              *)

Route(m) ==
  CASE m.kind = "ConfigEvent" -> <<[to |-> "to_reader", msg |-> m]>>
    [] m.kind \in {"DeviceEvent", "NodeEvent"} ->
         <<[to |-> "to_db", msg |-> m], [to |-> "to_api", msg |-> m]>>
    [] Asks(m) -> <<[to |-> "to_db", msg |-> m]>>

\* One branch of the select of run_data_master.
Forward(c) ==
  /\ Free("data_master") /\ chan[c] # <<>>
  /\ hand' = [hand EXCEPT !["data_master"] = Route(Head(chan[c]))]
  /\ Take(c)
  /\ UNCHANGED <<feed, at, workers, answer, creating, history>>

-----------------------------------------------------------------------------
(* db_master and the tasks it starts.                                        *)

\* Mutant: an event is given up when measure_master is busy (try_send).
DispatchTries ==
  /\ Free("db_master") /\ chan["to_db"] # <<>>
  /\ Take("to_db")
  /\ LET m == Head(chan["to_db"])
         forMeasures == m.kind = "GetMeasure" \/ (m.kind = "DeviceEvent" /\ Room("measure"))
     IN  /\ hand' = IF forMeasures
                      THEN [hand EXCEPT !["db_master"] = <<[to |-> "measure", msg |-> m]>>]
                      ELSE hand
         /\ workers' = IF m.kind \in {"Request", "Command"}
                         THEN workers \cup {[msg |-> m, tell |-> <<>>]}
                         ELSE workers
  /\ UNCHANGED <<feed, at, answer, creating, history>>

\* The loop of run_db_master; a NodeEvent ends here.
Dispatch ==
  /\ Free("db_master") /\ chan["to_db"] # <<>>
  /\ Take("to_db")
  /\ LET m == Head(chan["to_db"])
         forMeasures == m.kind \in {"GetMeasure", "DeviceEvent"}
     IN  /\ hand' = IF forMeasures
                      THEN [hand EXCEPT !["db_master"] = <<[to |-> "measure", msg |-> m]>>]
                      ELSE hand
         /\ workers' = IF m.kind \in {"Request", "Command"}
                         THEN workers \cup {[msg |-> m, tell |-> <<>>]}
                         ELSE workers
  /\ UNCHANGED <<feed, at, answer, creating, history>>

\* The task of w sends its result (run_db_with_timeout, Ok).
Ends(w, result) ==
  /\ workers' = workers \ {w}
  /\ answer' = [answer EXCEPT ![w.msg.by] = result]

\* GetByIp of create_new_node finds no row.
Missing(m) == m = Request("node_master") /\ creating.node # "none" /\ nodes[creating.node] # "present"

\* A request is answered, or a command is refused before its commit.
WorkerAnswers(w) ==
  /\ w.tell = <<>>
  /\ \E result \in IF w.msg.kind = "Command" \/ Missing(w.msg) THEN {"failed"} ELSE {"ok", "failed"} :
       Ends(w, result)
  /\ UNCHANGED <<chan, feed, at, hand, creating, history>>

\* The checks of the commands: what is changed exists, what is created does not.
Applies(events) ==
  \A i \in DOMAIN events :
    nodes[events[i].node] = IF events[i].type = "Create" THEN "none" ELSE "present"

WorkerCommits(w) ==
  /\ w.msg.kind = "Command" /\ w.tell = <<>>
  /\ Applies(w.msg.events)
  /\ nodes' = [nodes EXCEPT ![w.msg.events[1].node] =
                 IF w.msg.events[1].type = "Delete" THEN "deleted" ELSE "present"]
  /\ workers' = (workers \ {w}) \cup {[w EXCEPT !.tell = w.msg.events]}
  /\ UNCHANGED <<chan, feed, at, hand, answer, creating, made, stored, shown, changes>>

\* After the commit the node is read again and the readers are told of it, unless
\* that fails; then the handler is told.
WorkerTells(w) ==
  /\ w.tell # <<>>
  /\ \/ Room("from_db") /\ chan' = [chan EXCEPT !["from_db"] = Append(@, Head(w.tell))]
     \/ UNCHANGED chan
  /\ IF Tail(w.tell) = <<>>
       THEN Ends(w, "ok")
       ELSE /\ workers' = (workers \ {w}) \cup {[w EXCEPT !.tell = Tail(@)]}
            /\ UNCHANGED answer
  /\ UNCHANGED <<feed, at, hand, creating, history>>

\* Mutant: the task is given up by the one who waits and runs on.
WorkerTimesOutRunsOn(w) ==
  /\ answer[w.msg.by] = "none"
  /\ answer' = [answer EXCEPT ![w.msg.by] = "closed"]
  /\ UNCHANGED <<chan, feed, at, hand, workers, creating, history>>

\* Mutant: only the commands have a timeout.
WorkerTimesOutCommands(w) ==
  /\ w.msg.kind = "Command"
  /\ Ends(w, "closed")
  /\ UNCHANGED <<chan, feed, at, hand, creating, history>>

\* The timeout of 3 or 5 seconds drops the task and with it the oneshot sender.
WorkerTimesOut(w) ==
  /\ Ends(w, "closed")
  /\ UNCHANGED <<chan, feed, at, hand, creating, history>>

\* measure_master takes a message; a query is answered.
MeasureMaster ==
  /\ chan["measure"] # <<>>
  /\ Take("measure")
  /\ LET m == Head(chan["measure"])
     IN  IF m.kind = "GetMeasure"
           THEN /\ \E result \in {"ok", "failed"} : answer' = [answer EXCEPT ![m.by] = result]
                /\ UNCHANGED stored
           ELSE /\ stored' = [stored EXCEPT ![m.node] = Append(@, m)]
                /\ UNCHANGED answer
  /\ UNCHANGED <<feed, at, hand, nodes, workers, creating, made, shown, changes>>

\* The coordinator of the WebSockets takes an event; it never waits for a browser.
Coordinator ==
  /\ chan["to_api"] # <<>>
  /\ Take("to_api")
  /\ LET m == Head(chan["to_api"]) IN shown' = [shown EXCEPT ![m.node] = Append(@, m)]
  /\ UNCHANGED <<feed, at, hand, nodes, workers, answer, creating, made, stored, changes>>

-----------------------------------------------------------------------------
(* The task of a node, as far as it uses the channels.                       *)

\* A poll ends in a DeviceEvent, a connection in a NodeEvent.
NodePolls(n) ==
  /\ Free(n) /\ Len(made[n]) < MaxEvents
  /\ \E kind \in {"DeviceEvent", "NodeEvent"} :
       /\ hand' = [hand EXCEPT ![n] = <<[to |-> "from_node", msg |-> Event(kind, n)]>>]
       /\ made' = [made EXCEPT ![n] = Append(@, Event(kind, n))]
  /\ UNCHANGED <<chan, feed, at, nodes, workers, answer, creating, stored, shown, changes>>

\* create_devices begins, because there are no devices or because of an Update.
AsksForDevices(n) ==
  /\ at' = [at EXCEPT ![n] = "devices"]
  /\ hand' = [hand EXCEPT ![n] = Asking(n)]

NodeFetches(n) ==
  /\ Free(n)
  /\ AsksForDevices(n)
  /\ UNCHANGED <<chan, feed, workers, answer, creating, history>>

\* get_devises asks again until it is told the devices; the values are asked for
\* device by device, whatever the answers.
NodeAnswered(n) ==
  /\ \/ /\ Answered(n, "devices")
        /\ IF answer[n] = "ok"
             THEN \/ at' = [at EXCEPT ![n] = "select"] /\ UNCHANGED hand
                  \/ at' = [at EXCEPT ![n] = "values"] /\ hand' = [hand EXCEPT ![n] = Asking(n)]
             ELSE AsksForDevices(n)
     \/ /\ Answered(n, "values")
        /\ \/ at' = [at EXCEPT ![n] = "select"] /\ UNCHANGED hand
           \/ hand' = [hand EXCEPT ![n] = Asking(n)] /\ UNCHANGED at
  /\ UNCHANGED <<chan, feed, workers, creating, history>>

\* node_loop receives from the broadcast channel.
NodeHears(n) ==
  /\ Free(n) /\ feed[n] # <<>>
  /\ LET event == Head(feed[n])
     IN  CASE event.node = n /\ event.type = "Update" ->
                /\ AsksForDevices(n)
                /\ feed' = [feed EXCEPT ![n] = Tail(@)]
           [] event.node = n /\ event.type = "Delete" ->
                /\ at' = [at EXCEPT ![n] = "gone"]
                /\ feed' = [feed EXCEPT ![n] = <<>>]
                /\ UNCHANGED hand
           [] OTHER -> feed' = [feed EXCEPT ![n] = Tail(@)] /\ UNCHANGED <<at, hand>>
  /\ UNCHANGED <<chan, workers, answer, creating, history>>

-----------------------------------------------------------------------------
(* node_master.                                                              *)

\* init_nodes: the nodes are started, or the task panics.
NodesRead ==
  /\ Answered("node_master", "nodes")
  /\ at' = IF answer["node_master"] = "ok"
             THEN [t \in Tasks |-> IF t \in Initial \cup {"node_master"} THEN "select" ELSE at[t]]
             ELSE [at EXCEPT !["node_master"] = "panicked"]
  /\ UNCHANGED <<chan, feed, hand, workers, creating, history>>

\* The receivers of the broadcast channel: the tasks, and the one subscribed for the
\* node that is being created.
Listening(n) == at[n] \notin {"absent", "gone"} \/ creating.node = n

\* A receiver that lags loses the oldest message.
Broadcast(event) ==
  feed' = [n \in Nodes |->
             IF ~Listening(n) THEN feed[n]
             ELSE IF Len(feed[n]) < FeedCapacity THEN Append(feed[n], event)
             ELSE Append(Tail(feed[n]), event)]

\* The branch from_controller of the select; Create begins create_new_node.
MasterConfigures ==
  /\ Free("node_master") /\ chan["to_reader"] # <<>>
  /\ Take("to_reader")
  /\ LET event == Head(chan["to_reader"])
     IN  IF event.type = "Create"
           THEN /\ at' = [at EXCEPT !["node_master"] = "lookup"]
                /\ hand' = [hand EXCEPT !["node_master"] = Lookup]
                /\ creating' = [node |-> event.node, tries |-> 0]
                /\ UNCHANGED feed
           ELSE Broadcast(event) /\ UNCHANGED <<at, hand, creating>>
  /\ UNCHANGED <<workers, answer, history>>

\* The branch from_node_rx.
MasterForwards ==
  /\ Free("node_master") /\ chan["from_node"] # <<>>
  /\ Take("from_node")
  /\ hand' = [hand EXCEPT !["node_master"] = <<[to |-> "from_reader", msg |-> Head(chan["from_node"])]>>]
  /\ UNCHANGED <<feed, at, workers, answer, creating, history>>

\* create_new_node: the node is found and its task started, or it is looked up
\* again, MaxTries times in all.
LookedUp ==
  /\ Answered("node_master", "lookup")
  /\ LET found == answer["node_master"] = "ok"
         last == creating.tries + 1 = MaxTries
     IN  /\ at' = CASE found -> [at EXCEPT !["node_master"] = "select", ![creating.node] = "select"]
                     [] ~found /\ last -> [at EXCEPT !["node_master"] = "select"]
                     [] OTHER -> at
         /\ IF found \/ last
              THEN /\ creating' = [node |-> "none", tries |-> 0]
                   /\ UNCHANGED hand
              ELSE /\ creating' = [creating EXCEPT !.tries = @ + 1]
                   /\ hand' = [hand EXCEPT !["node_master"] = Lookup]
         /\ feed' = IF ~found /\ last THEN [feed EXCEPT ![creating.node] = <<>>] ELSE feed
  /\ UNCHANGED <<chan, workers, history>>

-----------------------------------------------------------------------------
Next ==
  /\ ~Down
  /\ \/ \E t \in Tasks : Send(t)
     \/ \E c \in Clients : ClientAsks(c) \/ ClientCommands(c) \/ ClientAnswered(c)
     \/ \E c \in {"from_api", "from_reader", "from_db"} : Forward(c)
     \/ Dispatch
     \/ \E w \in workers :
          WorkerAnswers(w) \/ WorkerCommits(w) \/ WorkerTells(w) \/ WorkerTimesOut(w)
     \/ MeasureMaster
     \/ Coordinator
     \/ \E n \in Nodes : NodePolls(n) \/ NodeFetches(n) \/ NodeAnswered(n) \/ NodeHears(n)
     \/ NodesRead
     \/ MasterConfigures
     \/ MasterForwards
     \/ LookedUp

Spec == Init /\ [][Next]_vars

\* The runtime runs every task that can run.  The senders that wait for one channel
\* are served in turn and select! picks among its ready branches at random, so what is
\* possible again and again happens.  Of MySQL nothing is assumed where a timer guards
\* the task; of the nodes and the handlers, only that they go on when they can.
Fairness ==
  /\ \A t \in Clients \cup Nodes : SF_vars(~Down /\ Send(t))
  /\ \A t \in Tasks \ (Clients \cup Nodes) : WF_vars(~Down /\ Send(t))
  /\ \A c \in {"from_api", "from_reader", "from_db"} : SF_vars(~Down /\ Forward(c))
  /\ WF_vars(~Down /\ Dispatch)
  /\ \A a \in Askers : WF_vars(~Down /\ \E w \in workers : w.msg.by = a /\ WorkerTimesOut(w))
  /\ WF_vars(~Down /\ MeasureMaster)
  /\ WF_vars(~Down /\ Coordinator)
  /\ WF_vars(~Down /\ (NodesRead \/ LookedUp))
  /\ \A n \in Nodes : WF_vars(~Down /\ NodeAnswered(n))
  /\ SF_vars(~Down /\ MasterConfigures)
  /\ SF_vars(~Down /\ MasterForwards)

FairSpec == Spec /\ Fairness

-----------------------------------------------------------------------------
\* Where the requests of task a are.
RequestsOf(a) ==
  LET asked(m) == Asks(m) /\ m.by = a
  IN  (UNION {{<<c, i>> : i \in {j \in DOMAIN chan[c] : asked(chan[c][j])}} : c \in Channels})
      \cup (UNION {{<<t, i>> : i \in {j \in DOMAIN hand[t] : asked(hand[t][j].msg)}} : t \in Tasks})
      \cup {w \in workers : asked(w.msg)}

\* The task waits for an answer.
Waits(a) == at[a] \in {"answer", "devices", "values", "nodes", "lookup"}

(***************************************************************************)
(* A task that waits for an answer has one request under way or its answer *)
(* ready, never neither and never two; nobody works for a task that no     *)
(* longer waits.  Otherwise it would wait for ever, or the answer to an    *)
(* earlier question would be taken for the answer to a later one.          *)
(* (a oneshot sender moves with its message; run_db_with_timeout drops it) *)
(***************************************************************************)
OneRequestEach ==
  \A a \in Askers :
    Cardinality(RequestsOf(a)) = IF Waits(a) /\ answer[a] = "none" THEN 1 ELSE 0

\* The message t is about to send to channel c: there is never more than one.
Sending(t, c) ==
  LET there == {i \in DOMAIN hand[t] : hand[t][i].to = c}
  IN  IF there = {} THEN <<>> ELSE <<hand[t][CHOOSE i \in there : TRUE].msg>>

\* The events of node n in a queue, and whether they are in the order of their numbers.
Belongs(m, n, kinds) == m.kind \in kinds /\ m.node = n
EventsIn(queue, n, kinds) == {queue[i] : i \in {j \in DOMAIN queue : Belongs(queue[j], n, kinds)}}
Sorted(queue, n, kinds) ==
  \A i, j \in DOMAIN queue :
    i < j /\ Belongs(queue[i], n, kinds) /\ Belongs(queue[j], n, kinds) => queue[i].no < queue[j].no

\* The queues of a line, the last one first, hold the events of n that were made,
\* each once and in order.
InLine(line, n, kinds) ==
  /\ \A p \in DOMAIN line : Sorted(line[p], n, kinds)
  /\ \A p, q \in DOMAIN line :
       p < q => \A x \in EventsIn(line[p], n, kinds), y \in EventsIn(line[q], n, kinds) : x.no < y.no
  /\ UNION {EventsIn(line[p], n, kinds) : p \in DOMAIN line} = EventsIn(made[n], n, kinds)

\* The way of the measures of n, and that of all its events.
ToHashers(n) ==
  <<stored[n], chan["measure"], Sending("db_master", "measure"),
    chan["to_db"], Sending("data_master", "to_db"),
    chan["from_reader"], Sending("node_master", "from_reader"),
    chan["from_node"], Sending(n, "from_node")>>
ToBrowsers(n) ==
  <<shown[n], chan["to_api"], Sending("data_master", "to_api"),
    chan["from_reader"], Sending("node_master", "from_reader"),
    chan["from_node"], Sending(n, "from_node")>>

(***************************************************************************)
(* Each event of a node reaches the hashers and the coordinator once and   *)
(* in the order of the polls, however full the channels are: only for that *)
(* reason is the ring of a tag sorted, and the last state a browser sees   *)
(* the last one there was.  (the awaits of data_master, db_master and      *)
(* node_master keep the order; only a NodeEvent ends in db_master)         *)
(***************************************************************************)
EventsInOrder ==
  \A n \in Nodes :
    /\ \A k \in DOMAIN made[n] : made[n][k].no = k /\ made[n][k].node = n
    /\ InLine(ToHashers(n), n, {"DeviceEvent"})
    /\ InLine(ToBrowsers(n), n, {"DeviceEvent", "NodeEvent"})

-----------------------------------------------------------------------------
(* The inductive invariant.                                                  *)

\* Where messages of the set M are: in a channel, in the hands of a task that sends,
\* or with a task that works on them or is about to announce them.
Holders(M) ==
  {<<"chan", c>> : c \in {d \in Channels : \E i \in DOMAIN chan[d] : chan[d][i] \in M}}
  \cup {<<"hand", t>> : t \in {u \in Tasks : \E i \in DOMAIN hand[u] : hand[u][i].msg \in M}}
  \cup {<<"work", w>> : w \in {v \in workers : \/ v.msg \in M
                                               \/ \E i \in DOMAIN v.tell : v.tell[i] \in M}}

\* There is no more than one of them.
AtMostOne(M) ==
  /\ \A g, h \in Holders(M) : g = h
  /\ \A c \in Channels : \A i, j \in DOMAIN chan[c] : chan[c][i] \in M /\ chan[c][j] \in M => i = j
  /\ \A t \in Tasks : \A i, j \in DOMAIN hand[t] :
       hand[t][i].msg \in M /\ hand[t][j].msg \in M => i = j

RequestsBy(a) == {m \in Requests \cup Commands : m.by = a}
Due(a) == Waits(a) /\ answer[a] = "none"

\* The request of a task exists while its answer is due, once.
RequestsInv ==
  \A a \in Askers : /\ AtMostOne(RequestsBy(a))
                    /\ Holders(RequestsBy(a)) # {} <=> Due(a)
                    /\ ~Waits(a) => answer[a] = "none"

\* A node is announced once, before its task exists and never if it was there at
\* the start: its task is not started a second time while it waits.
CreatesInv ==
  \A n \in Nodes :
    /\ AtMostOne({ConfigEvent("Create", n)})
    /\ Holders({ConfigEvent("Create", n)}) # {} => creating.node # n
    /\ \/ Holders({ConfigEvent("Create", n)}) # {}
       \/ creating.node = n
       => nodes[n] # "none" /\ n \notin Initial /\ at[n] = "absent"
    /\ nodes[n] = "none" => n \notin Initial /\ at[n] = "absent"

\* Which channels each task sends to.
Outlets(t) ==
  CASE t \in Clients -> {"from_api"}
    [] t \in Nodes -> {"from_node"}
    [] t = "node_master" -> {"from_reader"}
    [] t = "data_master" -> {"to_reader", "to_db", "to_api"}
    [] t = "db_master" -> {"measure"}

PlacesInv ==
  /\ \A c \in Clients : at[c] = "idle" => hand[c] = <<>>
  /\ at["node_master"] = "nodes" => \A n \in Nodes : at[n] = "absent"
  /\ \A t \in Tasks : \A i \in DOMAIN hand[t] : hand[t][i].to \in Outlets(t)
  /\ \A n \in Nodes : \A i \in DOMAIN hand[n] : hand[n][i].msg \in Events => hand[n][i].msg.node = n

(***************************************************************************)
(* Types, where a task may send, the one announcement of a node and the    *)
(* one request of a task that waits.                                       *)
(***************************************************************************)
IndInv == TypeOK /\ PlacesInv /\ CreatesInv /\ RequestsInv

(***************************************************************************)
(* Whoever asks is answered, although no handler and no node limits its    *)
(* wait: the database tasks have timeouts, and no task of the bus waits    *)
(* for ever while the ConfigEvents fit into the channel to node_master.    *)
(* (handle_get_request, get_devises and create_new_node await rx)          *)
(***************************************************************************)
EveryoneAnswered ==
  \A a \in Askers : (Waits(a) /\ answer[a] = "none") ~> (answer[a] # "none" \/ Down)

\* data_master waits for room in the channel to node_master, which is full.
RouterBlocked ==
  hand["data_master"] # <<>> /\ hand["data_master"][1].to = "to_reader" /\ ~Room("to_reader")

\* node_master waits for what only data_master can do: take its request, or make room.
MasterBlocked ==
  \/ at["node_master"] = "lookup"
     /\ \E i \in DOMAIN chan["from_reader"] : chan["from_reader"][i] = Request("node_master")
  \/ hand["node_master"] # <<>> /\ ~Room("from_reader")

(***************************************************************************)
(* data_master and node_master never wait for each other.  It fails: with  *)
(* the channel to node_master full, data_master waits for room and does    *)
(* not take the request whose answer node_master waits for; no measure is  *)
(* stored or shown again.  (README.en.md, of a configuration change:       *)
(* "without stopping neighboring workers or restarting the whole           *)
(* application")                                                           *)
(***************************************************************************)
NoStandstill == ~(RouterBlocked /\ MasterBlocked)
=============================================================================
