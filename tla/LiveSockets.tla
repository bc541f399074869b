---------------------------- MODULE LiveSockets ----------------------------
(***************************************************************************)
(* web_sock_coord and the sockets of /live_data.  The coordinator caches   *)
(* the last state of every node, device and value, and gives each          *)
(* subscriber what changed of the things it asked for, through a channel   *)
(* of two messages.  A subscriber that cannot take a message is dropped.   *)
(*                                                                         *)
(* A message is a function from the things that changed to their states.   *)
(* The vectors of a unit are empty between two steps of the coordinator,   *)
(* each of which flushes what it collected.                                *)
(***************************************************************************)
EXTENDS Integers, Sequences, FiniteSets, Functions

CONSTANTS
  Sockets,     \* the connections that may be made
  Nodes, Devices, Tags,
  NodeStates,  \* NodeEventType
  DeviceStates,\* DeviceEventType
  Readings,    \* what a value may measure
  Configs,     \* what a browser may subscribe to: sets of nodes, devices and tags
  Capacity,    \* of the channel of a subscriber (2)
  MaxIds,      \* bound: subscriptions sent
  MaxEvents    \* bound: events that change something

ASSUME LiveSocketsAssumption ==
  /\ Configs \subseteq SUBSET (Nodes \cup Devices \cup Tags)
  /\ Capacity \in Nat \ {0} /\ {MaxIds, MaxEvents} \subseteq Nat

VARIABLES
  cache,        \* nodes, devises and values: thing -> the last state
  subscribers,  \* id -> what the unit asked for
  queue,        \* id -> the messages in the channel of the unit
  commands,     \* the channel of CoordUnitWebSocketCommand
  sockets,      \* socket -> what handle_socket does, its current_id, whose receiver it holds
  ws_counter,   \* ids given
  screen,       \* what a socket was given to tell its browser: thing -> state
  sending,      \* the sockets whose handle_socket awaits the end of a send
  lost,         \* history: ids whose socket ended on a config that does not parse
  events        \* events so far that changed something

liveVars == <<cache, subscribers, queue, commands, sockets, ws_counter, screen, sending,
              lost, events>>

Ids == 1 .. MaxIds
Things == Nodes \cup Devices \cup Tags
States == NodeStates \cup DeviceStates \cup Readings
Message == UNION {[T -> States] : T \in SUBSET Things}
Overlay(f, g) == [x \in DOMAIN f \cup DOMAIN g |-> IF x \in DOMAIN g THEN g[x] ELSE f[x]]
Nothing == [x \in {} |-> 0]

Commands ==
  [type : {"New", "Change"}, id : Ids, old_id : 0 .. MaxIds, wanted : Configs]
    \cup [type : {"Delete"}, id : Ids, old_id : {0}, wanted : {{}}]

LiveTypeOK ==
  /\ cache \in Message
  /\ DOMAIN subscribers \subseteq 1 .. ws_counter /\ Range(subscribers) \subseteq Configs
  /\ queue \in [Ids -> Seq(Message)] /\ \A i \in Ids : Len(queue[i]) <= Capacity
  /\ commands \in Seq(Commands)
  /\ sockets \in [Sockets -> [pc : {"first", "open", "closed"}, current_id : 0 .. MaxIds,
                              receiver : 0 .. MaxIds]]
  /\ ws_counter \in 0 .. MaxIds
  /\ screen \in [Sockets -> Message]
  /\ sending \subseteq Sockets
  /\ lost \subseteq Ids
  /\ events \in 0 .. MaxEvents

LiveInit ==
  /\ cache = Nothing /\ subscribers = Nothing
  /\ queue = [i \in Ids |-> <<>>] /\ commands = <<>>
  /\ sockets = [s \in Sockets |-> [pc |-> "first", current_id |-> 0, receiver |-> 0]]
  /\ ws_counter = 0
  /\ screen = [s \in Sockets |-> Nothing] /\ sending = {}
  /\ lost = {} /\ events = 0

-----------------------------------------------------------------------------
(* The units.                                                                *)

\* node_events, device_events, value_events: what a unit takes of some changes.
AskedFor(wanted, changes) == Restrict(changes, wanted \cap DOMAIN changes)

ReceiverHeld(id) == \E s \in Sockets : sockets[s].receiver = id

\* Mutant: a message that finds no room is forgotten and the unit stays.
FlushesAlways(id, message) == TRUE

\* flush: nothing to send, or try_send finds room and a receiver.
Flushes(id, message) ==
  \/ DOMAIN message = {}
  \/ ReceiverHeld(id) /\ Len(queue[id]) < Capacity

Sent(q, message) ==
  IF DOMAIN message = {} \/ Len(q) >= Capacity THEN q ELSE Append(q, message)

\* The changes go to every unit; flush_subscribers keeps those that could take them.
Publish(changes) ==
  LET message(id) == AskedFor(subscribers[id], changes)
      kept == {id \in DOMAIN subscribers : Flushes(id, message(id))}
  IN  /\ subscribers' = Restrict(subscribers, kept)
      /\ queue' = [id \in Ids |-> IF id \in kept THEN Sent(queue[id], message(id)) ELSE queue[id]]

-----------------------------------------------------------------------------
(* The coordinator.                                                          *)

\* check_change
Changed(event) ==
  Restrict(event, {x \in DOMAIN event : x \in DOMAIN cache => cache[x] # event[x]})

\* An event that changes nothing is of no effect: flush finds nothing to send.
Hear(event) ==
  /\ DOMAIN Changed(event) # {} /\ events < MaxEvents
  /\ cache' = Overlay(cache, event)
  /\ Publish(Changed(event))
  /\ events' = events + 1
  /\ UNCHANGED <<commands, sockets, ws_counter, screen, sending, lost>>

NodeEvent == \E n \in Nodes, state \in NodeStates : Hear([x \in {n} |-> state])

DeviceEvent ==
  \E d \in Devices, state \in DeviceStates, T \in SUBSET Tags : \E readings \in [T -> Readings] :
    Hear(Overlay([x \in {d} |-> state], readings))

\* New and Change: the unit is told all that is cached of what it asked for, and is
\* inserted when it could be told.
Subscribe(id, wanted, others) ==
  LET all == AskedFor(wanted, cache)
  IN  IF Flushes(id, all)
      THEN /\ subscribers' = Overlay(others, [x \in {id} |-> wanted])
           /\ queue' = [queue EXCEPT ![id] = Sent(@, all)]
      ELSE subscribers' = others /\ UNCHANGED queue

\* Mutant: the old unit is not removed.
AllOthers(id) == subscribers

Others(id) == Restrict(subscribers, DOMAIN subscribers \ {id})

Obey ==
  /\ commands # <<>>
  /\ commands' = Tail(commands)
  /\ LET c == Head(commands)
     IN  CASE c.type = "New" -> Subscribe(c.id, c.wanted, subscribers)
           [] c.type = "Change" -> Subscribe(c.id, c.wanted, Others(c.old_id))
           [] c.type = "Delete" -> subscribers' = Others(c.id) /\ UNCHANGED queue
  /\ UNCHANGED <<cache, sockets, ws_counter, screen, sending, lost, events>>

-----------------------------------------------------------------------------
(* handle_socket.  While a send is under way the select is not polled: no    *)
(* text is read, the channel may fill or fall, the 900 seconds may pass.     *)

Command(type, id, old_id, wanted) == [type |-> type, id |-> id, old_id |-> old_id, wanted |-> wanted]

\* The first text of the browser.
FirstConfig(s, wanted) ==
  /\ sockets[s].pc = "first" /\ ws_counter < MaxIds
  /\ ws_counter' = ws_counter + 1
  /\ commands' = Append(commands, Command("New", ws_counter', 0, wanted))
  /\ sockets' = [sockets EXCEPT ![s] = [pc |-> "open", current_id |-> ws_counter',
                                        receiver |-> ws_counter']]
  /\ UNCHANGED <<cache, subscribers, queue, screen, sending, lost, events>>

\* No text in thirty seconds, another message, or one that does not parse: that one
\* has taken an id.
FirstFails(s) ==
  /\ sockets[s].pc = "first"
  /\ sockets' = [sockets EXCEPT ![s].pc = "closed"]
  /\ ws_counter' \in {ws_counter, ws_counter + 1} /\ ws_counter' <= MaxIds
  /\ UNCHANGED <<cache, subscribers, queue, commands, screen, sending, lost, events>>

\* The select of the loop is polled.
Selects(s) == sockets[s].pc = "open" /\ s \notin sending

\* A later text.  The receiver of the old unit is dropped with what it holds.
ChangeConfig(s, wanted) ==
  /\ Selects(s) /\ ws_counter < MaxIds
  /\ ws_counter' = ws_counter + 1
  /\ commands' = Append(commands, Command("Change", ws_counter', sockets[s].current_id, wanted))
  /\ sockets' = [sockets EXCEPT ![s].current_id = ws_counter', ![s].receiver = ws_counter']
  /\ queue' = [queue EXCEPT ![sockets[s].receiver] = <<>>]
  /\ UNCHANGED <<cache, subscribers, screen, sending, lost, events>>

\* break, then delete_config with the current id.
Ends(s, id) ==
  /\ sockets' = [sockets EXCEPT ![s] = [pc |-> "closed", current_id |-> id, receiver |-> 0]]
  /\ commands' = Append(commands, Command("Delete", id, 0, {}))
  /\ queue' = [queue EXCEPT ![sockets[s].receiver] = <<>>]
  /\ sending' = sending \ {s}
  /\ UNCHANGED <<cache, subscribers, screen, events>>

\* A later text that does not parse: current_id is already the new one.
ChangeFails(s) ==
  /\ Selects(s) /\ ws_counter < MaxIds
  /\ ws_counter' = ws_counter + 1
  /\ lost' = lost \cup {sockets[s].current_id}
  /\ Ends(s, ws_counter')

\* A message is taken and its send begins.
Receive(s) ==
  LET id == sockets[s].receiver
  IN  /\ Selects(s) /\ queue[id] # <<>>
      /\ screen' = [screen EXCEPT ![s] = Overlay(@, Head(queue[id]))]
      /\ queue' = [queue EXCEPT ![id] = Tail(@)]
      /\ sending' = sending \cup {s}
      /\ UNCHANGED <<cache, subscribers, commands, sockets, ws_counter, lost, events>>

\* The send has no timeout: it ends when the browser and the network let it.
SendEnds(s) ==
  /\ s \in sending
  /\ sending' = sending \ {s}
  /\ UNCHANGED <<cache, subscribers, queue, commands, sockets, ws_counter, screen, lost, events>>

SendFails(s) ==
  /\ s \in sending
  /\ Ends(s, sockets[s].current_id)
  /\ UNCHANGED <<ws_counter, lost>>

\* The unit that holds the sender is in a command or subscribed.
SenderHeld(id) ==
  id \in DOMAIN subscribers
    \/ \E i \in DOMAIN commands : commands[i].id = id /\ commands[i].type # "Delete"

\* Mutant: the loop goes on.
ReceiveNoneStays(s) == FALSE

\* The channel fell: the messages it still held have been taken.
ReceiveNone(s) ==
  /\ Selects(s) /\ queue[sockets[s].receiver] = <<>>
  /\ ~SenderHeld(sockets[s].receiver)
  /\ Ends(s, sockets[s].current_id)
  /\ UNCHANGED <<ws_counter, lost>>

\* The browser leaves, or the 900 seconds are over.
Leave(s) ==
  /\ Selects(s)
  /\ Ends(s, sockets[s].current_id)
  /\ UNCHANGED <<ws_counter, lost>>

-----------------------------------------------------------------------------
LiveNext ==
  \/ NodeEvent \/ DeviceEvent \/ Obey
  \/ \E s \in Sockets :
       \/ \E wanted \in Configs : FirstConfig(s, wanted) \/ ChangeConfig(s, wanted)
       \/ FirstFails(s) \/ ChangeFails(s) \/ Receive(s) \/ SendEnds(s) \/ SendFails(s)
       \/ ReceiveNone(s) \/ Leave(s)

LiveSpec == LiveInit /\ [][LiveNext]_liveVars

\* Tasks that can go on do: the coordinator takes its commands, and handle_socket
\* what is in its channel.  Browsers and readers owe nothing: no send need ever end.
FairSpec ==
  /\ LiveSpec /\ WF_liveVars(Obey)
  /\ \A s \in Sockets : WF_liveVars(Receive(s)) /\ WF_liveVars(ReceiveNone(s))

-----------------------------------------------------------------------------
(* Properties.                                                               *)

\* The last that is told of x, by the messages or else by what is shown, is state.
LastTold(shown, messages, x, state) ==
  \/ \E i \in DOMAIN messages :
       /\ x \in DOMAIN messages[i] /\ messages[i][x] = state
       /\ \A j \in DOMAIN messages : j > i => x \notin DOMAIN messages[j]
  \/ /\ \A i \in DOMAIN messages : x \notin DOMAIN messages[i]
     /\ x \in DOMAIN shown /\ shown[x] = state

NotTold(shown, messages, x) ==
  x \notin DOMAIN shown /\ \A i \in DOMAIN messages : x \notin DOMAIN messages[i]

Mirrored(wanted, known, shown, messages) ==
  \A x \in wanted : IF x \in DOMAIN known
                      THEN LastTold(shown, messages, x, known[x])
                      ELSE NotTold(shown, messages, x)

\* What the browser shows, once it has read its channel, is what the coordinator
\* has cached of all the socket subscribed to, as long as it is subscribed: no
\* change is lost when a channel is full, a subscription is replaced or the cache
\* was filled before it (web_sock_coord.rs:90-130, live_socket_unit.rs:108-134).
Mirrors ==
  \A s \in Sockets :
    sockets[s].receiver \in DOMAIN subscribers =>
      LET id == sockets[s].receiver
      IN  Mirrored(subscribers[id], cache, screen[s], queue[id])

\* No unit is kept without a socket: each is the current one of an open socket, or
\* the command that removes it is under way.  Excepted is the unit of a socket
\* that ended on a text that does not parse (live_socket.rs:90-120): that one
\* stays until a change it asked for finds no receiver.
NoneLeftBehind ==
  \A id \in DOMAIN subscribers \ lost :
    \/ \E s \in Sockets : sockets[s].pc = "open" /\ sockets[s].current_id = id
    \/ \E i \in DOMAIN commands : id \in {commands[i].id, commands[i].old_id}

\* A socket whose unit was dropped is closed, so that the browser connects again,
\* when every send to it ends: it never stays open while nobody sends to it
\* (live_socket.rs:104-114).  The browser that was dropped because it reads too
\* slowly is in the midst of such a send.
DroppedEnds ==
  \A s \in Sockets :
    []<>(s \notin sending) =>
      ((sockets[s].pc = "open" /\ ~SenderHeld(sockets[s].receiver))
        ~> (sockets[s].pc = "closed" \/ SenderHeld(sockets[s].receiver)))

-----------------------------------------------------------------------------
(***************************************************************************)
(* The inductive invariant behind the theorems.                            *)
(***************************************************************************)

\* An open socket holds the receiver of its current unit, and no other does.
SocketsInv ==
  /\ \A s \in Sockets : IF sockets[s].pc = "open"
                          THEN /\ sockets[s].receiver = sockets[s].current_id
                               /\ sockets[s].current_id \in 1 .. ws_counter
                          ELSE sockets[s].receiver = 0
  /\ \A s, t \in Sockets :
       sockets[s].receiver = sockets[t].receiver /\ sockets[s].receiver # 0 => s = t
  /\ \A s \in sending : sockets[s].pc = "open"

\* A unit on its way to the coordinator is new, and its channel is empty.
Brings(c, id) == c.type # "Delete" /\ c.id = id

UnitsInv ==
  /\ \A i \in DOMAIN commands :
       /\ commands[i].id <= ws_counter
       /\ Brings(commands[i], commands[i].id) =>
            /\ queue[commands[i].id] = <<>> /\ commands[i].id \notin DOMAIN subscribers
            /\ \A j \in DOMAIN commands : Brings(commands[j], commands[i].id) => j = i
  /\ \A id \in Ids : id > ws_counter => queue[id] = <<>>

\* Nothing was told that is not cached.
KnownInv ==
  /\ \A s \in Sockets : DOMAIN screen[s] \subseteq DOMAIN cache
  /\ \A id \in Ids : \A i \in DOMAIN queue[id] : DOMAIN queue[id][i] \subseteq DOMAIN cache

\* After the command in place i a unit has a socket, or a later one removes it.
Removes(c, id) == (c.type = "Change" /\ c.old_id = id) \/ (c.type = "Delete" /\ c.id = id)

Kept(id, i) ==
  \/ id \in lost
  \/ \E s \in Sockets : sockets[s].pc = "open" /\ sockets[s].current_id = id
  \/ \E j \in DOMAIN commands : j > i /\ Removes(commands[j], id)

KeptInv ==
  /\ \A id \in DOMAIN subscribers : Kept(id, 0)
  /\ \A i \in DOMAIN commands : commands[i].type # "Delete" => Kept(commands[i].id, i)

\* Together they hold of what the coordinator and handle_socket do in any order
\* (web_sock_coord.rs:20-105, live_socket.rs:55-153).
LiveInv == LiveTypeOK /\ SocketsInv /\ UnitsInv /\ KnownInv /\ KeptInv /\ Mirrors
=============================================================================
