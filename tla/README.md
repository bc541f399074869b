# A verification development for ModbusTCPLogger

ModbusTCPLogger polls Modbus TCP gateways, shows the values live in a browser and
stores their history in MySQL. This directory holds TLA+ specifications of the parts
of it whose correctness depends on order, time and failure, the TLC configurations
that check them on small instances, and proofs checked by TLAPS.

Paths below are relative to `src/src/` of the repository unless they say otherwise.
`PROJECT.json` maps every definition to the lines it models.

Status: every part that keeps state and meets others is modelled: the storage path, the
polling of a node with its read steps and decoders, the message bus, the configuration
database with its notices, the live view, groups and assignments, users and sessions.
Section 7 names what is left out and why.

## 1. Inventory

| Component | State it keeps | Operations | Talks to |
|---|---|---|---|
| **ValueHasher** `db/hasher/hash_unit.rs`: ring of recent points of one tag, and the filter that decides what is stored | ring of points, head, tail, count until first full, last saved time, duplicate flag, Normal / InFail / FailReported | `new`, `add`, `get_hashed` | owned by measure_master |
| **measure_master** `db/hasher/hash_master.rs`, **DbMeasureUnit** `db_measure_unit.rs` | a hasher per tag, the buffer of rows not yet in MySQL | write a DeviceEvent, answer GetMeasure, flush 21 rows or more in one transaction | messages from db_master; table `measures` |
| **ReadMaster** and **node_loop** `reader/reader_loop/reading_loop/read_master*.rs`: one task per gateway | the devices and when each is due, the connection, the index chosen and the index polled last, the time of the next attempt to connect | sleep or receive a ConfigEvent, fetch devices, connect, poll one device, recover from a late answer | gateway; requests and events through node_master; ConfigEvents by broadcast |
| **node_master** `reading_loop/read_loop.rs` | the broadcast channel and the channel of the nodes | start every node, start a new one, forward both ways | data_master |
| **data_master** `data_master/data_master_loop.rs` | six channels of 100 messages | route between API, reader and database | everything |
| **db_master** `db/worker/db_master.rs`, `gen_fn.rs` | channel to measure_master | spawn a task with a timeout per command or request | data_master, MySQL |
| **Node, device, value workers** `db/worker/{node,device,value}_worker.rs` | tables `nodes`, `devices`, `value_units`, `measures` | create, update, soft and hard delete in transactions; notify the readers | db_master |
| **Groups, assignment** `db/worker/user_group_worker.rs`, `user_sub_group_workers.rs`, `assign_worker.rs` | groups, subgroups, which groups a user has, which value stands where | create, rename, move, delete, assign, read the pages | db_master; rows that other workers delete |
| **Users, tokens** `db/worker/{user,tokens}_worker.rs`, `api/router/auth.rs` | users, refresh tokens | login, refresh, logout, create, change, delete | API, db_master |
| **WebSocket coordinator** `api/web_sockets/*.rs` | last value and state of everything, subscriptions, a channel of two messages per browser | first picture, changes, flush, drop slow clients | events from data_master, browsers |
| **Poll pool** `modbus_device/pool_iterator.rs`, `read_steps.rs` | the requests one poll of a device makes | group registers, hand out values or failures | ReadMaster |
| **Decoding plugins** `decoding_plugins/*.rs` | nothing | decode registers | read steps |
| **Supervisor** `main.rs` | the four top-level tasks | start, wait for the first to end, abort the rest, wait for a key, start again | everything |
| REST routers, logger, first start and schema, licence check, browser pages | | | not modelled, section 7 |

A sample travels: `ReadMaster.read` → `DeviceEvent` → node_master → data_master →
db_master → measure_master → `ValueHasher.add` → `save_value` → buffer → `flush` →
`measures`; data_master gives the same event to the WebSocket coordinator. A change of
the configuration travels: REST handler → data_master → db_master → worker task →
`ConfigEvent` → data_master → node_master → broadcast → node_loop → `ReadMaster.update`,
which asks for its devices and values on the first path again.

### What is hard, and what makes each part correct

- *ValueHasher.* The undo of a short failure, the wrap of the ring, the heartbeat and the
  duplicate flag meet in any order. Correct: nothing of a tag's step function is lost or
  stored twice, a loss is marked neither early nor late, the ring and the table tell one
  history, and the binary search is right across the wrap.
- *measure_master.* Flush fails before or after its commit; values are deleted by other
  tasks while their rows wait; the program ends. Correct: each saved row is in the buffer
  or in the table once and in order, few wait, and queries miss none silently.
- *ReadMaster.* Events interrupt the sleep; indices outlive reloads; answers come late;
  polls are abandoned. Correct: the oldest active device is polled and none early, waiting
  is bounded, reconnection is paced, reload converges, the state shown is the true one,
  the task never panics.
- *Bus.* Bounded channels in a cycle, requests that wait for replies through the same
  loop, lagging broadcast receivers. Correct: no deadlock, no lost ConfigEvent, no reader
  left with an old configuration.
- *Configuration database.* Check-then-insert, rows read before a write or sent after
  another, a timeout between commit and notification, soft deletion, a configuration task
  beside measure_master. Correct: addresses unique, every task ends with what the database
  holds, one task for each node, history kept where it must be.
- *Coordinator.* Slow clients, sends that hold up the select, subscriptions replaced beside
  updates. Correct: what a subscriber is told mirrors the cache, one that was dropped is
  closed, no unit stays behind.
- *Groups.* Replacing a list in two statements, rows that go by cascade meanwhile, pages
  read in several queries. Correct: a list is replaced whole or not at all, and what a page
  shows was once true.
- *Sessions.* Rows read before and written after another call, replies that are not read,
  writes that fail. Correct: no row mixes two logins, a logout that was written ends its
  token.
- *Poll pool and decoders.* Gaps, duplicates, straddling ranges, integer widths, steps the
  device refuses for good. Correct: each value is read once and decoded from its own
  registers.

`PROJECT.json` lists each hazard at its line with the properties aimed at it.

## 2. Modules

| Module | Models | Notes |
|---|---|---|
| `HashUnit` | every method of `ValueHasher` as an operator | a hasher is a record with the fields of the struct; `Option` is a sequence of length 0 or 1 |
| `RingHistory` | how the ring of a tag and the rows saved for it agree | extends `HashUnit`; the part of the invariants that `ValueHasher` and `MeasureMaster` share |
| `ValueHasher` | one hasher and the rows it hands to `save_value` | `AddSample` is one call of `add`; history variables `log`, `sample`, `last_good` |
| `TagHistory` | abstract: what the rows of a tag may look like | refined by `ValueHasher` |
| `HashUnitProofs` | lemmas about the methods of a hasher: indices, window, binary search, and what a call of `add` does to `RingHistory` | extends `RingHistory`; used by both proof modules below |
| `ValueHasherProofs` | theorems about one hasher | extends `ValueHasher` |
| `MeasureMaster` | measure_master and DbMeasureUnit with deletions, faults and restarts around them | composes one `HashUnit` hasher per tag; each await of `save_value` is a step; the table is a function from the AUTO_INCREMENT id to the row |
| `MeasureMasterProofs` | theorems about storage | extends `MeasureMaster` |
| `ReadMaster` | node_loop and ReadMaster | each await is a step; the clock is part of the state |
| `PollingProofs` | theorems about polling: the scheduler, and the read steps a poll goes through | extends `ReadMaster` and `PollSteps`, which is why the names of `PollSteps` that every module has (`StepsInit`, `StepsNext`, `StepsSpec`, `stepsVars`) carry its own |
| `MessageBus` | data_master, db_master and its tasks, node_master, and the nodes, handlers, measure_master and coordinator as users of the channels | bounded channels; a task that awaits `send` holds its message in `hand` |
| `MessageBusProofs` | theorems about the bus | extends `MessageBus` |
| `ConfigTables` | the tables `nodes`, `devices`, `value_units`, `measures` and every query, check and transaction of the three configuration workers, as operators | a table is a function from its ids; one operator per function of the code, with `Accepts` for the checks, `Write` for the writes and `Keyed` for the foreign keys |
| `ConfigCommands` | commands on their way from the handler to the tasks of the nodes: worker, node_master, node_loop | extends `ConfigTables`; a step ends where another command can get in between |
| `ConfigFlow` | what holds in every state of the commands under way, the notices and the tasks: the invariant behind `Converged` and `OneTaskEach` | extends `ConfigCommands`; used by its proofs |
| `ConfigCommandsProofs` | theorems about tables and tasks under concurrent commands | extends `ConfigFlow` |
| `LiveSockets` | web_sock_coord, its units, handle_socket | messages are functions from things to states |
| `PollSteps` | the pool of read steps, the iterator over it and the decoding plugins | pure operators `PoolOf`, `Laid`, `RegSort`, `Decode`, ...; the polls of a device are the state machine that goes through them |
| `Groups` | groups, subgroups, assignments and the pages that show them | transactions in steps, with the locks MySQL holds between them |
| `GroupsProofs` | theorems about `Groups` | extends `Groups` |
| `Sessions` | users, logins, refresh tokens | a call is a task that has found a row or has asked for one to be written |
| `ApiProofs` | theorems about `Sessions` and about `LiveSockets` | extends both, which is why the names of `LiveSockets` that every module has (`LiveInit`, `LiveNext`, `LiveTypeOK`, ...) carry its own |
| `MC...` | the small instance of the module of that name | values of constants and symmetries only |

How state and actions correspond to the code:

- `HashUnit`: `Add` dispatches to `AddNormal`, `AddAfterNoice`, `CleanFailReport` and
  `AddFail` (the code's names); `Advance`, `GoAhead`, `RollBack` move the indices;
  `CurrentVal` and `CurrentAndPreviousVal` return the points; `GetHashed` and
  `LowerBoundRing` answer queries; `PointsBetween`, the loop that copies the answer, is a
  recursive function of the offset reached. `f64::MIN` is the model value `Fail`; NaN, which is
  never equal to itself, is not among the values.
- `MeasureMaster`: `Receive` takes a DeviceEvent, `Gaps` seconds after the last one and for
  each tag `Steps` seconds after that tag was last read (`read_at`); `AddMeasure` is one turn of the loop of
  `write_measure`; `SaveValue` pushes and decides to flush; `FlushCommits`, `FlushFails`
  and `FlushCommitsLate` are what `timeout(flush())` can come to (error before the
  commit, the timeout before it, the timeout or a lost answer after it). `DeleteValue`
  is `delete_value_with_transaction` of another task. `Restart` ends the program.
  `ReadMeasure` is an operator, for a query changes nothing.
- `ReadMaster`: `pc` is the await at which the task stands. `BackToSelect` is the end of
  a turn of `node_loop`: it calls `when_next`, which also chooses the next device, as part
  of the action that ends the turn. `StartConnecting`, `ConnectOk`, `ConnectFails` are
  `create_context`; `FetchDevices` is `create_devices`, with any set of devices whose
  values cannot be had; `Begin` to `Finish` are `read`, one Modbus request at a time, and
  `Finish` ends with the sleep of 20 ms (`Pause`) of a node with several devices. Each
  device has its own timeout, tries, interval, steps and broken steps. The sends to
  data_master take no time here; how long they can wait is `MessageBus`.
  What the database holds and the events about it (`ChangeConfig`, `DeleteNode`) stand
  for the workers and node_master. `late` is the fact about the network on which
  `HeaderMisMatch` depends: an answer that came after its request was given up.

- `MessageBus`: `Send` is every `send(..).await` of every task; `Forward` is one branch of
  the select of data_master, `Dispatch` one turn of db_master, `MasterConfigures` and
  `MasterForwards` the branches of node_master's select, `NodesRead` the end of
  `init_nodes`, `LookedUp` a turn of the loop of `create_new_node`. The tasks db_master
  starts answer (`WorkerAnswers`), commit (`WorkerCommits`), tell the readers and then the
  handler (`WorkerTells`) or are dropped by their timeout at any moment
  (`WorkerTimesOut`), which the asker sees as a closed oneshot. Messages carry who asks or
  which node they are about. Left out is what the database answers beyond success and
  failure, except whether the node that is looked up exists; the table `nodes` is kept for
  the checks of the commands only.

- `ConfigCommands`: `Issue` is the handler of the API and `command_node`,
  `command_device` or `command_value`, which start the task; `Check` is every early return
  up to the first write; `WriteRows` is the statement or transaction; `ReadNode` and
  `SendEvent` are the notice, which goes out twice when a device or a value moves to
  another node; `Finish` is the answer, `Cut` the five seconds of `run_db_with_timeout` or
  a failing database after the write. `NodesRead`, `MasterTakes`, `MasterLooksUp`,
  `LookupFails` (an error or a timeout, which spends a try as a missing row does) and
  `Broadcast` are node_master; `TaskHears`, `TaskLoads` and `LoadsPart` are node_loop as far
  as its configuration goes, the rest of which is `ReadMaster`. `LoadsPart` leaves out the
  devices whose values did not come; with none left the task panics. Three histories say about what the
  code promises nothing. `raced`: two commands about the same ever ran at once. `calm`: those
  that run have met none about the same, nor a creation that is still to be looked up by an
  address they give or take. `doubt`: the nodes of commands that ran while it was not calm, of
  commands that were cut, of tasks that lost a notice or left devices out, and those whose
  lookup failed to the last try, each until a command that runs alone announces it
  to its one task (`ReadNode`).
- `LiveSockets`: `Hear` is one event in the coordinator, with `Publish` for the flush of
  all units; `Obey` is one command from the sockets; `FirstConfig`, `ChangeConfig`,
  `Receive`, `ReceiveNone` and `Leave` are the branches of `handle_socket`; `Receive` begins
  a send, which `SendEnds` or `SendFails` ends any time later or never, and none of the
  branches is taken meanwhile (`Selects`). `screen` is what the socket was given to tell
  its browser. `Ends` is what follows the loop. `SenderHeld` and `ReceiverHeld` say when a tokio channel is closed.
- `PollSteps`: `StepsOf` is `init_plugins` with the sort that follows, `Laid` the second
  half of both sorts, `Singles` and `RegSort` their datasets. `Laid` says what the loop over
  the values that are left yields: a value goes into the first dataset that has its
  registers. `ReadSucceeds`, `ReadFails` and `MarkBroken` stand for the branches of
  `ReadMaster.read` that keep a step, give it up for this poll, or for good; `SkipBroken`
  passes over the latter in later polls, which begin with `NextPoll`. A measure keeps the
  place it comes of, and `silent` the steps that were broken when the poll began; both are
  histories.
- `Groups`: `PostAssignment` is the route, `Clear`, `Insert`, `Commit` the statements of
  `assign_worker`, `CutShort` the timeout; `UiGetGroup` and `UiGetValues` are the two
  queries of `ui_get_group`, `UiGetAssign` one turn of the loop of
  `ui_get_subgroups_assign`. `wanted` and the lists a page has `seen` are histories.
- `Sessions`: `FindToken` is the query of logout and of refresh; `Logout` and
  `RefreshToken` go on with its answer; `Login` makes the tokens and asks for the row;
  `WriteToken` is the write of either, any time later; `GivesUp` is every way in which a
  call ends without one. `logins` and `ended` are histories.

Operators marked `Mutant` in a module are plausible bugs of the definition that follows
them; nothing uses them. For every property of every passing run `PROJECT.json` names a
mutant under which TLC finds that property violated.

## 3. Plan

All modules of the plan are written, most important first: storage, polling, the bus, the
configuration, the live view, the read steps, groups, sessions; the abstract
specification of storage is `TagHistory`. What would come next:

1. A second start of the program in `ConfigCommands`, with the tasks the first one left.
2. The reports over `measures` in `api/router/measures.rs`, as pure operators.

## 4. Runs

Passing runs:

| Run | Shows | Bounds, and why they are enough |
|---|---|---|
| `hasher` | what `ValueHasher` saves and keeps, that it implements `TagHistory`, and that its binary search agrees with its definition as a filter, for every range | 3 slots, samples 1 or 2 s apart, deltas of a few seconds, time up to the bound in the cfg: the ring wraps, and noise, heartbeat and confirmed loss each fall before, on and after the wrap, and every ring that comes of it is asked for every range. Samples that share a second are left to the theorems about the window and the search, which hold for all gaps |
| `storage` | rows between hasher, buffer and table | two devices, one with a logged tag and one that is not, one with a logged tag, events of both in one second or in the next, a tag once a second; batches of 2, one failed flush, one late commit, one restart, deletions at any moment |
| `polling` | scheduling, reconnection and reload of one node | two devices that come, go and are switched off, in front of the other or behind it, with one and two tries and intervals of 1 and 2, two addresses, one change of configuration, one fetch that leaves devices out, every result of a read and of a connect |
| `config` | the tasks of the nodes converge to the database, one task each; addresses unique; history kept | two nodes, two devices, one value at the start (or one value that has measures and no longer logs); any two of sixteen commands, which meet, overlap or follow each other; one command cut or fetch failed, lookups failing at any time, two tries; three tasks with a broadcast channel of two, which lags. Two commands are what a race takes; a third would only repeat one. The places of two commands that run at once are interchangeable: the run takes them as symmetric |
| `live` | what browsers are told mirrors the cache; no unit is left behind; a dropped socket is closed | two sockets, a send that may take any time, a node, a device and a tag, channels of two messages as in the code, three subscriptions and three changes: a channel fills, the third change drops its unit, and the socket may subscribe again |
| `steps` | every value is read once and from its own registers | all lists of at most three of the values in `MCPollSteps`: the third is the one that finds two others in its place; all decoders, both signs, high words on both sides of 32767, all four kinds of registers, any number of polls in which any step fails or is refused. The theorems hold for all lists |
| `groups` | assignments are replaced whole or not at all, pages show whole ones | two tasks (two writers, two readers or one of each), one user, two groups, two subgroups, one value; every id may be deleted at any step. The theorems hold for all sizes |
| `sessions` | rows never mix two logins; a written logout ends its token | two users, two roles, two logins, two calls at once, three seconds: a refresh or a logout meets each step of a login and of another logout. The theorems hold for all sizes |
| `bus_messages` | the inductive invariant of the bus; every asker has one request under way; every event arrives once and in order on both its ways | one handler with all its kinds of requests and three ConfigEvents to give, one node that is created, changed and deleted and sends two events of either kind, two tries to look it up; channels of one message, so that each of them is full and each task waits at each of its sends |
| `bus_answers` | liveness: who asks is answered | one handler, one node running and one to be created, one ConfigEvent, which the channel to node_master can hold: below that bound data_master never waits for node_master |

Runs that show a disagreement between the code and what is said of it, each with the one
property TLC finds violated:

| Run | Property | What the code does | What is said |
|---|---|---|---|
| `bus_standstill` | `NoStandstill` | Creating nodes takes node_master 50 ms each, during which it takes nothing. When the changes fill the channel to it, data_master waits for room in it and does not forward the lookup node_master waits for: both wait for ever, and with them everything. With channels of 100 it takes about a hundred changes faster than 20 a second; the model has channels of 1 | `README.en.md:28` |
| `starved` | `SwitchedOffLast` | `when_next_device` starts from the first device of the list although it is switched off, and takes an active one only if that is older. The timestamp of a device that is not polled never moves, so once the others have passed it the node sleeps for a second at a time and polls nobody | `read_master_struct.rs:314`, `README.en.md:38` |

TLC's own deadlock check is off but in `steps`, where a poll follows every poll: in the other
models the inputs are bounded and the system stops at the bound, and a deleted node or a
panicked task really stops. That the bus itself does not stop is `EveryoneAnswered`.

Preconditions in the runs, and exceptions in the properties:

- `hasher` keeps samples in different seconds. Timestamps are whole seconds and a
  device may be polled more often; a sample with the timestamp of the heartbeat just saved
  sets the duplicate flag, and the next change saves the heartbeat again.
- `MostLaggingFirst` lets the first device of the list be chosen although it is switched off,
  as `when_next_device` does; who is chosen then is what `starved` shows.
- `LagBounded` is stated for a node that never lost its connection and whose first device is
  active, with the times the fetch and the first connect took on top of the round, and
  `Reloaded` for one whose requests for values were all answered: without that the code makes
  neither promise. A round is, for each device, the timeouts of all tries of all steps and
  the two short sleeps of a turn.
- `QueriesMissOnlyTheBuffer` is about queries up to now and, in `storage`, tags that are read
  at most once a second.
- `ServedOnce` counts no measure for the values of a step that was broken before the poll:
  the code reports them once, in the poll in which the device refused the step. When the
  connection fails later in that poll, even that failed sample is dropped.
- `OwnRegisters` compares a good measure with the number its registers hold, but for a signed
  `SatecDoubleRegistersInt32`, of which it says only that the measure is decoded from its own
  registers: the code's number is not the one its name promises (below).
- `DroppedEnds` is stated for sockets whose sends end: nothing obliges a browser to read.
- `Converged` and `OneTaskEach` except nodes in `doubt`, `UniqueUnlessRaced` runs in which
  two commands about the same ran at once, `NoneLeftBehind` the unit of a socket that ended
  on a text that does not parse. None of these three can be dropped: in `config` and `live`
  TLC then finds counterexamples. `doubt` takes all commands that run when two of them meet,
  and not these two only, which keeps the argument of section 6 within one state. It also
  takes the nodes whose lookup failed to the last try, which have no task, and those whose
  task left a device out or panicked because none was left: nothing repeats a lookup or a
  fetch that failed. The next Update of the node sets a task that runs right; a node without
  a task has none until the program starts again.

Behaviour met while modelling that differs from what a reader might expect, and for which
there is no run:

- Storage. A row of a deleted value in the buffer violates the foreign key; the buffer is
  kept, so no tag is stored until the program is restarted (`PoisonStays` says so). The
  first sample of a tag after a start is saved as it is, so a device that is down is marked
  lost at once. The ring declines a range inside its window when it has one slot or no point
  there, and MySQL is asked, which may not have the rows of the buffer yet. For a range that
  ends inside a silent plateau the ring has nothing, where the table has the row of its
  start: the slot of a plateau moves forward with its samples.
- Polling. `lastest_device_index` survives a reload with fewer devices; a late answer then
  indexes past the end and the task of the node panics. With the connection down no
  DeviceEvent is sent: the hashers see no failed samples and mark no loss. A late answer to
  an earlier step of the same poll lengthens the timeout of the device polled before.
  `get_devises` logs after five tries that they are used up, but goes on.
- Read steps. A value of two different registers is read only in groups. A group longer than a Modbus
  request may ask for (125 registers) fails as a whole. Registers are `i32` in the settings
  and wrap into `u16`. Of a signed `SatecDoubleRegistersInt32` the code makes the high word,
  negated above 32767, plus the low word, which is not the signed number of 32 bits that the
  name (`README.en.md:41`) and the setting "Знакове число" (`static/schemas.js:66`) promise.
- Configuration. An update of a node without a description empties it. An update of a device
  that gives only its parent is refused when the new node has any other device; one that
  gives only its address is compared with the devices of all nodes. An update accepts 0 for
  the intervals that creation refuses. A node with a device that no longer logs and has
  measures cannot be deleted (foreign key). `get_deleted_devices` reads the NULL parent of a
  deleted device into an `i32` and fails; `get_devices_by_parent_id` ends in a semicolon and
  answers 200 with no body. The API accepts IPv6 addresses, the reader parses `Ipv4Addr`.
- Live view. `socket.send(..).await` has no timeout and is inside a branch of the select: while
  a browser does not read, neither the fall of its channel nor the timer of 900 seconds, which
  should make it fetch a new token, is seen, and the socket stays open.
- Sessions. Login and logout answer 200 although the write failed. A token is accepted for
  the rest of the second of its logout; logging out an expired token makes it valid for that
  second. A change of the role of a user reaches the tokens with the next login. Rows of
  `refresh_tokens` outlive their user. `is_active` of a user is stored, set again by an
  update that does not give it, and never read.

## 5. Fairness

`EveryoneAnswered` of `MessageBus` is a liveness property and is checked under
`FairSpec`:

- weak fairness of the sends, turns and answers of each task: the tokio runtime runs
  every task that can run;
- strong fairness of the sends of handlers and nodes, which share a channel (tokio serves
  the senders waiting for one channel in turn), and of the branches of both selects
  (`select!` without `biased` picks among the ready ones at random);
- weak fairness of the timeout of each database task. Nothing is assumed of MySQL where
  a timer guards the task, that of a query of measures included, which `get_measures` gives
  up after 20 s;
- nothing is assumed to ask, poll or change anything.

`DroppedEnds` of `LiveSockets` is checked under its `FairSpec`: weak fairness of `Obey`,
the coordinator's turn for a command, and of `Receive` and `ReceiveNone`, the turns of
the select of each `handle_socket`. The tokio runtime runs a task that can go on; browsers
and readers owe nothing, and `SendEnds` and `SendFails` have no fairness: the property itself
says that it is about sockets whose sends end.

The other specifications have safety properties only and assume no fairness. "Must
eventually" is stated with the clock there (`HeartbeatKept`, `LossMarkedInTime`,
`LagBounded`), which says more than a liveness property: by when.

## 6. Proofs

`ValueHasherProofs` proves, for every capacity of at least 2, every value set, every pair
of deltas, every time bound and every set of gaps between samples, all that the runs check
of one hasher:

| Theorem | States |
|---|---|
| `HistoryInvariance` | `Spec => []HistoryInv`, the inductive invariant |
| `TypeCorrect`, `RingGeometryHolds` | the indices stay in the ring and fit together |
| `LogTellsTheValueHolds` | the last saved row tells the value last read, or marks the loss |
| `HeartbeatKeptHolds` | a good read leaves a row at most `StableDelta` old |
| `LossMarkedLateHolds` | no step marks a loss within `FailureDelta` of a good read |
| `LossMarkedInTimeHolds` | a tag last read more than `FailureDelta` and one gap ago has the mark as its last row |
| `UnchangedSuppressedHolds` | of three rows in a row with one value the first and the last are more than the delta apart |
| `NoNoiseServedHolds` | the window a query sees has no failed read that was not saved |
| `PlateauEndsSavedHolds` | the last point of a plateau that ended within the window is a row |
| `RingMatchesTableHolds` | ring and table tell one history from the oldest point of the ring on: each row lies on a plateau of it with its value, each end of a plateau is a row, and a loss in it is one, if no two samples share a second |
| `WindowChronologicalHolds` | from tail to head the timestamps never fall |
| `QueryExactHolds` | `get_hashed` answers exactly the points of the interval; its search ends with bounds on every window |
| `Refinement` | `Spec => ImplementsTagHistory`, if no two samples share a second |

Assumptions: those of `HashUnit`, `RingHistory` and `ValueHasher` (the constants are numbers
and sets of the obvious kinds, at least two slots), and for `Refinement` and
`RingMatchesTableHolds` that 0 is not a gap, without which they are false (section 4).

The argument: none of the properties is inductive. What `add` does next depends on the
slot of the plateau under way and on the last saved row, so the invariant relates the
two: `Continues` says that the slot has the value of the last row, carries its timestamp
or a later one, and that the duplicate flag is set exactly in the latter case; `InStep`
says which slot that is in each state (head; the slot before it during an unconfirmed
failure). `Geometry` is needed because `roll_back` must find the slot `go_ahead` left,
and `HeartbeatKept` because the age of the last row carries over a poll that saves
nothing. The lemmas follow the code: facts about each move of the indices
(`AdvanceFacts`, `GoAheadFacts`, `PushSlotFacts`, `RollBackFacts`), about each method
(`AddNormalFacts`, `AddAfterNoiceFacts`, `CleanFailReportFacts`, `AddFailFacts`), about
`add` (`AddFacts`), and about the step of the specification (`SampleFacts`).

That is `IndInv`; `HistoryInv` adds three parts. `RowsInv` keeps the distance of the last two
rows of one value, from which `UnchangedSuppressed` follows at the next. `WaitInv` dates the
first failed read of an unreported failure to one gap after the last good one, which is why
a loss is marked in time. `TellsInv` (`Tells` of `RingHistory`) is about the window a query sees, as a function `w`
on its offsets, and the set of saved points: failed reads and ends of plateaus are saved,
and each saved point that is not older than the window lies on a plateau of it. A call of
`add` does one of three things to that window, whatever the wrap: it leaves it
(`KeptTells`), gives its last point a later timestamp (`StampedTells`), or appends a point
and perhaps drops the first (`GrownTells`); `AddOutcome` of `HashUnitProofs` says which, and
`SampleTells` puts the three together, over `PushSlotWindow`, `RolledBack` and `HeadWritten`. For `QueryExact`, `lower_bound_ring` is a
recursive function of its two bounds, and what such a function yields needs an
induction: it is carried out by a smallest counterexample (`LeastNat`, `SearchExists`,
`SearchFinds`), as is that of the loop that copies the answer (`CopyIsCut`).

`MeasureMasterProofs` proves, for every set of tags, batch size, ring and number of
faults, late commits and restarts:

| Theorem | States |
|---|---|
| `Invariance` | `Spec => []IndInv` |
| `TypeCorrect` | hashers, buffer and table keep their types |
| `NothingLostHolds` | a row given to `save_value` is in the buffer or in the table while its tag exists |
| `StoredOnceInOrderHolds` | while no commit was answered late, the i-th row saved since the start has the i-th id of the table, unless its tag was deleted, and the buffer holds those that follow |
| `BufferBoundedHolds` | more than a batch waits only during a flush or after one that kept the buffer |
| `PoisonStaysHolds` | a row of a deleted tag in the buffer stops the growth of the table until a restart |
| `QueriesMissOnlyTheBufferHolds` | a query up to now misses no saved row but those of the buffer, if no tag is read twice in one second |

Assumption: `MeasureMasterAssumption` (and those of `HashUnit` and `RingHistory`). It says of
the devices that none lists a tag twice: a measure is a row of `value_units`, which belongs to
one device. `QueriesMissOnlyTheBufferHolds` assumes `0 \notin Steps` besides, that no tag is read twice in one
second; `Gaps`, the seconds between two events, may have 0, so that any number of devices
may be read in one second. Two samples of one tag in one second would make it false for the
reason they make `RingMatchesTable` false (section 4). The argument: `add`
returns a hasher only if the indices of the old one fit together, so the invariant has
`Geometry` for the hasher of each tag; the lemmas of `HashUnitProofs` (`AddType`,
`NewHasherType`) then carry the type over every sample. `NothingLost` is inductive
because a flush gives the rows of the buffer ids that no row of the table has, and because
a deletion removes from the table the rows of its own tag only. `unsaved # <<>> => inbox
# <<>>` says that the points being saved still know their tag. `PoisonStays` follows
step by step: each action that inserts requires `Insertable`. `StoredOnceInOrder`
speaks of ids and not of the order of the table, and is inductive with the types alone:
a commit gives the rows of the buffer the ids that follow, in one step.

`QueriesMissOnlyTheBuffer` needs to know of every ring what `ValueHasher` knows of its one:
`RingsInv` says that it tells the points given for its tag (`Given`: those saved since the
start and those add has just returned), up to the last time the tag was read (`ReadUpTo`:
`read_at`, or the second before the event while the tag waits in the inbox). `SampleTells`
carries it over the turn of the tag, `NewTells` starts it, `LaterTells` lets time pass until
the next event of the tag. `TableInv` separates the rows of the table that a ring knows from those of
an earlier start or of a ring that has moved on: the latter are older than the ring, so that
a query that begins within the ring asks for none of them. A row then is found in one of
three places: on a plateau of the ring when the ring answers (`RingAnswers`, over the bounds
of the binary search), otherwise in the table, or, by `NothingLost`, in the buffer.

`PollingProofs` proves of `ReadMaster`, for every set of configurations, every number of
devices and read steps and all timings:

| Theorem | States |
|---|---|
| `IndInvariant` | `Spec => []IndInv` |
| `TypeCorrect` | `Spec => []TypeOK` |
| `NeverPolledEarly` | `Spec => NotPolledEarly`: a poll begins only for an active device that is due |
| `PacedReconnects` | `Spec => ReconnectPaced` |
| `ShownState` | `Spec => []ShownStateIsTrue` |
| `TheOldestFirst` | `Spec => []MostLaggingFirst` |
| `HotReload` | `Spec => []Reloaded` |
| `BoundedLag` | `Spec => []LagBounded`: while the first device is active, nobody waits longer than a round |

Assumption: `ReadMasterAssumption`, of which `Reconnect <= NoDevices` is the one that
matters (the code sleeps 60 s in both cases: a node that lost its connection and then its
devices wakes by the sleep of the second). The argument: `DeviceInv` says that the current
device is the `Oldest`, at every moment and not only where `when_next` has just chosen,
because between two choices no timestamp changes; `ChosenIsOldest` shows that the loop of
`when_next_device` yields such a device (the minimum exists because `<` on the naturals is
well-founded). `TimeInv` and `DueInv` say what a sleep is long enough for: with a
connection for the timestamp of the current device, without one for
`last_connecting_time`; `Turn` is the lemma about `BackToSelect` both rest on. A device
stays due through reconnections, as nothing but `Finish` moves its timestamp ahead.
`LinkInv` says it of the state that was shown, everywhere but inside `create_context`.
`ReloadInv` adds for `Reloaded` that the last Update under way carries the address of the
database (`AddressComes`), and that the devices match unless a fetch is ahead
(`DevicesCome`); that a fetch which leaves nothing out keeps the order is
`NothingLeftOut`. `BoundedLag` counts: `InTime` says that of n devices at most n - j are late
by more than j turns. A turn takes at most the longest poll and two sleeps, which makes every
device that much later, but it polls the oldest, which is one of the late ones if there are
any (`TurnInTime`). `LagInv` says at which moments that holds, `Spent` what a poll may have
taken so far; the times of the fetch and of the first connect are on top. `FirstActive` is
the premise, which nothing but a fetch makes true (`FirstStays`). TLC checked `LagInv` on the instance of run `polling` first.

Of `PollSteps` it proves, for every list of values whose ids ascend (those the database gives),
any number of polls, whatever the device holds and whichever steps fail or are refused:

| Theorem | States |
|---|---|
| `StepsInvariant` | `StepsSpec => []StepsInv` |
| `EveryValueOnce` | `StepsSpec => []ServedOnce`: one measure for every value that can be read, none if its step was broken before the poll, never two |
| `ReadsOwnRegisters` | `StepsSpec => []OwnRegisters`, with settings that fit: decoded from its own registers, and for every decoder but the signed `SatecDoubleRegistersInt32` the number they hold |

Assumptions: `PollStepsAssumption` (ids are counted from 1, a plugin of two registers asks for
two, a register holds 16 bits). `ReadsOwnRegisters` assumes `SettingsFit` besides: registers
from 0 to 65535 and bits from 0 to 15. The code checks neither and casts the first register
of a step to u16 (`read_steps.rs:20`), so that a setting outside reads some other register; the
run assumes the same of its values (`MCSettingsFit`).

The argument has two halves. The first is about the steps, and is an induction over the
lists they are made of: the loops (`RegSort`, `FlattenSeq`) are recursive functions, which
exist because each is a finite iteration (`LoopExists`), and what holds of them is carried
from one index to the next (`Upward`, over a smallest counterexample). `Places` says that
ranking by the registers before gives every place to one register; `GroupsHold` that the
groups are `Runs`, each register of the values in one, and two consecutive ones in one
together; `Serves` and `NeverServed` follow for the values, and `OnePlace`, that no value is
in two steps. `PositionIn` and `AnswerHolds` say that a position points into the answer at
the register it was looked up for, so that `GoodValue` has the number of a value read off
the registers of its settings. The second half is the poll: `StepsInv` says that every measure
comes of one value of a step behind the cursor (`Sound`) and, while no plugin panicked, that
every value of the steps behind the cursor has its measure unless the step was broken when
the poll began (`Full`); a step that is broken was so then, or lies behind the cursor. `ServedOnce` alone is
not inductive: it counts measures by id, and only their places tell which values are still
to come. TLC checked `StepsInv` on the instance of run `steps` before it was proved.

`MessageBusProofs` proves, for any number of handlers and nodes and any capacity of the
channels, the broadcast and the tries included:

| Theorem | States |
|---|---|
| `Invariance` | `Spec => []IndInv` |
| `TypeCorrect` | no channel holds more than its capacity, or what the code does not send through it |
| `OneRequestEachHolds` | who waits for an answer has one request under way or its answer, nobody else has one |
| `EventsInOrderHolds` | the events of a node reach the hashers and the coordinator once each and in order |

Assumption: `MessageBusAssumption`. The argument for the requests: a request and the oneshot
in it have one holder, a channel, the `hand` of a task that sends or a task db_master
started (`Holders`, `AtMostOne`), and every action moves it from one to another or ends it
together with the wait of the one who asks. `RequestsInv` says so of every asker. It needs
`CreatesInv`: a node that were announced twice would be started again while it waits for its
devices and ask a second time. That in turn needs the table `nodes`, which lets a node be
created once. `Cardinality` enters only in the last theorem. The argument for the events:
between a node and the hashers stands a line of nine queues, between it and the browsers one
of seven (`ToHashers`, `ToBrowsers`: channels, and the message a task holds for the next of them).
Each action either moves the first message of a queue to the end of the one before it, or
moves none of that node's. The lemmas about `InLine` show that both keep the line in
order, whatever else the queues hold; the proof of an action then only says which it is.
`PlacesInv` is needed there because it says which channel a held message is for.

`ConfigCommandsProofs` proves, for any tables to start with, any commands and any number of
them at once:

| Theorem | States |
|---|---|
| `Invariance` | `Spec => []IndInv` |
| `ForeignKeysHold` | every row has its type and refers to rows that are there; a device in use has a node |
| `UniqueUnlessRacedHolds` | two nodes, or two devices in use of one node, never have one address, while no two commands about the same ran at once |
| `HistoryKeptHolds` | `Spec => HistoryKept`: a value goes only with a command about it or its device, or with its node when it does not log and has no measures |
| `FlowInvariance` | `Spec => [](IndInv /\ FlowInv)`, with `FlowInv` of `ConfigFlow` |
| `ConvergedHolds` | at rest each task of a node not in doubt polls what the database holds for it |
| `OneTaskEachHolds` | at rest a node not in doubt has one task if it is in the database, and none if it was deleted |

Assumption: `ConfigCommandsAssumption`: the tables hold at the start what `Tables`,
`Related` and `AddressesDiffer` say (an empty database does, and what an earlier run
left if nothing raced in it), and the commands are of the shapes of
`messages/commands`; the tasks are numbered from 1. The argument: the references hold because each write is under its
foreign key (`Keyed`), although what it refers to was checked some awaits before
(`WriteTables`, with a lemma per write). The addresses have no key, and their invariant has to
say what a check is still worth when the worker writes: `ClearUnlessRaced` says that nothing
stands in the way of a worker that is about to write, and that no other worker before its write
is about the same. A check establishes that (`AcceptsClear`); it lets the write keep the
addresses different (`WriteDiffers`); a write changes nothing but what its command is about
(`Spares`, `WriteSpares`); and so it takes nothing from the other workers (`SparedClear`,
`SparedCovers`). What a command is about was fixed when it was given, and `Covers` says that
it still is what the command will write: a device in use has changed its node meanwhile
only by another command about the same. `IndInv` was an invariant of run `config` before it
was proved. `HistoryKept` is a property of the write alone (`WriteDrops`); of the
invariant it needs the types, and that a slot changes with the write (`WrittenSlot`), which
tells whose write it was.

`Converged` and `OneTaskEach` speak of a moment of rest; `FlowInv` says on what they rest
before it. For each node that is not in doubt:
`Counted`: it has one task and no creation on its way, or no task and one creation, which a
command has still to send or node_master to look up, and no Update before it; `Ending`: a
task whose node was deleted has a Delete coming, from a command, in the stream of
node_master or in its inbox; `Told` and `Heard`: a command that has written will
announce the node (`Owed`), or the last Update of it in the stream carries its address, or the
last one in the inbox of its task does, or the task shows what the database holds. At rest
only the last is left. What fails on the way keeps that by way of `doubt`: a lookup that fails
with a try left leaves the creation on its way (`LookupFailsIs`), one that fails with the
last, and a fetch that leaves devices out (`LoadsPartFlow`), put their node in doubt. What makes
this inductive is what it takes for a command to announce every node its write has changed:
the lines that read whom to tell run after the write, on tables that other commands
change meanwhile. `CalmSlots` says that while nothing met, what a command is about
(`touches`, fixed when it was given) is still what it will write and read (`Grounded`), that
what it has written it has announced or has left to announce (`Left`), and that no two
of those that run have a node or an address in common; a write then changes only the nodes
its command is about (`Changed`), and leaves what the others rest on. While it is not
calm `Doubted` puts whatever a command has not announced in doubt. `Creations` is what the lookup by
address needs: a creation finds its own node, as no other one not in doubt has that
address, and no command that is to write is about to give it away. `Given` says that ids are
not used again, so that a notice of a deleted node meets no new one. TLC checked `FlowInv`
as an invariant on the whole instance of run `config` before it was proved.

`GroupsProofs` proves, for all sets of users, groups, subgroups and values and any number
of tasks:

| Theorem | States |
|---|---|
| `AssignmentsWhole` | `Spec => []IndInv` |
| `NothingTakenAway` | an owner that exists has the whole list last committed for it, less what was deleted |
| `PagesWhole` | a page shows for each subgroup a list that was committed while it was read, less what was deleted |

Assumption: `GroupsAssumption` (the ids are different). What is assumed of MySQL is in the
guards of the actions: changes are seen when they commit, and rows that were deleted,
and the parents of rows that were inserted, are locked until then. The argument:
`AssignedWhole` alone is not inductive, for a commit could bring back an item that was
deleted after the insert: `ParentsKept` says that the parents of inserted rows live until
the commit, which is where the locks come in, and `Referential` that deleted items are
assigned nowhere. `PagesWhole` needs `ReadAsSeen`, which relates each list a page has
read, or will read, to the lists committed meanwhile, and `NothingForNew`, so that an id
that is given later cannot turn up in an old list. `TaskStep` is the lemma for the
steps that move one task and no row; deletion, commit and the pages have lemmas of their own.

`ApiProofs` proves of `Sessions`, for all sets of users, roles and calls and all lifetimes:

| Theorem | States |
|---|---|
| `SessionsWhole` | `Spec => []IndInv` |
| `SessionsEnd` | `Spec => SessionEnds`: no refresh that finds a token after a written logout of it gives access after the second of that logout, and none a month after the login |

Assumption: `SessionsAssumption`; that a hash is never made twice is in the guard of
`Login`. The argument: a refresh uses the row it found, so `FoundAsSaid` says of a found row
what `ExpiresAsSaid` says of the table, as of the time it was found; a late write of a
login could bring an ended token back, which `LoginAlone` excludes (nobody has found, and
nobody has ended, a token whose login is not written); `LogoutsAreNow` gives the time
that a late write of a logout brings.

It proves of `LiveSockets`, for all sets of connections, nodes, devices, tags and states, every
capacity of a channel and any number of events:

| Theorem | States |
|---|---|
| `LiveInvariance` | `LiveSpec => []LiveInv` |
| `MirrorsHolds` | the last that a subscribed browser was told of a thing, or is about to be told by its channel, is what the coordinator has cached |
| `NoneLeftBehindHolds` | every unit has its open socket, or a command under way names it, unless its socket ended on a text that does not parse |

Assumption: `LiveSocketsAssumption` (a browser asks for things there are, a channel holds at
least one message). The argument for `Mirrors`: a change reaches every unit that stays
(`PublishGives`) and is told last (`TellsChange`); a message that leaves the channel is shown
(`TellsShown`); a unit begins with all that is cached of what it asked for (`TellsAll`). The
last needs more than `Mirrors` itself: a new unit must find its channel empty and nobody
else on its way with its id (`UnitsInv`), and the browser must not have been shown
what is not cached, for a thing it asks for again would then stay on the screen (`KnownInv`);
`SocketsInv` keeps two sockets from reading one channel. `NoneLeftBehind` speaks of any
command under way, which is not inductive: a command that is carried out may be the only one
that names the unit it brings. `KeptInv` says it of the commands that follow the one which
brings the unit, and of those that remove it (`Removes`). The steps of a socket that send a
command share `SendKeeps`. TLC checked `LiveInv` on the instance of run `live` before it was
proved.

Only model-checked: liveness under fairness (`EveryoneAnswered`, `DroppedEnds`), which, with
ENABLED, is outside what the installed provers handle. Every invariant and every action
property of the passing runs has a theorem.

## 7. Not modelled

- REST routers beyond what section 2 names: listings, the routing table, the middlewares,
  the translation of HTTP to messages. Their waits are the `Clients` of `MessageBus`. The
  reports of `measures.rs` are data over one query each. The browser pages are clients.
- Logger: `try_send` into a channel of 20; no other part reads what it does.
- First start, schema creation, encoding of the connection string, licence check: console
  and file I/O in sequence. The foreign keys are where the transactions meet them:
  `Keyed` and `NodeDeletable` in `ConfigTables`, `Deleted` in `Groups`, `Insertable` in
  `MeasureMaster`.
- Supervisor: the tasks of the nodes that outlive the abort of the others. They find
  their channels closed, so that nothing of the next start depends on them.
- In `MeasureMaster`: the messages that measure_master only rejects with a log line, and
  failing reads of MySQL, which change no state.
- In `MessageBus`: the answers of the database beyond success and failure: what is in them
  is `ConfigCommands`, whose channels have no limit but the broadcast's; receivers that close; a database task that panics
  (its oneshot closes, as with a timeout).
- In `ReadMaster`: the time a send to data_master waits for room in its channel, and with it
  a bound of the lag while the bus is full; how an error of the Modbus library is sorted into its five kinds
  (`read_process`); lagging of the broadcast channel; an address that does not parse,
  which `create_node` and `update_node` keep out of the database; the clock stepping back.
- In `ConfigCommands`: names, ports, descriptions and settings (a change of them reads
  like one that changes nothing); a command that fails before it writes, which leaves no
  trace; the pool of connections, which `delete_node` asks for a second one inside its
  transaction; the panic of `init_nodes` when the table cannot be read at the start
  (`MessageBus` has it); what goes on between the queries of one fetch, whose devices and
  values are read in one step.
- In `LiveSockets`: the times (thirty and 900 seconds are steps that may happen), the
  serialisation to JSON, and the way from a socket that sends to the screen of a browser.
- In `PollSteps`: parsing of the settings (a flag), the final division by a power of ten, the
  Modbus protocol, which answers with as many words as it was asked for, and never a request
  for no registers or for one beyond the last.
- In `Groups` and `Sessions`: names, descriptions, passwords, signatures.
