----------------------------- MODULE ReadMaster -----------------------------
(***************************************************************************)
(* node_loop and ReadMaster of reader/reader_loop/reading_loop: the task   *)
(* that polls the devices behind one Modbus TCP gateway over one           *)
(* connection, reloads its configuration when the database worker says so, *)
(* and reconnects when the link fails.                                     *)
(*                                                                         *)
(* A step ends at an await.  Times are in units of the model; what an      *)
(* await costs is added to now by the step that ends it.                   *)
(***************************************************************************)
EXTENDS Integers, Sequences

CONSTANTS
  Ids,           \* device ids
  Steps,         \* the most read steps of a device: ReadSteps, one Modbus request each
  RetryCount,    \* the most tries of a step, the largest DeviceRead.retry_count
  Timeout,       \* the largest DeviceRead.timeout
  TimeoutStep,   \* what increase_timeout adds (50 ms)
  Reconnect,     \* pause between attempts to connect (60 s)
  Cooldown,      \* the sleep of increase_timeout (5 s)
  NoDevices,     \* sleep of a node without devices (60 s)
  NoActive,      \* what when_next_device returns when no device is active (1000)
  MinSleep,      \* the least sleep of node_loop (20 ms)
  Pause,         \* the sleep after a poll that leaves other devices (20 ms)
  Start,         \* the time the node is spawned
  Configs,       \* what the database may hold for the node
  ConnectTime,   \* the longest a connect takes
  FetchTime,     \* the longest create_devices takes
  MaxTime,       \* bound of the model: nothing happens after this time
  MaxChanges,    \* bound of the model: changes of the configuration
  MaxDropped     \* bound of the model: failed requests for the values of a device

\* DeviceRead, and the read steps that come of the device's values.
DeviceSetting ==
  [id : Ids, active : BOOLEAN, timeout : 0 .. Timeout, retry_count : 0 .. RetryCount,
   time_for_recall : Nat, steps : 0 .. Steps]

ASSUME ReadMasterAssumption ==
  /\ {Steps, RetryCount, Timeout, MinSleep} \subseteq Nat \ {0}
  /\ {TimeoutStep, Reconnect, Cooldown, NoDevices, NoActive, Pause, Start, ConnectTime,
      FetchTime, MaxTime, MaxChanges, MaxDropped} \subseteq Nat
  /\ NoActive < Start /\ Start <= MaxTime /\ Reconnect <= NoDevices
  /\ \A c \in Configs : c.devices \in Seq(DeviceSetting)

VARIABLES
  config,                \* the node and its devices in the database
  bus,                   \* ConfigEvents of this node not yet received
  devices,               \* ReadMaster.devices
  addr,                  \* ReadMaster.ip and port
  ctx,                   \* a connection is open
  ctx_state,             \* what the last NodeEvent said of the connection
  current,               \* current_devise_index, from 1; 0 is None
  lastest,               \* lastest_device_index, from 1; 0 is None
  last_connecting_time,  \* not before this time the next attempt
  pc,                    \* where the task waits
  goal,                  \* why it connects or fetches: update, tick or recover
  poll,                  \* the poll under way: step, tries, failed steps
  now,                   \* the clock
  wake,                  \* when the sleep of node_loop ends
  late,                  \* devices whose answer may still arrive on this connection
  bounded                \* changes and dropped requests so far

busVars == <<config, bus>>
linkVars == <<ctx, ctx_state, last_connecting_time, late>>
vars == <<busVars, devices, addr, linkVars, current, lastest, pc, goal, poll, now,
          wake, bounded>>

NoPoll == [step |-> 0, try |-> 0, failed |-> 0]

\* ModbusDeviceUnit::new; broken are the steps marked broken.
NewDevice(setting, t) ==
  [id |-> setting.id, active |-> setting.active, timeout |-> setting.timeout,
   retry_count |-> setting.retry_count, time_for_recall |-> setting.time_for_recall,
   next_read_at |-> t, steps |-> setting.steps, broken |-> {}]

DeviceUnit ==
  [id : Ids, active : BOOLEAN, timeout : Nat, retry_count : 0 .. RetryCount,
   time_for_recall : Nat, next_read_at : Nat, steps : 0 .. Steps, broken : SUBSET (1 .. Steps)]

TypeOK ==
  /\ config \in Configs
  /\ devices \in Seq(DeviceUnit)
  /\ ctx \in BOOLEAN
  /\ ctx_state \in {"UnConnected", "Connecting", "Connected"}
  /\ current \in Nat /\ lastest \in Nat
  /\ last_connecting_time \in Nat
  /\ pc \in {"select", "devices", "tick", "connect", "begin", "reading", "cooldown",
             "returned", "panicked"}
  /\ goal \in {"update", "tick", "recover"}
  /\ poll.step \in 0 .. Steps + 1 /\ poll.failed \in 0 .. Steps
  /\ poll.try \in 0 .. RetryCount - 1
  /\ pc \in {"begin", "reading"} => ctx /\ current \in 1 .. Len(devices)
  /\ late \subseteq Ids
  /\ now \in Start .. MaxTime

Init ==
  /\ config \in Configs
  /\ bus = <<>> /\ devices = <<>>
  /\ addr = config.addr
  /\ ctx = FALSE /\ ctx_state = "UnConnected"
  /\ current = 0 /\ lastest = 0
  /\ last_connecting_time = 0
  /\ pc = "select" /\ goal = "tick" /\ poll = NoPoll
  /\ now = Start /\ wake = Start
  /\ late = {}
  /\ bounded = [changes |-> 0, dropped |-> 0]

-----------------------------------------------------------------------------
(* The scheduler.                                                            *)

SaturatingSub(a, b) == IF a > b THEN a - b ELSE 0
AtLeast(a, b) == IF a > b THEN a ELSE b

\* Mutant: the newest timestamp wins.
ChosenNewest(devs) ==
  LET ahead == {i \in DOMAIN devs : devs[i].active /\ devs[i].next_read_at > devs[1].next_read_at}
  IN  IF ahead = {} THEN 1
      ELSE CHOOSE i \in ahead : \A j \in ahead : devs[i].next_read_at >= devs[j].next_read_at

\* when_next_device: the first device, unless an active one has an older timestamp;
\* of those the oldest, the first of equals.
Chosen(devs) ==
  LET before(i, j) == \/ devs[i].next_read_at < devs[j].next_read_at
                      \/ devs[i].next_read_at = devs[j].next_read_at /\ i <= j
      ahead == {i \in DOMAIN devs : devs[i].active /\ devs[i].next_read_at < devs[1].next_read_at}
  IN  IF ahead = {} THEN 1
      ELSE CHOOSE i \in ahead : \A j \in ahead : before(i, j)

WhenNextDevice(devs) ==
  IF devs[Chosen(devs)].active THEN devs[Chosen(devs)].next_read_at ELSE NoActive

WhenNext(devs, connected, retry_at, t) ==
  IF devs = <<>> THEN NoDevices
  ELSE SaturatingSub(IF connected THEN WhenNextDevice(devs) ELSE retry_at, t)

\* Mutant: the sleep does not ask when_next.
BackToSelectAtOnce(devs, connected, retry_at, index, t) ==
  /\ t <= MaxTime
  /\ current' = IF devs # <<>> /\ connected THEN Chosen(devs) ELSE index
  /\ wake' = t + MinSleep
  /\ now' = t
  /\ pc' = "select" /\ poll' = NoPoll

\* The end of a turn of node_loop at time t: when_next, which also chooses the
\* device while the connection stands, and back to select.
BackToSelect(devs, connected, retry_at, index, t) ==
  /\ t <= MaxTime
  /\ current' = IF devs # <<>> /\ connected THEN Chosen(devs) ELSE index
  /\ wake' = t + AtLeast(WhenNext(devs, connected, retry_at, t), MinSleep)
  /\ now' = t
  /\ pc' = "select" /\ poll' = NoPoll

-----------------------------------------------------------------------------
(* The configuration in the database: external, as the workers that change  *)
(* it and node_master, which forwards the event, show it.                    *)

ChangeConfig(c) ==
  /\ bounded.changes < MaxChanges
  /\ bounded' = [bounded EXCEPT !.changes = @ + 1]
  /\ c # config
  /\ config' = c
  /\ bus' = Append(bus, [event_type |-> "Update", addr |-> c.addr])
  /\ UNCHANGED <<devices, addr, linkVars, current, lastest, pc, goal, poll, now, wake>>

DeleteNode ==
  /\ bounded.changes < MaxChanges
  /\ bounded' = [bounded EXCEPT !.changes = MaxChanges]
  /\ bus' = Append(bus, [event_type |-> "Delete", addr |-> config.addr])
  /\ UNCHANGED <<config, devices, addr, linkVars, current, lastest, pc, goal, poll, now,
                 wake>>

-----------------------------------------------------------------------------
(* select.                                                                   *)

\* create_context up to connect; the old connection is dropped.  The address always
\* parses: create_node and update_node let only IPv4 addresses into the database.
StartConnecting(why) ==
  /\ pc' = "connect" /\ goal' = why
  /\ ctx' = FALSE /\ ctx_state' = "Connecting" /\ late' = {}
  /\ UNCHANGED last_connecting_time

\* Mutant: an update is handled without fetching the devices again.
ReceiveUpdateAddressOnly ==
  /\ pc = "select" /\ bus # <<>> /\ Head(bus).event_type = "Update"
  /\ addr' = Head(bus).addr /\ bus' = Tail(bus)
  /\ BackToSelect(devices, ctx, last_connecting_time, current, now)
  /\ UNCHANGED <<config, devices, linkVars, lastest, goal, bounded>>

\* update: a new connection first when the address changed, then the devices.
ReceiveUpdate ==
  /\ pc = "select" /\ bus # <<>> /\ Head(bus).event_type = "Update"
  /\ addr' = Head(bus).addr
  /\ bus' = Tail(bus)
  /\ now' \in now .. AtLeast(now, wake) /\ now' <= MaxTime
  /\ IF addr' = addr
       THEN pc' = "devices" /\ goal' = "update" /\ UNCHANGED linkVars
       ELSE StartConnecting("update")
  /\ UNCHANGED <<config, devices, current, lastest, poll, wake, bounded>>

ReceiveDelete ==
  /\ pc = "select" /\ bus # <<>> /\ Head(bus).event_type = "Delete"
  /\ bus' = Tail(bus)
  /\ pc' = "returned"
  /\ ctx' = FALSE
  /\ UNCHANGED <<config, devices, addr, ctx_state, last_connecting_time, late, current,
                 lastest, goal, poll, now, wake, bounded>>

\* The sleep is over: tick.
Wake ==
  /\ pc = "select"
  /\ AtLeast(now, wake) <= MaxTime
  /\ now' = AtLeast(now, wake)
  /\ pc' = IF devices = <<>> THEN "devices" ELSE "tick"
  /\ goal' = "tick"
  /\ UNCHANGED <<busVars, devices, addr, linkVars, current, lastest, poll, wake, bounded>>

-----------------------------------------------------------------------------
(* create_devices.                                                           *)

\* get_devises repeats until the database answers.  Devices whose values it does not
\* answer are left out: answered is where the others stand in the list, created when
\* their units were made.  Without a device left when_next_device panics.
FetchDevices(answered) ==
  \E t \in now .. now + FetchTime : \E created \in [DOMAIN answered -> now .. t] :
    LET devs == [i \in DOMAIN answered |-> NewDevice(config.devices[answered[i]], created[i])]
        complete == Len(devs) = Len(config.devices)
    IN  /\ pc = "devices" /\ t <= MaxTime
        /\ \A i, j \in DOMAIN answered :
             i < j => answered[i] < answered[j] /\ created[i] <= created[j]
        /\ complete \/ bounded.dropped < MaxDropped
        /\ bounded' = IF complete THEN bounded ELSE [bounded EXCEPT !.dropped = @ + 1]
        /\ devices' = devs
        /\ \/ /\ config.devices = <<>>
              /\ BackToSelect(devs, ctx, last_connecting_time, current, t)
           \/ /\ config.devices # <<>> /\ devs = <<>>
              /\ pc' = "panicked" /\ now' = t
              /\ UNCHANGED <<current, poll, wake>>
           \/ /\ devs # <<>> /\ goal = "update"
              /\ BackToSelect(devs, ctx, last_connecting_time, Chosen(devs), t)
           \/ /\ devs # <<>> /\ goal = "tick"
              /\ current' = Chosen(devs)
              /\ pc' = "tick" /\ now' = t
              /\ UNCHANGED <<poll, wake>>
        /\ UNCHANGED <<busVars, addr, linkVars, lastest, goal>>

-----------------------------------------------------------------------------
(* create_context.                                                           *)

\* tick with its devices: read when there is a connection, else connect.
TickConnected ==
  /\ pc = "tick" /\ ctx
  /\ pc' = "begin"
  /\ UNCHANGED <<busVars, devices, addr, linkVars, current, lastest, goal, poll, now, wake, bounded>>

TickConnect ==
  /\ pc = "tick" /\ ~ctx
  /\ StartConnecting("tick")
  /\ UNCHANGED <<busVars, devices, addr, current, lastest, poll, now, wake, bounded>>

\* What follows create_context, at time t: update fetches the devices, a tick with
\* a connection reads, and everything else ends the turn.
ConnectEnds(connected, t) ==
  /\ t <= MaxTime
  /\ \/ goal = "update" /\ pc' = "devices" /\ now' = t /\ UNCHANGED <<current, poll, wake>>
     \/ goal = "tick" /\ connected /\ pc' = "begin" /\ now' = t /\ UNCHANGED <<current, poll, wake>>
     \/ /\ goal = "recover" \/ (goal = "tick" /\ ~connected)
        /\ BackToSelect(devices, connected, last_connecting_time', current, t)
  /\ UNCHANGED <<busVars, devices, addr, lastest, goal, bounded>>

ConnectOk(t) ==
  /\ pc = "connect"
  /\ ctx' = TRUE /\ ctx_state' = "Connected"
  /\ UNCHANGED <<last_connecting_time, late>>
  /\ ConnectEnds(TRUE, t)

\* disconnecting, at time t.
Disconnecting(t) ==
  /\ last_connecting_time' = t + Reconnect
  /\ ctx' = FALSE /\ ctx_state' = "UnConnected" /\ late' = {}

\* Mutant: a refused connection is not announced.
ConnectFailsSilently(t) ==
  /\ pc = "connect"
  /\ last_connecting_time' = t + Reconnect
  /\ ctx' = FALSE /\ late' = {} /\ UNCHANGED ctx_state
  /\ ConnectEnds(FALSE, t)

ConnectFails(t) ==
  /\ pc = "connect"
  /\ Disconnecting(t)
  /\ ConnectEnds(FALSE, t)

-----------------------------------------------------------------------------
(* read.                                                                     *)

Polled == devices[current]

\* The poll at the first step from s on that is not broken; broken steps count as
\* failed.  After its last step the pool is at its end.
PollFrom(s, failed, device) ==
  LET next == CHOOSE n \in s .. device.steps + 1 :
                /\ n = device.steps + 1 \/ n \notin device.broken
                /\ s .. n - 1 \subseteq device.broken
  IN  [step |-> next, try |-> 0, failed |-> failed + (next - s)]

\* A device that is not active is not read and stays as due as it was.
BeginInactive ==
  /\ pc = "begin" /\ ~Polled.active
  /\ BackToSelect(devices, ctx, last_connecting_time, current, now)
  /\ UNCHANGED <<busVars, devices, addr, linkVars, lastest, goal, bounded>>

Begin ==
  /\ pc = "begin" /\ Polled.active
  /\ pc' = "reading"
  /\ poll' = PollFrom(1, 0, Polled)
  /\ UNCHANGED <<busVars, devices, addr, linkVars, current, lastest, goal, now, wake, bounded>>

Reading == pc = "reading" /\ poll.step <= Polled.steps

\* An answer, or the error that comes instead, within the timeout of the device.
Answered == now' \in now .. now + Polled.timeout /\ now' <= MaxTime

ReadOk ==
  /\ Reading /\ Answered
  /\ poll' = PollFrom(poll.step + 1, poll.failed, Polled)
  /\ UNCHANGED <<busVars, devices, addr, linkVars, current, lastest, pc, goal, wake, bounded>>

\* Mutant: one try more than retry_count.
ReadTimeoutOnceMore ==
  /\ Reading /\ Answered
  /\ UNCHANGED late \/ (now' = now + Polled.timeout /\ late' = late \cup {Polled.id})
  /\ poll' = IF poll.try < Polled.retry_count
               THEN [poll EXCEPT !.try = @ + 1]
               ELSE PollFrom(poll.step + 1, poll.failed + 1, Polled)
  /\ UNCHANGED <<busVars, devices, addr, ctx, ctx_state, last_connecting_time, current,
                 lastest, pc, goal, wake, bounded>>

\* Timeout and DeviceProtocolError: try again, retry_count times in all; then the
\* step fails.  A timeout leaves an answer that may still arrive.
ReadTimeout ==
  /\ Reading /\ Answered
  /\ UNCHANGED late \/ (now' = now + Polled.timeout /\ late' = late \cup {Polled.id})
  /\ poll' = IF poll.try + 1 < Polled.retry_count
               THEN [poll EXCEPT !.try = @ + 1]
               ELSE PollFrom(poll.step + 1, poll.failed + 1, Polled)
  /\ UNCHANGED <<busVars, devices, addr, ctx, ctx_state, last_connecting_time, current,
                 lastest, pc, goal, wake, bounded>>

\* RemoveStep: the device refuses the registers; the step is broken from now on.
ReadRemoveStep ==
  /\ Reading /\ Answered
  /\ devices' = [devices EXCEPT ![current].broken = @ \cup {poll.step}]
  /\ poll' = PollFrom(poll.step + 1, poll.failed + 1, Polled)
  /\ UNCHANGED <<busVars, addr, linkVars, current, lastest, pc, goal, wake, bounded>>

\* SocketFail: everything read in this poll is dropped with the connection.
ReadSocketFail ==
  /\ Reading /\ Answered
  /\ Disconnecting(now')
  /\ BackToSelect(devices, FALSE, last_connecting_time', current, now')
  /\ UNCHANGED <<busVars, devices, addr, lastest, goal, bounded>>

\* HeaderMisMatch, an answer to an older request: blamed on this device when the
\* step was tried before, else on the device polled last.
Blamed == IF poll.try > 0 THEN current ELSE lastest

ReadHeaderMisMatch ==
  /\ Reading /\ Answered /\ late # {}
  /\ lastest' = current
  /\ IF Blamed > Len(devices)
       THEN /\ pc' = "panicked"
            /\ UNCHANGED <<devices, linkVars>>
       ELSE /\ devices' = IF Blamed = 0 THEN devices
                          ELSE [devices EXCEPT ![Blamed].timeout = @ + TimeoutStep]
            /\ Disconnecting(now')
            /\ pc' = "cooldown"
  /\ poll' = NoPoll
  /\ UNCHANGED <<busVars, addr, current, goal, wake, bounded>>

\* increase_timeout after its sleep: connect again.
Recover ==
  /\ pc = "cooldown"
  /\ now + Cooldown <= MaxTime
  /\ StartConnecting("recover")
  /\ now' = now + Cooldown
  /\ UNCHANGED <<busVars, devices, addr, current, lastest, poll, wake, bounded>>

\* The pool is read: the device is due in time_for_recall, the DeviceEvent goes out, and
\* other devices have to wait for Pause.
Finish ==
  /\ pc = "reading" /\ poll.step = Polled.steps + 1
  /\ lastest' = current
  /\ devices' = [devices EXCEPT ![current].next_read_at = now + Polled.time_for_recall]
  /\ BackToSelect(devices', ctx, last_connecting_time, current,
                  now + IF Len(devices) > 1 THEN Pause ELSE 0)
  /\ UNCHANGED <<busVars, addr, linkVars, goal, bounded>>

Next ==
  \/ \E c \in Configs : ChangeConfig(c)
  \/ DeleteNode
  \/ ReceiveUpdate \/ ReceiveDelete \/ Wake
  \/ \E n \in 0 .. Len(config.devices) :
       \E answered \in [1 .. n -> DOMAIN config.devices] : FetchDevices(answered)
  \/ TickConnected \/ TickConnect
  \/ \E t \in now .. now + ConnectTime : ConnectOk(t) \/ ConnectFails(t)
  \/ BeginInactive \/ Begin
  \/ ReadOk \/ ReadTimeout \/ ReadRemoveStep \/ ReadSocketFail \/ ReadHeaderMisMatch
  \/ Recover \/ Finish

Spec == Init /\ [][Next]_vars

-----------------------------------------------------------------------------
Active == {i \in DOMAIN devices : devices[i].active}
BeginsPoll == pc = "begin" /\ pc' = "reading"

(***************************************************************************)
(* Only an active device is polled, and never before it is due, whatever   *)
(* reloads, reconnections and aborted polls came between the choice of the *)
(* device and its poll.  (when_next_device, tick)                          *)
(***************************************************************************)
NotPolledEarly ==
  [][BeginsPoll => Polled.active /\ Polled.next_read_at <= now]_vars

(***************************************************************************)
(* When a tick gets to the device chosen by the last when_next, no active  *)
(* device has an older timestamp, whatever reloads, reconnections and      *)
(* aborted polls came between.  Only the first of the list may be chosen   *)
(* although it is switched off: when_next_device starts from devices[0]    *)
(* without asking whether it is active.                                    *)
(***************************************************************************)
MostLaggingFirst ==
  pc = "begin" =>
    /\ Polled.active \/ current = 1
    /\ \A i \in Active : Polled.next_read_at <= devices[i].next_read_at

(***************************************************************************)
(* A device that is switched off is chosen only when none is active.       *)
(* (when_next_device: "якшо немає активних то просто спимо 1 сек", if none *)
(* is active we just sleep for a second; README.en.md: "devices with the   *)
(* oldest timestamp are polled first".)  The code does not keep to it: the *)
(* timestamp of a first device that is switched off never moves, and the   *)
(* devices behind it are not polled at all.                                *)
(***************************************************************************)
SwitchedOffLast ==
  pc = "begin" /\ Active # {} => Polled.active

(***************************************************************************)
(* A gateway that refused or lost a connection is left alone for Reconnect *)
(* before a tick connects again, whatever messages interrupt the sleep.    *)
(* (create_context: "Повторна спроба через 60 сек.")                       *)
(***************************************************************************)
ReconnectPaced ==
  [][pc = "tick" /\ pc' = "connect" => now >= last_connecting_time]_vars

(***************************************************************************)
(* Between turns the state the user interface was told is the state of the *)
(* connection.  (send_connecting_msg before each change of ctx)            *)
(***************************************************************************)
ShownStateIsTrue ==
  pc = "select" => (ctx <=> ctx_state = "Connected") /\ ctx_state # "Connecting"

(***************************************************************************)
(* The hot reload converges: between turns, with every event received and  *)
(* every request for values answered, the node polls exactly the devices   *)
(* of the database, at the address of the database.  (update)              *)
(***************************************************************************)
Reloaded ==
  (pc = "select" /\ bus = <<>> /\ now > Start /\ bounded.dropped = 0) =>
    /\ addr = config.addr
    /\ Len(devices) = Len(config.devices)
    /\ \A i \in DOMAIN devices :
         devices[i].id = config.devices[i].id /\ devices[i].active = config.devices[i].active

(***************************************************************************)
(* Nobody waits for ever behind a neighbour: while the first connection    *)
(* stands and the first device of the list is active, the oldest active    *)
(* device is late by at most one round of polls and the time it took to    *)
(* fetch the devices and to connect.  A poll costs up to RetryCount        *)
(* timeouts for each step and two short sleeps.                            *)
(***************************************************************************)
LagBounded ==
  (pc = "begin" /\ ctx_state = "Connected" /\ last_connecting_time = 0 /\ devices[1].active) =>
    \A i \in Active :
      now - devices[i].next_read_at <=
        FetchTime + ConnectTime
          + Len(devices) * (Steps * RetryCount * Timeout + Pause + MinSleep)
=============================================================================
